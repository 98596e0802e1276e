# WeWrite in TLA+

WeWrite is an iOS text editor that several people write in at once. Each client
keeps its own copy of one document and broadcasts what its user did; the server
of the Collabrify framework puts the broadcasts in one order and hands them to
every client, which renders them in that order. This directory holds TLA+ models of
the program, TLC configurations that check them on small instances, and theorems
about them that TLAPS proves for every instance.

All paths below are relative to the repository; `TextViewDelegate.m` and the
other sources without a directory are in `src/WeWrite/`.

## Inventory

### The parts and how they interact

```
   user ──► UITextView ──► TextViewDelegate ──sendActions──► TextCollabrifyClient ──broadcast──► server
              ▲               ▲   │                                ▲                              │
              │ setText       │   └─ timer, undo, redo             └────────receivedEvent─────────┘
              └───────────────┴──renderTextEdits (notification)────┘       (framework's thread)
```

| Part | State | Operations |
|---|---|---|
| `TextCollabrifyClient.mm` (a singleton) | `incomingActions`, `selfChangeInFlight` (never read) | `findSession`, `joinSession`, `createSession`, `deleteSession`, `sendActions`, `receivedEvent...`, `endedSession`, `encounteredError` |
| `TextViewDelegate.m` | `globalTruthText`, `userCursors`; `currentEdit`, `timer`, `isSyncing`, `syncBuffer`; `undoStack`, `redoStack`; globals `cursorChangeFromInput`, `lastSelectedLocation` | `shouldChangeTextInRange`, `textViewDidChangeSelection`, `mergeCurrentEdit` (timer), `mergeSingleEdits`, `resolveMergedEdits`, `renderIncomingEdits`, `updateCursors`, `updateUndoRedoStacks`, `verifyEdit`, `applyBufferedEdits`, `undo`, `redo` |
| `Actions.mm` | — | `CursorAction` and `TextAction`, the edits |
| `Deque.m` | an `NSMutableArray` | push and pop at both ends |
| `TextViewController.m` | observers of three notifications | forwards to the delegate; `exit`; the alert of an ended session |
| `SplashViewController.m`, `AppDelegate.m` | spinner, window | start, `joinedSession`; `applicationWillTerminate` |
| Collabrify framework (binary, header only) | the order of events, membership | delivery on a thread of its own; `broadcast` returns -1 on failure |

Two threads of every client meet in the delegate. The main thread runs the text
view, the timer and the buttons. The framework's thread calls `receivedEvent`
(the header, `CollabrifyClient.h:51`, warns that it is not the main thread),
which posts a notification; notifications are delivered synchronously, so
`renderIncomingEdits` runs on that thread too. It ends with a block that is
dispatched to the main queue and copies `globalTruthText` into the text view.

### What is hard, and what makes each part correct

*Replication.* An edit is placed by its author's cursor as each receiver has it,
a client that is typing does not render (`TextViewDelegate.m:379-381`), a
rendering may be abandoned by an exception in the middle of a series, broadcasts
fail, clients lag, leave and end the session. Correct means: clients that have
rendered equally much have equal documents; nothing is lost, repeated or
reordered on the way from the server's order to the document; a cursor stays at
its place in the text; what was put off is rendered in the end.

*Recording.* Single edits come as the text view reports them, in any order of
typing, backspacing, autocorrection, selecting and moving the cursor. Correct
means: the series that is broadcast says what the user did, in as few actions as
possible, and is broadcast at all.

*Writing while others write.* The user types on the main thread while the other
thread replaces the document under the text view. `isSyncing`, which the source calls
a semaphore, is a flag that one thread sets and the other resets; input that it turns
away waits in `syncBuffer`; the text view is overwritten by a block that runs some
time later. Correct means: no character is lost or doubled, the text view comes to
show the document, the user is not locked out.

*Undo and redo.* The stacks hold locations in a text that everybody changes, an
undo takes effect only after a round trip, and both threads use the stacks. Correct
means: undoing what was done last restores the text; an entry follows its text or is
thrown out; only what was undone can be redone; no entry is lost or taken twice.

*Session.* Starting twice, answers that come late or are errors, several sessions of
one name, sessions that end while they are being joined, a client object that
outlives its session. Correct means: one text view at a time, in a session, with
that session in it; who keeps trying gets in; who writes learns that the session has
ended.

The hazards of each part, with their lines, are in `PROJECT.json`.

## Modules

| Module | What it models |
|---|---|
| `Actions` | `CursorAction`, `TextAction`; what is left of one after it was serialized and parsed (`OnTheWire`): no length, one user for a whole series |
| `Document` | `globalTruthText` with `userCursors`, and what one received action does to them: placing, `verifyEdit`, `updateCursors`, the text (`Render`), exceptions (`Raises`) |
| `Replication` | all clients, the server's order, both threads of each client (below) |
| `ReplicatedDocument` | the abstract specification: one history of the document, every client walks along it |
| `ReplicationHistory` | `Replication` with history variables (what each client rendered, the versions of the document), and the refinement mapping to `ReplicatedDocument` |
| `EditSeries` | `mergeSingleEdits` and `resolveMergedEdits` as folds over the edits |
| `TextViewDelegate` | the callbacks of the text view on iOS 7, `applyBufferedEdits` and the block of the main queue, on a record of the delegate's fields |
| `Typing` | one user at a text view: every input at any time, the timer at any time |
| `WeWrite` | the composition: `Replication`, with the text view and the delegate of some clients |
| `EditStacks` | `updateEditStack`, the inverted actions, and the loop body of `renderIncomingEdits` with the stacks |
| `UndoRedo` | one client's text view, undo and redo with the round trip, and others editing meanwhile |
| `StackRace` | the two threads on one stack, one call of `NSMutableArray` at a time |
| `Session` | finding, joining, creating and leaving sessions, and the screens |
| `FoldProofs` | induction over sequences, and what it says of loops |
| `DocumentProofs` | what the proofs share: lemmas about the operators of `Document`, `EditSeries` and `TextViewDelegate` |
| `ReplicationProofs`, `TypingProofs`, `WeWriteProofs`, `UndoRedoProofs`, `StackRaceProofs`, `SessionProofs` | the theorems about these machines |
| `MC*` | instances for TLC |

`Document` extends `Actions` and is extended by `Replication`, `EditSeries` and `EditStacks`;
`TextViewDelegate` extends `EditSeries` and is extended by `Typing`. `WeWrite` extends
`Replication` and `TextViewDelegate`, `UndoRedo` extends `EditStacks` and `TextViewDelegate`,
and `StackRace` extends `EditStacks`. `Session` stands alone: it needs of an edit only its
place among the events of a session.

### Replication: state and steps

| Variable | Code |
|---|---|
| `order`, `log` | the server: all actions broadcast, and which stretch of them is one event |
| `membership`, `delivered` | the framework: in the session, leaving, out; events handed over |
| `incomingActions` | `TextCollabrifyClient.incomingActions` |
| `rendering` | where the framework's thread is: outside (`idle`), in `renderIncomingEdits` before the timer is checked (`notified`), in its loop (`rendering`) |
| `observing` | does a `TextViewController` observe the notifications? |
| `timerValid` | `timer.isValid` |
| `globalTruthText`, `userCursors` | the same |

Steps of the main thread: `ShowTextView`, `Edit` (input that starts the timer),
`TimerFires` and `FlushAndEdit` (the series is sent, or the broadcast fails),
`UndoOrRedo`, `Exit` (the button, the alert's dismissal, and
`applicationWillTerminate`). Steps of the framework's thread: `ReceiveEvent`,
`DeferRender` or `BeginRender`, `RenderNext` for each action (with the exception
that abandons the loop and leaves the session), `StacksRaise`, `FinishRender`,
`LeaveCompletes`. `StacksRaise` is the exception that no other client shares: the main
thread has shortened a stack that `updateUndoRedoStacks` is updating (line 428, `StackRace`),
so that the action is popped and neither the cursors nor the text are changed. It may
happen at any accepted text action of a client that has rendered an edit of its own, which
is more often than the code can do it.
`BeginRender` checks the timer and later steps do not, so the user may start typing
between the check and the rendering, as in the code. A client that crashes takes no
more steps, which needs no action of its own: nothing is persisted and a restarted
program is a new participant.

What a series contains is free (`Series` is any set of sequences of actions), so
what `Replication` shows holds for anything the recording part may send, right or
wrong. `isSyncing` is left to `WeWrite`: it holds back input, and without it more
happens, not less.

### WeWrite: state and steps

A client of `Writer` has, besides its state in `Replication`:

| Variable | Code |
|---|---|
| `ui[c]` | the text view and the delegate's fields, the record of `TextViewDelegate` |
| `holding[c]` | has this call of `renderIncomingEdits` set `isSyncing` yet (line 383)? |
| `mainQueue[c]` | blocks dispatched (line 456) and not run yet |
| `typed`, `erased`, `stranded` | history variables for the properties |

Every step of `Replication` by a writer is taken together with what it does to
`ui`. `TypeKey`, `PressBackspace` and `Tap` run the callbacks; depending on what they
leave, the step of `Replication` is none (`Quiet`: held back, ignored, or the timer ran
already), `Edit` (`StartsTimer`) or `FlushSends` (`Flushes`). `TimerExpires` is
`TimerSends` with the series that `EditSeries` resolves. The framework's thread is that of
`Replication` with two more steps: `HoldInput` sets `isSyncing` after the timer was
checked, so that a key pressed between the two goes into a text that is about to be
replaced; `DispatchBlock` ends the loop, and `RunBlock` runs on the main thread at any
time after, with the document as it is by then. The other clients are seen through
what they broadcast; a step that nobody can see (their rendering) is left out.

### Typing: state and steps

`ui` is the record of `TextViewDelegate`: the text view's text and selection, and
the delegate's `currentEdit`, `timer`, `isSyncing`, `syncBuffer`,
`cursorChangeFromInput`, `lastSelectedLocation`. `base` is what the text view
showed when the series began. An input first asks `shouldChangeTextInRange`,
then changes the text, then reports the selection as often as the code expects iOS
7 to. That a broadcast series comes back before the next input is an abstraction
of `Typing`, not of the callbacks. The huge location that iOS reports on the first click
(`TextViewDelegate.m:149`) is left out: it is thrown away like a location that did not
change. An exception on the main thread is not caught by anything and ends the
program (`crashed`).

### UndoRedo: state and steps

`replica` holds the document and the stacks of the client `Me`, `ui` its text view and
delegate (the record of `TextViewDelegate`), `mainQueue` the blocks that wait; `arriving` is
what the server has ordered and `Me` has not rendered. `Type`, `PressBackspace`, `Tap` and
`TimerFires` run the callbacks of `TextViewDelegate`, so that input is recorded and clears
the redo stack, or is held back in `syncBuffer` and does not; `RunBlock` applies what was
held back. The other participants appear as the events they broadcast: a cursor movement or
none and a removal, an insertion or both, typed against the document as it is after any
number of the events that `Me` has yet to render. An event is rendered in one step, and not
while the timer runs. `ghost` is a history variable for the properties: what the last
rendered action did, whether an insertion has ever tied with an entry, and how much there
may be to redo.

### StackRace: state and steps

`stack` is `undoStack` or `redoStack`. A step is one call of `NSMutableArray`: `popFront` of
`Deque` counts (`CountFront`), reads (`ReadFront`) and removes (`RemoveFront`), `popBack`
reads (`ReadBack`) and removes (`RemoveBack`), and the other thread may come between any
two. `update` is where the framework's thread is in `updateEditStack`: before the next
`popFront` (`loop`, with the iterations left, counted once at line 532), within it (`counted`,
`read`), or with an entry in its hands (`entry`). `undo` is where the main thread is: it has
found the stack not empty (`pressed`), or has read its last entry (`read`). An entry carries
a number, which stands for the identity of the object: `removeObject:` goes by identity, for
`TextAction` has no `isEqual:` of its own, and removes nothing that is not there, while
`removeObjectAtIndex:` removes what is first by then. `failed` ends the behaviour:
`addObject:` was given nil or an index is beyond the end, on the framework's thread, or
`undo` has sent an action without a text.

Four history variables serve the properties: `before`, the stack when the update began;
`intoUpdate`, has the main thread shortened the stack since then; `intoUndo`, has the update
shortened it since undo was pressed; `torn`, has one thread taken the very entry that the
other had read and not yet removed.

### Session: state and steps

`sessions` is what the server has of the one name that all clients look for
(`SESSION_NAME`); `process[c]` is the program of a client with the framework in it:

| Field | Code |
|---|---|
| `session`, `request`, `delivered` | framework: the session, the call under way, the events handed over |
| `lists` | calls of `listSessionsWithTags:` not answered |
| `mainQueue` | completion handlers and `endedSession` that wait for the main thread |
| `spinning`, `views`, `alert` | the spinner, the text views presented, the alert of an ended session |
| `incomingActions`, `document` | `TextCollabrifyClient.incomingActions`; the events that the delegate has rendered |

Each operation of the code is an operator on the process (`FoundSessions`,
`NotifySession`, `ExitTextView`, ...) and the steps apply them: the user presses start
(which stays possible while the spinner turns), writes, exits; the framework answers
(`AnswerList`, `AnswerJoin`, `AnswerCreate`, `AnswerLeave`), or the call fails
(`JoinOrCreateFails`, `LeaveFails`); a callback that was answered waits until
`RunCallback`. `ReceiveEvent` enqueues an event, and renders what waits, or not, or until
an action raises, after which the client leaves. `ProcessEnds` is a crash, a kill or a
termination: nothing is kept, and the server may never hear of it. `past` is a history
variable. That the framework refuses a second joining, creating or leaving while one is
under way, and a joining or creating within a session, is an assumption about
Collabrify (its header describes one session per client); it is named `Refuses`.

## Model checking

| Run | Bounds | Shows |
|---|---|---|
| `replication` | 2 clients, 2 events, 7 kinds of series, failing broadcasts; 320 000 states | `HTypeOK`, `Convergence`, `EachActionOnceInOrder`, `OneHistory` |
| `writing` | 1 writer and another, 3 events, 2 kinds of series of the other, texts typed into up to 2 characters, 2 edits waiting; 1.6 million states | `WTypeOK`, `TypedIsNeverLost`, `TextViewShowsDocument`, `UnsentOnlyAfterBuffering`, `CursorsKeepTheirPlace` |
| `writing_live` | the same with 2 events, and fairness; 55 000 states | `InputIsReleased`, `WNotifiedIsRendered` |
| `session` | 1 client and strangers, 2 sessions, 2 events, 2 lists awaited, 2 actions waiting; 639 000 states | `TypeOK`, `OneTextView`, `TextViewIsInSession`, `DocumentIsTheSession`, `RetryingStartGetsIn`, `EndIsNoticed` |
| `typing` | text up to 3 of 2 characters, 5 edits in a series; 225 000 states | `SeriesRepresentsTyping`, `SeriesIsMinimal`, `TimerRunsIffEdits` |
| `undo_redo` | 2 clients, 3 events, texts of 2 characters, 1 edit waiting; 1.2 million states | `UndoRestores`, `EntriesFollowTheirText`, `RedoOnlyUndone` |
| `stack_race` | 4 updates of 6 kinds; 8.6 million states | `EntriesAccountedFor`, `UpdateIsAtomicUnlessRaced`, `RenderingFailsOnlyIfRaced`, `UndoFailsOnlyIfRaced` |
| `typing_selection`, `typing_crash`, `typing_intertwined`, `undo_redo_tie`, `undo_redo_raise` | the same machines | five statements of the repository that the code does not keep (below) |

Why the bounds are enough to meet the interesting cases.

* `replication`: rendering is a function of two clients' positions in one order, so two
  clients and two events already have one client ahead of the other in every phase of
  rendering, with the second event sent before or after the first was rendered by either.
  The seven series reach every outcome of rendering an action: accepted, rejected by
  `verifyEdit`, raising in `verifyEdit`, raising in `insertString:atIndex:`, an absolute
  location of an undo, a stale cursor, an empty series. The update of the stacks raises at
  the second event, after the client's own; that it goes on rendering while it leaves would
  take a third, and is left to the proof.
* `writing`: with three events the writer's series and two of the other's can be under
  way at once, and a rendering can begin while a block of an earlier one still waits;
  two edits can wait in `currentEdit`, in `syncBuffer`, or one in each. The other's
  insertion pushes the writer's text; its removal is accepted, rejected or raises,
  depending on what arrived before. The other is the owner, and leaves nobody: the end
  of a session is the subject of `session`.
* `session`: two sessions, so that one ends and the next begins while a list of the first
  is still on its way; two lists, so that start was pressed twice; two events, so that
  one can wait and another raise. The client shares nothing with other clients but
  `sessions`, and strangers do to `sessions` whatever clients do.
* `typing`: a series of five edits has a removal that overlaps an insertion which follows
  an earlier removal.
* `undo_redo`: `UndoRestores` looks one undo or redo ahead of what was rendered, so that type,
  undo and redo, which are three events, show it of the undo of a redo, too; an edit of the
  user's and two of another's, one of which moves the entry and the other breaks it up, are
  three; an edit while an undo is under way takes two, an edit that is held back while the
  first waits for its block one more.
* `stack_race`: three updates make a stack of three, with which the fourth can throw out
  and move entries while the main thread takes or clears them in any of its steps. With one
  entry, the first and the last of the stack are the same, and the two threads read it both.

Deadlock is not checked: users may stop (`replication`, `undo_redo`, `session`), a
session has a bounded number of events, and a program that raises on the main thread
stops (`typing`, `writing*`, `stack_race`).

*Fairness.* `WFairness`: the framework's thread, the blocks of the main queue and a
scheduled `NSTimer` are weakly fair, as the system's threads and run loop are; no input
is. `WNotifiedIsRendered` and `InputIsReleased` need more than this of the environment,
and say so: broadcasts that succeed (`FaultyNetwork` is FALSE), a user who pauses for half
a second at some time (`MaxEdits` and `MaxEvents` bound the flushes that would restart the
timer for ever), a client that stays and a session that is open. Without an open session
the own series never comes back, and what was put off stays put off: that is how the
code is.

`Fairness` of `Session`: a call is answered or fails, and the main thread runs. For
`RetryingStartGetsIn` the user too: who sees the spinner turn presses start again, because
the code never tries again by itself. The property holds for behaviours in which calls
fail only finitely often, and has one way out, `LeftBehind`: a leaving that failed, after
which the framework refuses every joining. The server may change its sessions only
finitely often (`MaxSessions`), or the client might always come late.

### Where the code departs from what it says

* `typing_selection`: a removal travels without a location and is placed before its
  author's cursor; the cursor of a selection is its left end. Deleting a selection
  is therefore not what the others render.
* `typing_crash`: a removal in a series is taken to delete the end of the text just
  typed; a selection further right that is longer than that text makes
  `substringToIndex:` raise.
* `typing_intertwined`: a series that begins with a cursor movement is not flushed
  by the next one.
* `undo_redo_tie`: an insertion exactly at the beginning of an entry's text neither
  moves the entry nor throws it out. `EntriesFollowTheirText` shows that this is
  the only case in which an entry of inserted text goes astray.
* `undo_redo_raise`: an entry of removed text is moved by the whole length of a later
  removal that spans its place; undoing both raises and ends the session.

One more departure shows in the form of a property. "Clear the redo stack if we're editing"
says `TextViewDelegate.m:106`; but input that arrives while `isSyncing` is set returns before
that line (59-63), and `applyBufferedEdits` records it (368) without clearing: what was undone
before it can be redone after it. `UndoRedo` has this path (`Type`, then `RunBlock`), and
`RedoOnlyUndone` speaks, for this reason, of edits that are recorded as they are typed.

## Proofs

The eight proof modules prove, for any set of clients and of writers, any characters, any
set of series, any number of sessions, any length of texts, series, buffers and stacks, and
any bound on the events. The assumptions are those that the modules name: `NoUser` is no
client, `NoCursor` is no integer, `NoEntry` is no entry, `Stranger` is no client; the owner,
the user of `Typing` and of `UndoRedo`, and the writers are clients; series are sequences of
actions, placements are actions, what is typed is text; bounds are numbers.

| Theorem | Module | States |
|---|---|---|
| `RenderType` | `DocumentProofs` | rendering any sent action on any document gives a document |
| `InductiveInvariant` | `ReplicationProofs` | `IInv` below is invariant |
| `TypeCorrect` | `ReplicationProofs` | `HSpec => []HTypeOK` |
| `ConvergenceHolds` | `ReplicationProofs` | `HSpec => []Convergence` |
| `ActionsInOrder` | `ReplicationProofs` | `HSpec => []EachActionOnceInOrder` |
| `ImplementsReplicatedDocument` | `ReplicationProofs` | `HSpec => OneHistory`, the refinement of `ReplicatedDocument` |
| `CursorsKeepPlace` | `ReplicationProofs` | `HSpec => CursorsKeepTheirPlace` |
| `WTypesAreKept` | `WeWriteProofs` | `WSpec => []WTypeOK` |
| `NothingIsLeftUnsent` | `WeWriteProofs` | `WSpec => []UnsentOnlyAfterBuffering` |
| `TextViewComesToShowDocument` | `WeWriteProofs` | `WSpec => []TextViewShowsDocument`, with broadcasts that succeed |
| `NoCharacterIsLost` | `WeWriteProofs` | `WSpec => []TypedIsNeverLost`, for one writer, with broadcasts that succeed and others who neither type nor remove its characters |
| `WeWriteIsReplication` | `WeWriteProofs` | `WSpec => Replicating!Spec`, the refinement of `Replication` with any series of actions |
| `TimerAlwaysHasEdits` | `TypingProofs` | `Spec => []TimerRunsIffEdits` |
| `SeriesAlwaysMinimal` | `TypingProofs` | `Spec => []SeriesIsMinimal` |
| `SeriesAlwaysRepresents` | `TypingProofs` | `Spec => []SeriesRepresentsTyping` |
| `SoundSeriesIsRepresented` | `TypingProofs` | the same of the algorithm alone: a series in which every text edit is at the cursor that the edits before it leave, and that moves the cursor at its beginning only, resolves and renders to what its edits did, on any text |
| `TakingBackRestores` | `UndoRedoProofs` | an undo or a redo, made from the action that was rendered last, is accepted, raises nothing and restores the text, for every document and action |
| `EntryFollowsItsText` | `UndoRedoProofs` | an entry of inserted text that names its text still does after an accepted action that neither breaks it up nor ties with it |
| `UndoAlwaysRestores` | `UndoRedoProofs` | `Spec => []UndoRestores` |
| `EntriesAlwaysFollow` | `UndoRedoProofs` | `Spec => []EntriesFollowTheirText` |
| `RedoAlwaysUndone` | `UndoRedoProofs` | `Spec => []RedoOnlyUndone` |
| `OnlyARaceFailsRendering` | `StackRaceProofs` | `Spec => []RenderingFailsOnlyIfRaced` |
| `OnlyARaceFailsUndo` | `StackRaceProofs` | `Spec => []UndoFailsOnlyIfRaced` |
| `EntriesAlwaysAccountedFor` | `StackRaceProofs` | `Spec => []EntriesAccountedFor` |
| `UnracedUpdateIsAlwaysAtomic` | `StackRaceProofs` | `Spec => []UpdateIsAtomicUnlessRaced` |
| `SessionInvariant` | `SessionProofs` | `SessionInv` below is invariant |
| `TypesAreKept` | `SessionProofs` | `Spec => []TypeOK` |
| `OneTextViewAtATime` | `SessionProofs` | `Spec => []OneTextView` |
| `WritesIntoASession` | `SessionProofs` | `Spec => []TextViewIsInSession` |
| `DocumentIsAlwaysTheSession` | `SessionProofs` | `Spec => []DocumentIsTheSession` |

### Loops

The loops of the program run over a series, a buffer, a stack or an event, and are folds in
the model. An induction theorem that takes the property as an operator is of no use to the
provers, and so `FoldProofs` states induction of sets: a set of sequences that has the empty
one and is closed under appending has all (`AllSequences`, from the well-foundedness of the
naturals). The loop body is a constant operator of the module, `Step`, and a proof about a
loop is an instance: `Merging` and `Resolving` (`mergeSingleEdits`, `resolveMergedEdits`),
`Applying` (`applyBufferedEdits`), `Updating` (`updateEditStack`), `Rendering` and
`Remembering` (an event), `Following` (a series, as the user saw it). `LoopInvariant` then
needs one fact of the loop body, that it does not leave a set of states; `LoopOfAppend`
unfolds the last turn of the loop, and `LoopOfConcat` cuts it in two. These are lemmas: they
say nothing of the program until a loop body is put in. What the properties count are loops as well
(`CountingKeys`, `CountingInsertions`, `CountingOwn`), and of a count `SumOfConcat` says
that it adds up.

### Replication

`rendered` is a record of its own of what each client took out of its queue, and
`EachActionOnceInOrder` compares it and the queue with the order; `Convergence` speaks of
clients of which it is equally long. It is not inductive: two equal documents stay equal only
if both clients render the same next action, and nothing in `Convergence` says what is in
their queues. `IInv` adds what is needed:

1. `LogDividesOrder`: the events divide the order into consecutive stretches;
2. `QueueFollowsOrder`: a client's queue is the stretch of the order from the
   action after the last it rendered to the end of its last event;
3. `RenderedFollowsOrder`: what it took is the order up to there;
4. `VersionsReplayOrder`: the recorded versions are the order replayed, one `Render`
   per version, from the empty document;
5. `ShowsItsVersion`: a client's document is the version at its position, unless an update
   of its stacks has raised (`strayed`);
6. `StrayedHaveLeft`: a client of which this is so has begun to leave, and nobody comes back.

A broadcast extends the order behind everything that 2, 3 and 4 speak of. An event that
arrives extends a queue by the stretch that follows it, by 1. A rendered action is by
2 the action of the order that leads from the client's version to the next one, by 4;
if the client is the first to get there, the step creates the version, and otherwise
it finds the version it would have created. `EachActionOnceInOrder` follows from 2 and 3.
Convergence follows from 5 and 6: equal positions show the same version, and who shows none
is not in the session. Deferring, abandoning and leaving touch none of this, whatever was
half done. A client whose stacks have raised has taken an action that its document does not
have (`StacksRaiseKeepsIInv`); it takes part in 1 to 3, and no longer in the versions, also
when it goes on rendering until it is out. The refinement maps a client's position to the
version it is at; 4 and 5 make a rendered action a step of `Advance`, an update that raises
is a step of `LeaveHistory`, which leaves the session in the same step, and every other step
is a `Quit` or leaves the mapped state as it is.

### The program as a whole

`WInv` has two parts. `DeviceInv` says of each writer what `Typing` says of its one user, as
far as it is true of a device on which two threads meet: the selection lies in the text,
whatever the text is by now; what waits is made of local edits; and, as long as the program
runs, the timer of the delegate is the one the framework's thread asks for, runs only with
something to send, and runs for everything that waits, unless that began with edits of
`syncBuffer`. A callback either records something and starts the timer or leaves what waits
as it was (`Recorded`), on a text that a rendering has just replaced, too; the block of a
rendering appends to what waits and starts nothing (`ShowingDocument`).

What the block can do to a selection depends on the writer's cursor in the document: before
the text there is no place to put it. `SharedInv` therefore carries, besides the types,
that what a writer has broadcast is neither an undo nor a redo and moves its cursor only to
places that a text can have (`WireAction`), and that in every copy of the document no
writer's cursor is before the text (`InText`); a removal that is rendered lies in the text,
and what a writer types is placed at its own cursor (`RenderingKeepsInText`, from
`RenderingKeepsCursor` of `DocumentProofs`).

`TextViewShowsDocument` speaks of a writer at rest. `Shows` says what holds until then: the
text view shows the document, or something is still to come that will make it, and there is
an observer for it: a rendering, a block, an event that has not arrived, or an edit that
waits. Each of these hands over to the next: an edit that waits is sent by the timer and is
then an event that has not arrived, because the broadcast succeeds; a rendering that is put
off finds the timer running and so an edit that waits; a rendering leaves a block; the block
shows the document, or applies something to it, and then that waits. Without an observer,
nothing has been rendered and nothing typed. That a broadcast succeeds is needed: `sendActions`
drops a series that was not accepted, and the text view keeps what no document has.

`TypedIsNeverLost` is a balance: what the writer typed on one side, and on the other its
characters in the document, under way, in the current edit and in `syncBuffer`. `KeptInv`
makes it inductive with what the two threads need to know of each other:

1. `QueueInv`: the events divide the order, and a writer's queue is the stretch of the order
   behind what it has rendered. What is under way is then all that was broadcast since: a
   broadcast adds to the end of it (`QueueGrows`), an arrival leaves it as it is
   (`QueueReceives`), and a rendering takes the first action off it (`QueueShrinks`).
2. `Unerased`: of a user who erases nothing the current edit holds insertions and movements,
   the buffer only insertions of no length, and nothing is selected.
3. `Harmless`: no action of the order removes the writer's characters, and none of another
   brings some. A removal that names other characters takes none of the writer's away,
   wherever it is placed, because `verifyEdit` rejects it if it is not what it would remove.

A callback records the character (`TypingKeepsKeys`) or hands on what was recorded: the
timer and a tap send it (`TimerSendsKeys`, `TappingKeepsKeys`), and the block of a rendering
moves it from `syncBuffer` to the current edit (`ShowingKeepsKeys`). What is sent has been
merged and resolved, which loses no insertion if nothing is removed, and never raises
(`FinalEditsKeepKeys`); rendered, it is in the document, unless the rendering raises and the
writer leaves (`RenderingKeys`). The hypotheses are needed. A failed broadcast loses
its series. And as characters are counted whoever typed them, a second writer's would be
counted too, and another's that are the same: the theorem speaks of one writer and of others
whose series are of other characters (`OthersTypeNoKeys`). Any others may take part, with
any such insertions, removals, movements, undos and redos. The run `writing` is an instance.

That the writers' steps are steps of `Replication` is `WeWriteIsReplication`. Two things are
not plain from the form of `WeWrite`: that what the folds of `EditSeries` make of recorded edits
is a sequence of actions (`FinalEditsType`), and that it is there at all when the timer fires.

### Cursors

A step of the text that `CursorsKeepTheirPlace` speaks of is `RenderNext`. That a rendered
insertion or removal keeps a cursor in its place is a fact about sequences
(`InsertionKeepsCursors`, `RemovalKeepsCursors`): what `MovedCursor` does to a cursor is
what `Splice` does to the prefix and the suffix of the text at it. One thing must be known of
the action: an insertion with a length would be placed before the location at which the
text is inserted. No action of the order carries a length (`NoLengths`, which is inductive
by `OnTheWire`), and by `IInv` the action that is rendered is one of the order.

### Undo and redo

`TakingBackRestores` and `EntryFollowsItsText` are what the step comes to, for texts of any
length. Both rest on `SpliceElements` in `DocumentProofs`, which says what `Splice` does
character by character: the replacement is found where the range was (`SubstringOfSplice`),
and putting back what was cut restores the text (`SpliceBack`).

`UndoInv` makes properties of the machine of them:

1. `UndoTypeOK`: among the types, that an event that undoes an edit of the user's own is
   nothing but this undo, because `undo` sends it alone and the timer sends no undo;
2. `CursorInText`: the user's cursor is never before the text of the document, so that the
   block has a place for it;
3. `EntriesStayNamed`: until an entry was tied with, *both* stacks consist of entries that
   name their text, as `EntriesFollowTheirText` says of a client that goes on;
4. `LastCanBeTakenBack`: the action that was rendered last, if it was the user's own and
   nothing came after it, is on top of the stack from which it can be taken back, as it
   was placed in the document that it was rendered on;
5. `RedoableCoversUndos`: what can be redone and the own undos that are still arriving are
   together not more than what was undone since the last edit that was recorded as it was
   typed.

The callbacks of the text view do to the stacks one of two things: input that is recorded
clears the redo stack (`ClearingKeepsUndoInv`), which makes 3 to 5 hold of less; everything
else, input that is held back and the block that applies it among it, leaves the stacks as
they are (`TurnKeepsUndoInv`, `RunBlockKeepsUndoInv`).

An event is a loop over its actions, in which what the properties remember is remembered at
every action (`Remembering`); that the two loops, with and without the memory, do the same
to the stacks is one more induction. An update takes entries out of a stack or shifts them,
never more (`UpdatedStack`), which is what 3 and 5 need of it.

### The race on a stack

That failing takes a race says nothing of what the loop of `updateEditStack` will find
next. `RaceInv` adds, of each thread, what it counts on. As long as the main thread has taken
nothing off since the update began, the stack has at least as many entries as the loop has
still to take, and what the loop has in its hands is an entry. The loop puts back at the end
what it took from the front, or throws it out, and takes one iteration off in both cases; that
is why counting once, before the loop, is enough although the stack shrinks. And as long as the
update has taken nothing off since undo was pressed, the stack is not empty. The races
that the two properties name are recorded by the steps that shorten the stack, not by
those that fail.

The counts of `EntriesAccountedFor` stand for what `EachInOnePlace` says: no number occurs
twice, in one place or in two, and all that were given out are somewhere. That is inductive,
race or none, as long as nothing was torn: every step hands out a new number or moves one
entry from one place to another, except for clearing, which moves all of them. A thread
removes an entry a step after it has read it; `ReadIsThere` says that what `popFront` has
read is still the first, or nothing is left to remove, and what `popBack` has read is still
on the stack. That is so until one of them removes what both have read. The counts follow:
distinct entries are in a bijection with their numbers (`NumbersOfDistinct`), and the
cardinality of a disjoint union is the sum (`CountOfApart`).

That the loop as a whole is `UpdateEditStack` (`UpdateIsAtomicUnlessRaced`) needs to know where
it is. `UpdateUnderWay` describes the stack as a ring: what was there when the update began is
what was taken, perhaps the entry in hand, and the rest; the rest is still at the front, and
behind it is what updating the taken ones gives. Taking an entry moves the border, putting it
back adds to both sides one turn of the fold (`LoopOfAppend`), and when nothing is left to take
the stack is what updating it all gives.

### The timer and the series

Whether a callback records and starts the timer depends on more than the two fields that
`TimerRunsIffEdits` relates: on `isSyncing`, and on how many selection changes are still to
be ignored. `TypingInv` says of a main thread at rest that nothing is being sent or held
back and that the selection lies in the text. Input announces as many selection changes as
the text view then reports, so that none of them is taken for the user's moving the cursor
(`ReplacingRecords`); a move that is the user's sends what was recorded before it, records
itself and starts the timer again (`SelectingRecords`); and the timer that fires sends
everything (`MergingSends`), unless the series raises, which ends the program. What a
series of any length comes to is a matter of the loops: `resolveMergedEdits` keeps at most one
removal and one insertion (`Found`), so that at most a movement, a removal and an insertion are
sent (`ResolvedFound`).

### What a series does

`SeriesRepresentsTyping` compares two computations: what the recorded edits did to the text
view, one after the other, and what a client makes of the few actions that the loops of
`EditSeries` reduce them to. Neither says how the two are related half way through the series.
The proof puts a third one between them, `Followed`: it reads the series edit by edit next to a
text and a cursor, and remembers whether every edit was possible where it is recorded
(`placed`) and every text edit at the cursor, after all movements (`typed`).

1. *The text view.* `SeriesInv` says that the current series, read from `base`, the view when
   the series began, is placed and leads to the text and the cursor on the screen (`LeadsTo`).
   It needs to say more to be inductive: no selection change is still to be ignored and the
   last selection that was recorded is the selection (`Settled`), for otherwise a movement
   of the cursor would be missing from the series. Each handler either goes on with the
   series or, where it sends it first, starts a new one (`GoesOn`); a program that has raised
   has no series.
2. *From placed to typed.* The conditions of `SeriesRepresentsTyping` turn a placed series into
   one that is typed, too (`PlacedSeriesIsSound`).
3. *`mergeSingleEdits`.* Two neighbouring edits that it joins do together what they did one
   by one (`JoinedInsertions`, `JoinedRemovals`), so that a merged series leads to the same
   text and cursor (`MergedFollows`).
4. *`resolveMergedEdits`.* What the loop has found so far, a removal, an insertion, both or
   none, replaces a stretch of the text as it was at the beginning, which ends at the first
   cursor, by what is to be inserted, and gives the text as it is now (`Resolves`). An
   insertion makes what is inserted longer; a removal takes from the end of it, or all of
   it and more of the stretch (`TextsResolve`). Of the movements the series begins with,
   the last one counts (`MovesFollow`).
5. *Rendering.* The actions that are sent for it do that replacement: the removal takes the
   stretch out, and the insertion is put at the cursor that the removal leaves
   (`DescribedRendered`).

`SoundSeriesIsRepresented` is steps 3 to 5 together and holds of any text;
`SeriesAlwaysRepresents` adds the first two.

### Sessions

That a client has one text view says nothing of those that are about to be opened.
`SessionInv` adds, of each client no rendering of which has raised: at most one callback
that will open a text view waits; while it waits there is none; and with either, the client
is in a session and has no call under way. A list that is answered then joins nothing,
because the framework refuses; exiting takes the text view away before it asks to leave;
and until the leaving is answered nothing can join. Each step is one of a few changes to
one process (`OneProcessStep`), and the end of a session by its owner changes all
processes by a callback that opens nothing (`EndingStep`).

What a text view will show is decided before there is one: events arrive from the moment the
client is in the session, and wait for the callback that presents the text view.
`DocumentInv` therefore adds to `SessionInv` that while this callback waits, the queue by
itself is what has arrived (`EventsOf`), and that with a text view, what is rendered and the
queue together are. By `SessionInv` the two never overlap, and outside both nothing is said
of the queue, which may keep what an earlier text view left in it. Getting into the session
starts the count of what has arrived at nothing, which an empty queue is; presenting the text
view starts an empty document in front of the queue; an arrival adds the same event at the end
of both sides (`EnqueueKeepsEvents`), and a rendering moves the border between document and
queue (`RenderingKeepsEvents`).

### Only model-checked

* `CursorsKeepTheirPlace` is proved of `Replication`; the run `writing` checks it of `WeWrite`,
  to which `WeWriteIsReplication` carries it over.
* `InputIsReleased`, `WNotifiedIsRendered`, `RetryingStartGetsIn` and `EndIsNoticed`, because
  liveness under fairness is out of the prover's reach.

## Not modelled

* The vendored protocol buffers (by far the largest part of the repository) and the message
  code generated from `text.proto`. They are a library and its output, used to serialize and
  parse one message; what a message keeps of an action is `OnTheWire`. The share of the
  repository's lines that these modules stand for is small for this reason, and would not
  be larger for a better model of the program.
* Encodings (`sendActions` and `receivedEvent` use different ones), memory that is not freed,
  layout, images, logging.
* What two calls on one `NSMutableArray` at the very same time do, and other data races within
  a call: `StackRace` interleaves the two threads between the calls of `NSMutableArray`,
  `WeWrite` between those of the delegate.
* A list of sessions in which several match: names are unique among the open sessions.
* iOS 6, and what iOS reports of selections otherwise than the code expects
  (`cursorChangeFromInput`).
* Selections and autocorrection while renderings are under way: `Typing` has them without the
  delays, `WeWrite` has the delays without them.
* Pausing, passwords and base files of Collabrify, which the program does not use.
* `Constants` carries no behaviour. The test target is a stub whose one test fails on purpose.

The hazards that no property covers are in `PROJECT.json`, each with the reason.
