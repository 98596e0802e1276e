------------------------------ MODULE StackRace ------------------------------
(***************************************************************************)
(* A stack of undo entries between two threads.  updateEditStack, on the   *)
(* framework's thread, takes every entry off the front and puts it back at *)
(* the end, as often as the stack was long when it began; the undo button, *)
(* on the main thread, finds the stack not empty and takes its last entry. *)
(* Nothing keeps the two apart.  EditStacks has the update as one step.    *)
(*                                                                         *)
(* A step is one call of NSMutableArray: Deque's popFront counts, reads    *)
(* and removes, its popBack reads and removes, and the other thread may    *)
(* come between.  (What two calls at the very same time do to the array,   *)
(* which is not thread-safe, is not modelled.)  The redo stack and its     *)
(* button are alike, and typing clears it; a stack here is either.         *)
(***************************************************************************)
EXTENDS EditStacks, FiniteSets

CONSTANTS
  Placements,   \* the text actions that are rendered, as they were placed
  Me,           \* the client whose stack it is
  MaxUpdates,   \* bound on the text actions rendered
  NoEntry       \* nil

ASSUME PlacementsAssumption == Placements \subseteq Action
ASSUME RaceClientAssumption == Me \in Client
ASSUME MaxUpdatesAssumption == MaxUpdates \in Nat

\* An entry is an object of its own: number stands for its identity.
StackEntry == [edit : Action, number : Nat]
Entry(p, number) == [edit |-> p, number |-> number]

ASSUME NoEntryAssumption == NoEntry \notin StackEntry

VARIABLES
  stack,       \* undoStack
  update,      \* framework's thread: where updateEditStack is, with its variables
  undo,        \* main thread: where undo is, with its variable
  undone,      \* the numbers of the entries that undo has taken, in order
  failed,      \* which thread has failed: it stops here
  created,     \* history: the number of entries made; they are numbered
  thrownOut,   \* history: the numbers of the entries thrown out or cleared
  before,      \* history: the stack when the update began
  intoUpdate,  \* history: has the main thread shortened the stack since then?
  intoUndo,    \* history: has the update shortened it since undo was pressed?
  torn         \* history: was an entry taken off that the other thread had read?

vars == <<stack, update, undo, undone, failed, created, thrownOut, before,
          intoUpdate, intoUndo, torn>>

Idle == [at |-> "idle"]
Pressed == [at |-> "pressed"]

Init ==
  /\ stack = <<>>
  /\ update = Idle
  /\ undo = Idle
  /\ undone = <<>>
  /\ failed = "no"
  /\ created = 0
  /\ thrownOut = {}
  /\ before = <<>>
  /\ intoUpdate = FALSE
  /\ intoUndo = FALSE
  /\ torn = FALSE

Numbers(entries) == {entries[i].number : i \in DOMAIN entries}

----------------------------------------------------------------------------
\* NSMutableArray

WithFront(deque) == deque
WithoutFront(deque) == Tail(deque)
Without(deque, number) ==
  IF number \in Numbers(deque)
  THEN RemoveAt(deque, CHOOSE i \in DOMAIN deque : deque[i].number = number)
  ELSE deque
PushFront(deque, entry) == <<entry>> \o deque
PushBack(deque, entry) == Append(deque, entry)

----------------------------------------------------------------------------
\* The framework's thread

IterationsPastTheEnd(deque) == Len(deque) + 1
Iterations(deque) == Len(deque)

\* renderIncomingEdits has accepted p: the size of the stack is read once.
BeginUpdate ==
  /\ update.at = "idle"
  /\ created < MaxUpdates
  /\ \E p \in Placements :
       update' = [at |-> "loop", action |-> p, left |-> Iterations(stack)]
  /\ before' = stack
  /\ intoUpdate' = FALSE
  /\ UNCHANGED <<stack, undo, undone, failed, created, thrownOut, intoUndo, torn>>

\* popFront counts: it returns nil when the array is empty ...
CountFront ==
  /\ update.at = "loop"
  /\ update.left > 0
  /\ update' = IF stack = <<>>
               THEN [at |-> "entry", action |-> update.action,
                     left |-> update.left - 1, temp |-> NoEntry]
               ELSE [update EXCEPT !.at = "counted", !.left = @ - 1]
  /\ UNCHANGED <<stack, undo, undone, failed, created, thrownOut, before,
                 intoUpdate, intoUndo, torn>>

\* ... or else reads objectAtIndex:0 ...
ReadFront ==
  /\ update.at = "counted"
  /\ IF stack = <<>>
     THEN failed' = "rendering" /\ UNCHANGED update
     ELSE /\ update' = [at |-> "read", action |-> update.action,
                        left |-> update.left, temp |-> Head(stack)]
          /\ UNCHANGED failed
  /\ UNCHANGED <<stack, undo, undone, created, thrownOut, before, intoUpdate,
                 intoUndo, torn>>

\* ... and removes what is at index 0 now.  Either raises in an empty array.
RemoveFront ==
  /\ update.at = "read"
  /\ IF stack = <<>>
     THEN failed' = "rendering" /\ UNCHANGED <<stack, update, intoUndo, torn>>
     ELSE /\ stack' = WithoutFront(stack)
          /\ update' = [update EXCEPT !.at = "entry"]
          /\ intoUndo' = (intoUndo \/ undo.at = "pressed")
          /\ torn' = (torn \/ (undo.at = "read" /\ undo.entry.number = Head(stack).number))
          /\ UNCHANGED failed
  /\ UNCHANGED <<undo, undone, created, thrownOut, before, intoUpdate>>

\* The entry is thrown out, or moved and put back; addObject: raises for nil.
PushBackUnlessBroken ==
  LET p == update.action
      temp == update.temp
  IN /\ update.at = "entry"
     /\ CASE temp = NoEntry ->
               /\ failed' = "rendering"
               /\ UNCHANGED <<stack, update, thrownOut>>
          [] temp # NoEntry /\ BrokenUp(temp.edit, p) ->
               /\ update' = [at |-> "loop", action |-> p, left |-> update.left]
               /\ thrownOut' = thrownOut \cup {temp.number}
               /\ UNCHANGED <<stack, failed>>
          [] OTHER ->
               /\ update' = [at |-> "loop", action |-> p, left |-> update.left]
               /\ stack' = PushBack(stack, [temp EXCEPT !.edit = Shifted(@, p)])
               /\ UNCHANGED <<thrownOut, failed>>
     /\ UNCHANGED <<undo, undone, created, before, intoUpdate, intoUndo, torn>>

\* The action joins the stack, if it is the client's.
EndUpdate ==
  /\ update.at = "loop"
  /\ update.left = 0
  /\ update' = Idle
  /\ created' = created + 1
  /\ IF update.action.user = Me
     THEN stack' = PushBack(stack, Entry(update.action, created + 1)) /\ UNCHANGED thrownOut
     ELSE thrownOut' = thrownOut \cup {created + 1} /\ UNCHANGED stack
  /\ UNCHANGED <<undo, undone, failed, before, intoUpdate, intoUndo, torn>>

----------------------------------------------------------------------------
\* The main thread

PressUndoUnchecked ==
  /\ undo.at = "idle"
  /\ undo' = Pressed
  /\ intoUndo' = FALSE
  /\ UNCHANGED <<stack, update, undone, failed, created, thrownOut, before,
                 intoUpdate, torn>>

\* undo finds the stack not empty.
PressUndo ==
  /\ undo.at = "idle"
  /\ stack # <<>>
  /\ undo' = Pressed
  /\ intoUndo' = FALSE
  /\ UNCHANGED <<stack, update, undone, failed, created, thrownOut, before,
                 intoUpdate, torn>>

\* popBack reads lastObject: of nil, undo makes an action that has no text.
ReadBack ==
  /\ undo.at = "pressed"
  /\ IF stack = <<>>
     THEN failed' = "undo" /\ UNCHANGED undo
     ELSE undo' = [at |-> "read", entry |-> Last(stack)] /\ UNCHANGED failed
  /\ UNCHANGED <<stack, update, undone, created, thrownOut, before, intoUpdate,
                 intoUndo, torn>>

\* popBack removes the object that it has read, if it is in the array; what was
\* read is made into an action and sent.
RemoveBack ==
  /\ undo.at = "read"
  /\ undo' = Idle
  /\ stack' = Without(stack, undo.entry.number)
  /\ undone' = Append(undone, undo.entry.number)
  /\ intoUpdate' = (intoUpdate \/ (update.at # "idle" /\ stack' # stack))
  /\ torn' = (torn \/ (update.at = "read" /\ update.temp.number = undo.entry.number))
  /\ UNCHANGED <<update, failed, created, thrownOut, before, intoUndo>>

\* Input that is recorded clears the redo stack.
Clear ==
  /\ undo.at = "idle"
  /\ stack # <<>>
  /\ stack' = <<>>
  /\ thrownOut' = thrownOut \cup Numbers(stack)
  /\ intoUpdate' = (intoUpdate \/ update.at # "idle")
  /\ UNCHANGED <<update, undo, undone, failed, created, before, intoUndo, torn>>

----------------------------------------------------------------------------

Next ==
  /\ failed = "no"
  /\ \/ BeginUpdate
     \/ CountFront
     \/ ReadFront
     \/ RemoveFront
     \/ PushBackUnlessBroken
     \/ EndUpdate
     \/ PressUndo
     \/ ReadBack
     \/ RemoveBack
     \/ Clear

Spec == Init /\ [][Next]_vars

----------------------------------------------------------------------------
(***************************************************************************)
(* Safety                                                                  *)
(***************************************************************************)

Held == IF update.at = "entry" /\ update.temp # NoEntry THEN {update.temp.number} ELSE {}
Taken == {undone[i] : i \in DOMAIN undone}

\* Every entry is in one place only: on the stack, in the hands of the update,
\* taken by undo, or thrown out or cleared.  None is lost, none is undone twice,
\* and none is undone and kept, whatever the two threads do to the stack; unless
\* one of them took the very entry that the other had read and not yet removed
\* (popFront and popBack are two calls each, and the last entry of the stack comes
\* to its front in the course of an update).
EntriesAccountedFor ==
  ~torn =>
    /\ Cardinality(Numbers(stack)) = Len(stack)
    /\ Cardinality(Taken) = Len(undone)
    /\ Cardinality(Numbers(stack)) + Cardinality(Taken) + Cardinality(Held)
         + Cardinality(thrownOut) = created
    /\ Numbers(stack) \cup Taken \cup Held \cup thrownOut = 1 .. created

EditsOf(entries) == [i \in DOMAIN entries |-> entries[i].edit]

\* An update during which the main thread took nothing off the stack leaves what
\* EditStacks says: the broken entries gone, the others moved once each and in
\* their old order, so that undo takes the newest (the loop of updateEditStack,
\* which uses the stack as a ring).
UpdateIsAtomicUnlessRaced ==
  update.at = "loop" /\ update.left = 0 /\ ~intoUpdate =>
    EditsOf(stack) = UpdateEditStack(EditsOf(before), update.action)

\* A stack makes a rendering raise only if the main thread took something off it
\* while it was being updated: the update counts on the size that it read.
RenderingFailsOnlyIfRaced == failed = "rendering" => intoUpdate

\* Undo meets nil, and sends an action without a text, only if the update took
\* something off the stack after undo had found it not empty.
UndoFailsOnlyIfRaced == failed = "undo" => intoUndo

=============================================================================
