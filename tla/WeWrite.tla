------------------------------- MODULE WeWrite -------------------------------
(***************************************************************************)
(* The program as a whole on the devices of some clients, the writers:     *)
(* Replication, with what the user of the device sees and does.            *)
(*                                                                         *)
(* Two threads meet in a writer's TextViewDelegate.  The main thread runs  *)
(* the text view, the timer and the blocks of the main queue; the thread   *)
(* of the framework renders.  isSyncing is to keep the user from editing   *)
(* while a rendering is under way: what is typed then is held back in      *)
(* syncBuffer, and the block that ends a rendering applies it.             *)
(*                                                                         *)
(* Every step of Replication is taken together with what it does to the    *)
(* delegate; what a writer broadcasts is the series that EditSeries makes  *)
(* of its current edit.  The clients that are not writers are seen through *)
(* what they broadcast, which is any of Series.                            *)
(***************************************************************************)
EXTENDS Replication, TextViewDelegate

CONSTANTS
  Writer,     \* the clients that are modelled to their text view
  Key,        \* the characters that writers type
  MaxText,    \* bound on the length of a text that a writer types into
  MaxEdits    \* bound on the edits that wait in the delegate of a writer

ASSUME WriterAssumption == Writer \subseteq Client
ASSUME KeyAssumption == Key \subseteq Char
ASSUME WriterBoundsAssumption == MaxText \in Nat /\ MaxEdits \in Nat

VARIABLES
  ui,         \* the text view and the delegate of each writer
  holding,    \* framework thread: has this rendering set isSyncing?
  mainQueue,  \* the number of blocks dispatched and not run yet
  typed,      \* history: how many characters the writer typed
  erased,     \* history: has the writer erased anything?
  stranded    \* history: did the current edit begin with a buffered edit?

localVars == <<ui, holding, mainQueue>>
ghostVars == <<typed, erased, stranded>>
writeVars == <<vars, localVars, ghostVars>>

WInit ==
  /\ Init
  /\ ui = [c \in Writer |-> FreshTextView]
  /\ holding = [c \in Writer |-> FALSE]
  /\ mainQueue = [c \in Writer |-> 0]
  /\ typed = [c \in Writer |-> 0]
  /\ erased = [c \in Writer |-> FALSE]
  /\ stranded = [c \in Writer |-> FALSE]

----------------------------------------------------------------------------
\* Main thread of a writer

\* The callbacks of one turn leave the delegate as u.  A series that they sent
\* goes to the server; a timer that they started may fire from now on.
Turn(c, u) ==
  /\ ui' = [ui EXCEPT ![c] = [u EXCEPT !.sent = <<>>]]
  /\ stranded' = [stranded EXCEPT ![c] = @ /\ u.currentEdit # <<>> /\ u.sent = <<>>]
  /\ UNCHANGED <<holding, mainQueue>>

Quiet(c, u) ==
  /\ u.sent = <<>>
  /\ u.timer = ui[c].timer
  /\ UNCHANGED vars

StartsTimer(c, u) ==
  /\ u.sent = <<>>
  /\ u.timer /\ ~ui[c].timer
  /\ HasRoom(Cardinality(TimersRunning) + 1)
  /\ Edit(c)

Flushes(c, u) ==
  /\ u.sent # <<>>
  /\ HasRoom(Cardinality(TimersRunning \cup {c}) + 1)
  /\ FlushSends(c, u.sent[1])

\* What the user does goes through shouldChangeTextInRange and
\* textViewDidChangeSelection.
Input(c, u) ==
  /\ observing[c]
  /\ Len(u.text) <= MaxText
  /\ Len(u.currentEdit) + Len(u.syncBuffer) <= MaxEdits
  /\ Turn(c, u)
  /\ Quiet(c, u) \/ StartsTimer(c, u) \/ Flushes(c, u)

TypeKey(c) ==
  \E key \in Key :
    /\ Input(c, TypeText(ui[c], <<key>>))
    /\ typed' = [typed EXCEPT ![c] = @ + 1]
    /\ UNCHANGED erased

PressBackspace(c) ==
  /\ Input(c, Backspace(ui[c]))
  /\ erased' = [erased EXCEPT ![c] = TRUE]
  /\ UNCHANGED typed

Tap(c) ==
  \E location \in 0 .. Len(ui[c].text) :
    /\ Input(c, Select(ui[c], location, 0))
    /\ UNCHANGED <<typed, erased>>

\* The half-second timer: the current edit is resolved and sent.
TimerExpires(c) ==
  /\ ui[c].timer
  /\ \E u \in {TimerFired(ui[c])} :
       /\ Turn(c, u)
       /\ IF u.crashed THEN UNCHANGED vars ELSE TimerSends(c, u.sent[1])
  /\ UNCHANGED <<typed, erased>>

\* A block of the main queue shows the document as it is when the block runs.
RunBlock(c) ==
  /\ mainQueue[c] > 0
  /\ mainQueue' = [mainQueue EXCEPT ![c] = @ - 1]
  /\ \E u \in {ShowDocument(ui[c], Doc(c), c)} :
       /\ ui' = [ui EXCEPT ![c] = u]
       /\ stranded' = [stranded EXCEPT
                         ![c] = @ \/ (ui[c].currentEdit = <<>> /\ u.currentEdit # <<>>)]
  /\ UNCHANGED <<vars, holding, typed, erased>>

ExitButton(c) ==
  /\ Exit(c)
  /\ UNCHANGED <<localVars, ghostVars>>

OpensTextView(c) ==
  /\ ShowTextView(c)
  /\ UNCHANGED <<localVars, ghostVars>>

----------------------------------------------------------------------------
\* The framework's thread of a writer

\* renderIncomingEdits has found the timer not running, and now sets isSyncing.
HoldInput(c) ==
  /\ rendering[c] = "rendering"
  /\ ~holding[c]
  /\ holding' = [holding EXCEPT ![c] = TRUE]
  /\ ui' = [ui EXCEPT ![c].isSyncing = TRUE]
  /\ UNCHANGED <<vars, mainQueue, ghostVars>>

\* The loop of renderIncomingEdits; the @catch releases the input again.
RenderOne(c) ==
  /\ holding[c]
  /\ RenderNext(c) \/ StacksRaise(c)
  /\ LET raised == rendering'[c] = "idle"
     IN /\ holding' = [holding EXCEPT ![c] = ~raised]
        /\ ui' = [ui EXCEPT ![c].isSyncing = ~raised /\ @]
  /\ UNCHANGED <<mainQueue, ghostVars>>

DispatchBlock(c) ==
  /\ holding[c]
  /\ FinishRender(c)
  /\ holding' = [holding EXCEPT ![c] = FALSE]
  /\ mainQueue' = [mainQueue EXCEPT ![c] = @ + 1]
  /\ UNCHANGED <<ui, ghostVars>>

\* The steps that leave the delegate and its text view alone.
EventStep(c) ==
  /\ ReceiveEvent(c) \/ DeferRender(c) \/ BeginRender(c) \/ LeaveCompletes(c)
  /\ UNCHANGED <<localVars, ghostVars>>

----------------------------------------------------------------------------

WriterMainThread(c) ==
  \/ OpensTextView(c)
  \/ TypeKey(c)
  \/ PressBackspace(c)
  \/ Tap(c)
  \/ TimerExpires(c)
  \/ RunBlock(c)
  \/ ExitButton(c)

WriterFrameworkThread(c) ==
  \/ EventStep(c)
  \/ HoldInput(c)
  \/ RenderOne(c)
  \/ DispatchBlock(c)

\* The others open their text views and broadcast, whatever they may see.
OthersSend ==
  /\ \E c \in Client \ Writer :
       \/ ShowTextView(c)
       \/ HasRoom(Cardinality(TimersRunning) + 1) /\ UndoOrRedo(c)
  /\ UNCHANGED <<localVars, ghostVars>>

WNext ==
  \/ \E c \in Writer :
       ~ui[c].crashed /\ (WriterMainThread(c) \/ WriterFrameworkThread(c))
  \/ OthersSend

WSpec == WInit /\ [][WNext]_writeVars

\* Both threads of a device run, and a running timer fires.
WFairness ==
  \A c \in Writer :
    /\ WF_writeVars(~ui[c].crashed /\ WriterFrameworkThread(c))
    /\ WF_writeVars(~ui[c].crashed /\ RunBlock(c))
    /\ WF_writeVars(~ui[c].crashed /\ TimerExpires(c))

WFairSpec == WSpec /\ WFairness

----------------------------------------------------------------------------
(***************************************************************************)
(* Safety                                                                  *)
(***************************************************************************)

WTypeOK ==
  /\ TypeOK
  /\ \A c \in Writer :
       /\ ui[c].text \in Seq(Char)
       /\ ui[c].currentEdit \in Seq(Action)
       /\ ui[c].syncBuffer \in Seq(Action)
       /\ ui[c].crashed \/ ui[c].timer = timerValid[c]
  /\ holding \in [Writer -> BOOLEAN]
  /\ mainQueue \in [Writer -> Nat]

\* The characters that writers type, of a text and of the insertions of a sequence.
CountKey(n, ch) == IF ch \in Key THEN n + 1 ELSE n
KeysOf(text) == FoldLeft(CountKey, 0, text)

CountInsertion(n, e) == IF e.type = "INSERT" THEN n + KeysOf(e.text) ELSE n
KeysInserted(actions) == FoldLeft(CountInsertion, 0, actions)

\* Of what c has broadcast and has not rendered yet.
UnderWay(c) == SubSeq(order, Rendered(c) + 1, Len(order))
CountOwn(c, n, e) == IF e.user = c THEN CountInsertion(n, e) ELSE n
KeysUnderWay(c) == FoldLeft(LAMBDA n, e : CountOwn(c, n, e), 0, UnderWay(c))

\* Every character that a writer typed is in its document, on its way there, in
\* the edit that waits for the timer, or held back in syncBuffer: none is lost
\* and none is doubled, whether it was typed while the timer ran, while a
\* rendering was under way or between the two, and whatever the text view showed
\* (as long as nobody erases and the session goes on).
TypedIsNeverLost ==
  \A c \in Writer :
    CanBroadcast(c) /\ membership[c] = "in" /\ ~erased[c] /\ ~ui[c].crashed =>
      typed[c] = KeysOf(globalTruthText[c]) + KeysUnderWay(c)
                   + KeysInserted(ui[c].currentEdit) + KeysInserted(ui[c].syncBuffer)

\* Nothing is on its way to c or waits in its delegate.
AtRest(c) ==
  /\ rendering[c] = "idle"
  /\ mainQueue[c] = 0
  /\ delivered[c] = Len(log)
  /\ incomingActions[c] = <<>>
  /\ ui[c].currentEdit = <<>>
  /\ ui[c].syncBuffer = <<>>

\* When everything that was broadcast has been rendered and the user has nothing
\* pending, the text view shows the document: however input, renderings and the
\* blocks of the main queue were interleaved, the last block leaves nothing
\* behind that was typed into the text view and nothing that came since.
TextViewShowsDocument ==
  \A c \in Writer :
    AtRest(c) /\ membership[c] = "in" /\ SessionOpen /\ ~ui[c].crashed =>
      ui[c].text = globalTruthText[c]

\* A current edit without a timer, which nothing will send until the user types
\* again, can only be one that began with edits of syncBuffer: applyBufferedEdits
\* starts no timer, everything else does.  And no timer runs with nothing to send.
UnsentOnlyAfterBuffering ==
  \A c \in Writer :
    ~ui[c].crashed =>
      /\ ui[c].currentEdit # <<>> => ui[c].timer \/ stranded[c]
      /\ ui[c].timer => ui[c].currentEdit # <<>>

(***************************************************************************)
(* Liveness                                                                *)
(***************************************************************************)

\* The user is not locked out: isSyncing is reset in the end, although it is set
\* by every broadcast and every rendering, and reset only by the block of a
\* rendering, which is put off while the timer runs.
InputIsReleased ==
  \A c \in Writer :
    ui[c].isSyncing ~> \/ ~ui[c].isSyncing
                       \/ ui[c].crashed
                       \/ membership[c] # "in"
                       \/ ~SessionOpen

\* An event that the delegate of a writer was notified of is rendered, although
\* the notification is turned down while the user is typing: when the timer
\* fires, the broadcast comes back and renders what waits.  This takes broadcasts
\* that succeed, a user who pauses (MaxEvents bounds the flushes that restart the
\* timer) and a writer that stays in a session that is open.
WNotifiedIsRendered ==
  \A c \in Writer :
    rendering[c] = "notified" ~> \/ incomingActions[c] = <<>>
                                 \/ ui[c].crashed
                                 \/ membership[c] # "in"
                                 \/ ~SessionOpen

=============================================================================
