---------------------------- MODULE WeWriteProofs ----------------------------
(***************************************************************************)
(* The program as a whole, for any number of writers and of others, texts, *)
(* series and sessions of every length, and every interleaving of the two  *)
(* threads of a writer: nothing recorded is left without a timer, except   *)
(* behind edits of syncBuffer; when nothing is pending any more, the text  *)
(* view shows the document; every step is one of Replication; and of what  *)
(* a writer typed nothing is lost.                                         *)
(***************************************************************************)
EXTENDS WeWrite, DocumentProofs

(***************************************************************************)
(* The inductive invariant has two parts.  What is shared: the types, and  *)
(* what else the text view of a writer rests on, that the cursor of a      *)
(* writer is nowhere before the text, because what a writer broadcasts is  *)
(* neither an undo nor a redo and moves its cursor to a place in a text.   *)
(***************************************************************************)

WireAction ==
  {a \in SentAction :
     a.user \in Writer =>
       ~a.isUndo /\ ~a.isRedo /\ (IsCursor(a) => a.location \in Nat)}

\* No writer's cursor is before the text.
InText(cursors) == \A w \in Writer : cursors[w] \in Nat \cup {NoCursor}

SharedInv ==
  /\ order \in Seq(WireAction)
  /\ log \in Seq(Event)
  /\ \A n \in 1 .. Len(log) : log[n].upto <= Len(order)
  /\ membership \in [Client -> {"in", "leaving", "out"}]
  /\ delivered \in [Client -> Nat]
  /\ \A c \in Client : delivered[c] <= Len(log)
  /\ incomingActions \in [Client -> Seq(WireAction)]
  /\ rendering \in [Client -> {"idle", "notified", "rendering"}]
  /\ observing \in [Client -> BOOLEAN]
  /\ timerValid \in [Client -> BOOLEAN]
  /\ globalTruthText \in [Client -> Text]
  /\ userCursors \in [Client -> CursorMap]
  /\ \A c \in Client : InText(userCursors[c])

(***************************************************************************)
(* And what belongs to a writer: a text view; and, as long as the program  *)
(* runs, a timer that is the one that the framework's thread looks at.     *)
(***************************************************************************)

DeviceAt(u, valid, began) ==
  /\ IsTextView(u)
  /\ ~u.crashed => /\ u.sent = <<>>
                   /\ u.timer = valid
                   /\ u.currentEdit # <<>> => u.timer \/ began
                   /\ u.timer => u.currentEdit # <<>>

DeviceInv ==
  /\ DOMAIN ui = Writer
  /\ holding \in [Writer -> BOOLEAN]
  /\ mainQueue \in [Writer -> Nat]
  /\ stranded \in [Writer -> BOOLEAN]
  /\ \A c \in Writer : DeviceAt(ui[c], timerValid[c], stranded[c])

WInv == SharedInv /\ DeviceInv

----------------------------------------------------------------------------
(***************************************************************************)
(* What is shared                                                          *)
(***************************************************************************)

LEMMA WireActions ==
  ASSUME NEW c \in Client, NEW series \in Seq(Action),
         c \in Writer => series \in Seq(LocalEdit)
  PROVE  /\ OnTheWireAll(c, series) \in Seq(WireAction)
         /\ Len(OnTheWireAll(c, series)) = Len(series)
<1>1. Len(series) \in Nat /\ DOMAIN series = 1 .. Len(series)
  BY LenProperties
<1>2. ASSUME NEW i \in 1 .. Len(series)
      PROVE  OnTheWire(c, series[i]) \in WireAction
  <2>. DEFINE a == series[i]
              sent == OnTheWire(c, a)
  <2>1. a \in Action /\ (c \in Writer => a \in LocalEdit)
    BY <1>1, ElementOfSeq
  <2>2. sent \in SentAction
    BY <2>1, OnTheWireType
  <2>3. CASE IsCursor(a)
    <3>1. sent = CursorAction(a.location, c)
      BY <2>3 DEF OnTheWire
    <3>2. sent.user = c /\ sent.location = a.location /\ ~sent.isUndo /\ ~sent.isRedo
      BY <3>1 DEF CursorAction
    <3>3. c \in Writer => a.location \in Nat
      BY <2>1 DEF LocalEdit
    <3>. HIDE DEF sent, a
    <3>. QED  BY <2>2, <3>2, <3>3 DEF WireAction, sent, a
  <2>4. CASE ~IsCursor(a)
    <3>1. /\ sent.user = c /\ sent.type = a.type
          /\ sent.isUndo = a.isUndo /\ sent.isRedo = a.isRedo
      BY <2>4 DEF OnTheWire
    <3>2. ~IsCursor(sent)
      BY <2>4, <3>1 DEF IsCursor
    <3>3. c \in Writer => ~a.isUndo /\ ~a.isRedo
      BY <2>1 DEF LocalEdit
    <3>. HIDE DEF sent, a
    <3>. QED  BY <2>2, <3>1, <3>2, <3>3 DEF WireAction, sent, a
  <2>. QED  BY <2>3, <2>4
<1>3. OnTheWireAll(c, series) = [i \in 1 .. Len(series) |-> OnTheWire(c, series[i])]
  BY <1>1 DEF OnTheWireAll
<1>. QED  BY <1>1, <1>2, <1>3

\* A series is appended as an event, or lost.
LEMMA SendingKeepsShared ==
  ASSUME SharedInv, NEW c \in Client, NEW series \in Seq(Action),
         c \in Writer => series \in Seq(LocalEdit),
         SendActions(c, series),
         timerValid' \in [Client -> BOOLEAN],
         UNCHANGED <<membership, delivered, incomingActions, rendering, observing,
                     documentVars>>
  PROVE  /\ SharedInv'
         /\ Len(log) \in Nat /\ Len(log') \in Nat /\ Len(log') >= Len(log)
         /\ CanBroadcast(c) /\ ~FaultyNetwork => Len(log') = Len(log) + 1
<1>. DEFINE sent  == OnTheWireAll(c, series)
            event == [from |-> Len(order), upto |-> Len(order) + Len(series)]
<1>1. /\ order \in Seq(WireAction) /\ Len(order) \in Nat
      /\ log \in Seq(Event) /\ Len(log) \in Nat
      /\ Len(series) \in Nat
  BY LenProperties DEF SharedInv
<1>2. CASE Broadcast(c, series)
  <2>1. sent \in Seq(WireAction) /\ Len(sent) = Len(series)
    BY WireActions
  <2>2. order' = order \o sent /\ log' = Append(log, event)
    BY <1>2 DEF Broadcast
  <2>3. event \in Event /\ event.upto = Len(order) + Len(series)
    BY <1>1 DEF Event
  <2>. HIDE DEF sent, event
  <2>4. order' \in Seq(WireAction) /\ Len(order') = Len(order) + Len(series)
    <3>1. order \in Seq(WireAction) /\ sent \in Seq(WireAction)
      BY <1>1, <2>1
    <3>2. order \o sent \in Seq(WireAction) /\ Len(order \o sent) = Len(order) + Len(sent)
      BY <3>1, ConcatProperties
    <3>. QED  BY <2>1, <2>2, <3>2
  <2>5. /\ log' \in Seq(Event) /\ Len(log') = Len(log) + 1
        /\ \A n \in 1 .. Len(log) : log'[n] = log[n]
        /\ log'[Len(log) + 1] = event
    BY <1>1, <2>2, <2>3, AppendProperties
  <2>6. ASSUME NEW n \in 1 .. Len(log')
        PROVE  log'[n].upto <= Len(order')
    <3>1. CASE n = Len(log) + 1
      BY <1>1, <2>3, <2>4, <2>5, <3>1
    <3>2. CASE n \in 1 .. Len(log)
      <4>1. log[n].upto <= Len(order) /\ log[n].upto \in Nat
        <5>1. log[n] \in Event
          BY <1>1, <3>2, ElementOfSeq
        <5>. QED  BY <3>2, <5>1 DEF SharedInv, Event
      <4>2. log'[n] = log[n]
        BY <2>5, <3>2
      <4>. QED  BY <1>1, <2>4, <4>1, <4>2
    <3>. QED  BY <1>1, <2>5, <3>1, <3>2
  <2>7. \A d \in Client : delivered'[d] <= Len(log')
    <3>1. \A d \in Client : delivered[d] \in Nat /\ delivered[d] <= Len(log)
      BY DEF SharedInv
    <3>. QED  BY <1>1, <2>5, <3>1
  <2>8. SharedInv'
    BY <2>4, <2>5, <2>6, <2>7 DEF SharedInv, documentVars
  <2>. QED  BY <1>1, <2>5, <2>8
<1>3. CASE BroadcastFails(c)
  <2>1. order' = order /\ log' = log /\ (FaultyNetwork \/ ~CanBroadcast(c))
    BY <1>3 DEF BroadcastFails, serverVars
  <2>2. SharedInv'
    BY <2>1 DEF SharedInv, documentVars
  <2>. QED  BY <1>1, <2>1, <2>2
<1>. QED  BY <1>2, <1>3 DEF SendActions

LEMMA ReceivingKeepsShared ==
  ASSUME SharedInv, NEW c \in Client, ReceiveEvent(c)
  PROVE  SharedInv'
<1>. DEFINE event == NextEvent(c)
            more  == ActionsOf(event)
            queue == incomingActions[c]
<1>1. /\ order \in Seq(WireAction) /\ Len(order) \in Nat
      /\ log \in Seq(Event) /\ Len(log) \in Nat
      /\ queue \in Seq(WireAction)
      /\ delivered[c] \in Nat /\ delivered[c] < Len(log)
  BY LenProperties DEF SharedInv, ReceiveEvent
<1>2. delivered[c] + 1 \in 1 .. Len(log)
  BY <1>1
<1>3. event \in Event /\ event.upto <= Len(order)
  BY <1>1, <1>2, ElementOfSeq DEF SharedInv, NextEvent
<1>. HIDE DEF event
<1>4. more \in Seq(WireAction)
  <2>1. event.from + 1 \in Nat /\ event.from + 1 >= 1 /\ event.upto \in Nat
    BY <1>3 DEF Event
  <2>2. \A i \in event.from + 1 .. event.upto : i \in 1 .. Len(order)
    BY <1>1, <1>3, <2>1
  <2>3. \A i \in event.from + 1 .. event.upto : order[i] \in WireAction
    BY <1>1, <2>2, ElementOfSeq
  <2>4. event.from + 1 \in Int /\ event.upto \in Int
    BY <2>1
  <2>. QED  BY <2>3, <2>4, SubSeqProperties DEF ActionsOf
<1>. HIDE DEF more
<1>5. queue \o more \in Seq(WireAction)
  BY <1>1, <1>4, ConcatProperties
<1>6. incomingActions' \in [Client -> Seq(WireAction)]
  <2>1. incomingActions' = [incomingActions EXCEPT ![c] = queue \o more]
    BY DEF ReceiveEvent, Enqueue, more, event
  <2>. HIDE DEF queue
  <2>. QED  BY <1>5, <2>1 DEF SharedInv
<1>7. delivered' \in [Client -> Nat] /\ \A d \in Client : delivered'[d] <= Len(log)
  <2>1. delivered' = [delivered EXCEPT ![c] = delivered[c] + 1]
    BY DEF ReceiveEvent
  <2>2. delivered \in [Client -> Nat] /\ \A d \in Client : delivered[d] <= Len(log)
    BY DEF SharedInv
  <2>3. \A d \in Client : delivered'[d] = IF d = c THEN delivered[c] + 1 ELSE delivered[d]
    BY <2>1, <2>2
  <2>. QED  BY <1>1, <1>2, <2>1, <2>2, <2>3
<1>8. rendering' \in [Client -> {"idle", "notified", "rendering"}]
  BY DEF ReceiveEvent, SharedInv
<1>9. UNCHANGED <<order, log, membership, observing, timerValid, globalTruthText,
                  userCursors>>
  BY DEF ReceiveEvent, serverVars, documentVars
<1>. QED  BY <1>6, <1>7, <1>8, <1>9 DEF SharedInv

\* Rendering moves no writer's cursor before the text: a removal is within it, and
\* what a writer types is placed at its own cursor.
LEMMA RenderingKeepsInText ==
  ASSUME NEW d \in Document, InText(d.cursors), NEW a \in WireAction
  PROVE  InText(Render(d, a).cursors)
<1>. SUFFICES ASSUME NEW w \in Writer
              PROVE  Render(d, a).cursors[w] \in Nat \cup {NoCursor}
  BY DEF InText
<1>1. /\ d.cursors \in CursorMap /\ d.cursors[w] \in Nat \cup {NoCursor} /\ w \in Client
      /\ a \in SentAction /\ a.user \in Client
  BY WriterAssumption DEF Document, WireAction, SentAction, InText
<1>2. IsCursor(a) /\ a.user = w => a.location \in Nat
  BY DEF WireAction
<1>3. ASSUME ~IsCursor(a), Outcome(d, a) = "accept", a.user = w
      PROVE  LeftIndex(Placed(d.cursors, a)) >= 0
  <2>. DEFINE p == Placed(d.cursors, a)
  <2>1. /\ p \in SentAction /\ p.type = a.type
        /\ p.location \in Int /\ p.length \in Int /\ p.type \in {"INSERT", "REMOVE"}
    BY <1>1, <1>3, PlacedType DEF SentAction, Action, EditType, IsCursor
  <2>2. CASE p.type = "REMOVE"
    BY <1>3, <2>1, <2>2 DEF Outcome, VerifyEdit, InRange
  <2>3. CASE p.type = "INSERT"
    <3>1. ~(a.isUndo \/ a.isRedo)
      BY <1>3 DEF WireAction
    <3>2. p.length = 0 /\ p.location = IF d.cursors[w] = NoCursor THEN 0 ELSE d.cursors[w]
      BY <1>1, <1>3, <2>1, <2>3, <3>1 DEF Placed, SentAction, Action
    <3>. HIDE DEF p
    <3>3. p.location \in Nat
      BY <1>1, <3>2, NoCursorAssumption
    <3>. QED  BY <3>2, <3>3 DEF LeftIndex, p
  <2>. QED  BY <2>1, <2>2, <2>3
<1>. QED  BY <1>1, <1>2, <1>3, RenderingKeepsCursor

LEMMA RenderingKeepsShared ==
  ASSUME SharedInv, NEW c \in Client, RenderNext(c)
  PROVE  SharedInv'
<1>. DEFINE queue  == incomingActions[c]
            action == Head(queue)
            after  == Render(Doc(c), action)
<1>1. /\ queue \in Seq(WireAction) /\ queue # <<>>
      /\ Doc(c) \in Document /\ InText(Doc(c).cursors)
  BY DEF SharedInv, RenderNext, Doc, Document
<1>2. action \in WireAction /\ Tail(queue) \in Seq(WireAction)
  BY <1>1, HeadTailProperties
<1>3. action \in SentAction
  BY <1>2 DEF WireAction
<1>. HIDE DEF action
<1>4. after \in Document /\ InText(after.cursors)
  BY <1>1, <1>2, <1>3, RenderType, RenderingKeepsInText
<1>5. after.text \in Text /\ after.cursors \in CursorMap
  BY <1>4 DEF Document
<1>6. /\ incomingActions' = [incomingActions EXCEPT ![c] = Tail(queue)]
      /\ globalTruthText' = [globalTruthText EXCEPT ![c] = after.text]
      /\ userCursors' = [userCursors EXCEPT ![c] = after.cursors]
  BY DEF RenderNext, action
<1>. HIDE DEF after, queue
<1>7. incomingActions' \in [Client -> Seq(WireAction)]
  BY <1>2, <1>6 DEF SharedInv
<1>8. /\ globalTruthText' \in [Client -> Text]
      /\ userCursors' \in [Client -> CursorMap]
      /\ \A d \in Client : InText(userCursors'[d])
  BY <1>4, <1>5, <1>6 DEF SharedInv
<1>9. /\ rendering' \in [Client -> {"idle", "notified", "rendering"}]
      /\ membership' \in [Client -> {"in", "leaving", "out"}]
  BY DEF RenderNext, SharedInv
<1>10. UNCHANGED <<order, log, delivered, observing, timerValid>>
  BY DEF RenderNext, serverVars
<1>. QED  BY <1>7, <1>8, <1>9, <1>10 DEF SharedInv

\* When the stacks raise, an action is taken and no document changes.
LEMMA StacksRaisingKeepsShared ==
  ASSUME SharedInv, NEW c \in Client, StacksRaise(c)
  PROVE  SharedInv'
<1>1. incomingActions[c] \in Seq(WireAction) /\ incomingActions[c] # <<>>
  BY DEF SharedInv, StacksRaise
<1>2. Tail(incomingActions[c]) \in Seq(WireAction)
  BY <1>1, HeadTailProperties
<1>3. incomingActions' \in [Client -> Seq(WireAction)]
  BY <1>2 DEF SharedInv, StacksRaise
<1>4. /\ rendering' \in [Client -> {"idle", "notified", "rendering"}]
      /\ membership' \in [Client -> {"in", "leaving", "out"}]
  BY DEF StacksRaise, SharedInv
<1>5. UNCHANGED <<order, log, delivered, observing, timerValid, globalTruthText, userCursors>>
  BY DEF StacksRaise, serverVars, documentVars
<1>. QED  BY <1>3, <1>4, <1>5 DEF SharedInv

\* The steps that change only what a client is doing.
LEMMA QuietStepKeepsShared ==
  ASSUME SharedInv, NEW c \in Client,
         \/ ShowTextView(c) \/ Edit(c) \/ Exit(c)
         \/ DeferRender(c) \/ BeginRender(c) \/ FinishRender(c) \/ LeaveCompletes(c)
  PROVE  SharedInv'
<1>1. UNCHANGED <<order, log, delivered, incomingActions, globalTruthText, userCursors>>
  BY DEF ShowTextView, Edit, Exit, DeferRender, BeginRender, FinishRender, LeaveCompletes,
         serverVars, documentVars
<1>2. /\ membership' \in [Client -> {"in", "leaving", "out"}]
      /\ rendering' \in [Client -> {"idle", "notified", "rendering"}]
      /\ observing' \in [Client -> BOOLEAN]
      /\ timerValid' \in [Client -> BOOLEAN]
  BY DEF ShowTextView, Edit, Exit, DeferRender, BeginRender, FinishRender, LeaveCompletes,
         SharedInv
<1>. QED  BY <1>1, <1>2 DEF SharedInv

----------------------------------------------------------------------------
(***************************************************************************)
(* The device of a writer                                                  *)
(***************************************************************************)

\* A step of c leaves the devices of the others alone.
LEMMA DeviceStep ==
  ASSUME DeviceInv, NEW c \in Writer, NEW u,
         ui' = [ui EXCEPT ![c] = u],
         DeviceAt(u, timerValid'[c], stranded'[c]),
         \A d \in Writer \ {c} :
           timerValid'[d] = timerValid[d] /\ stranded'[d] = stranded[d],
         holding' \in [Writer -> BOOLEAN],
         mainQueue' \in [Writer -> Nat],
         stranded' \in [Writer -> BOOLEAN]
  PROVE  DeviceInv'
<1>1. /\ DOMAIN ui' = Writer /\ ui'[c] = u
      /\ \A d \in Writer \ {c} : ui'[d] = ui[d]
  BY DEF DeviceInv
<1>2. ASSUME NEW d \in Writer
      PROVE  DeviceAt(ui'[d], timerValid'[d], stranded'[d])
  <2>1. CASE d = c
    BY <1>1, <2>1
  <2>2. CASE d # c
    <3>1. DeviceAt(ui[d], timerValid[d], stranded[d])
      BY DEF DeviceInv
    <3>2. /\ ui'[d] = ui[d] /\ timerValid'[d] = timerValid[d]
          /\ stranded'[d] = stranded[d]
      BY <1>1, <2>2
    <3>. QED  BY <3>1, <3>2
  <2>. QED  BY <2>1, <2>2
<1>. QED  BY <1>1, <1>2 DEF DeviceInv

\* A step that touches neither a delegate nor a timer leaves all devices alone.
LEMMA DevicesUntouched ==
  ASSUME DeviceInv, UNCHANGED <<localVars, ghostVars>>,
         \A c \in Writer : timerValid'[c] = timerValid[c]
  PROVE  DeviceInv'
<1>1. UNCHANGED <<ui, holding, mainQueue, stranded>>
  BY DEF localVars, ghostVars
<1>2. ASSUME NEW c \in Writer
      PROVE  DeviceAt(ui'[c], timerValid'[c], stranded'[c])
  <2>1. DeviceAt(ui[c], timerValid[c], stranded[c])
    BY DEF DeviceInv
  <2>. QED  BY <1>1, <2>1
<1>. QED  BY <1>1, <1>2 DEF DeviceInv

\* An input that does not crash has recorded something and runs the timer, or has
\* recorded and sent nothing.
Inputs(v) ==
  {TypeText(v, text) : text \in Text} \cup {Backspace(v)}
    \cup {Select(v, location, 0) : location \in 0 .. Len(v.text)}

Recorded(v, u) ==
  /\ IsTextView(u)
  /\ IsSent(u.sent)
  /\ u.crashed \/ RecordsInto(u) \/ (RecordsNothing(v, u) /\ u.sent = <<>>)

LEMMA InputRecords ==
  ASSUME NEW v, IsTextView(v), v.sent = <<>>, ~v.crashed, NEW u \in Inputs(v)
  PROVE  Recorded(v, u)
<1>1. CASE u \in {TypeText(v, text) : text \in Text} \cup {Backspace(v)}
  <2>1. /\ IsTextView(u) /\ Alike(v, u)
        /\ RecordsNothing(v, u) \/ RecordsInto(u)
    BY <1>1, PressingRecords
  <2>2. u.sent = <<>>
    BY <2>1 DEF Alike
  <2>. QED  BY <2>1, <2>2 DEF Recorded, IsSent
<1>2. ASSUME NEW location \in 0 .. Len(v.text), u = Select(v, location, 0)
      PROVE  Recorded(v, u)
  <2>1. Len(v.text) \in Nat
    BY LenProperties DEF IsTextView, Text
  <2>2. location \in Nat /\ InRange(v.text, location, 0)
    BY <2>1 DEF InRange
  <2>3. /\ IsTextView(u) /\ IsSent(u.sent)
        /\ u.crashed \/ (RecordsNothing(v, u) /\ Alike(v, u)) \/ RecordsInto(u)
    BY <1>2, <2>2, SelectingRecords
  <2>4. Alike(v, u) => u.sent = <<>>
    BY DEF Alike
  <2>. QED  BY <2>3, <2>4 DEF Recorded
<1>. QED  BY <1>1, <1>2 DEF Inputs

LEMMA WriterInputs ==
  ASSUME DeviceInv, NEW c \in Writer, ~ui[c].crashed,
         TypeKey(c) \/ PressBackspace(c) \/ Tap(c)
  PROVE  \E u : Recorded(ui[c], u) /\ Input(c, u)
<1>1. IsTextView(ui[c]) /\ ui[c].sent = <<>>
  BY DEF DeviceInv, DeviceAt
<1>2. \E u \in Inputs(ui[c]) : Input(c, u)
  <2>1. CASE TypeKey(c)
    <3>1. PICK key \in Key : Input(c, TypeText(ui[c], <<key>>))
      BY <2>1 DEF TypeKey
    <3>2. <<key>> \in Text
      BY KeyAssumption DEF Text
    <3>. QED  BY <3>1, <3>2 DEF Inputs
  <2>2. CASE PressBackspace(c)
    BY <2>2 DEF PressBackspace, Inputs
  <2>3. CASE Tap(c)
    BY <2>3 DEF Tap, Inputs
  <2>. QED  BY <2>1, <2>2, <2>3
<1>. QED  BY <1>1, <1>2, InputRecords

\* What is left of a text view when its series is handed over.
LEMMA HandingOver ==
  ASSUME NEW u, IsTextView(u)
  PROVE  LET v == [u EXCEPT !.sent = <<>>]
         IN /\ IsTextView(v) /\ v.sent = <<>>
            /\ v.text = u.text /\ v.currentEdit = u.currentEdit
            /\ v.timer = u.timer /\ v.crashed = u.crashed
BY DEF IsTextView, Fields

LEMMA SentSeries ==
  ASSUME NEW sent, IsSent(sent), sent # <<>>
  PROVE  sent[1] \in Seq(LocalEdit) /\ sent[1] \in Seq(Action)
<1>1. PICK series \in Seq(LocalEdit) : sent = <<series>>
  BY DEF IsSent
<1>2. sent[1] = series
  BY <1>1
<1>3. LocalEdit \subseteq Action
  BY DEF LocalEdit
<1>4. series \in Seq(Action)
  BY <1>3
<1>. QED  BY <1>1, <1>2, <1>4

LEMMA InputKeepsInv ==
  ASSUME WInv, NEW c \in Writer, ~ui[c].crashed, NEW u, Recorded(ui[c], u),
         Input(c, u)
  PROVE  WInv'
<1>. DEFINE v == [u EXCEPT !.sent = <<>>]
<1>1. /\ IsTextView(v) /\ v.sent = <<>>
      /\ v.currentEdit = u.currentEdit /\ v.timer = u.timer /\ v.crashed = u.crashed
  BY HandingOver DEF Recorded
<1>2. /\ ui' = [ui EXCEPT ![c] = v]
      /\ stranded' = [stranded EXCEPT
                        ![c] = stranded[c] /\ u.currentEdit # <<>> /\ u.sent = <<>>]
      /\ holding' = holding /\ mainQueue' = mainQueue
  BY DEF Input, Turn, DeviceInv, WInv
<1>3. /\ stranded' \in [Writer -> BOOLEAN]
      /\ stranded'[c] = (stranded[c] /\ u.currentEdit # <<>> /\ u.sent = <<>>)
      /\ \A d \in Writer \ {c} : stranded'[d] = stranded[d]
  BY <1>2 DEF DeviceInv, WInv
<1>4. /\ holding' \in [Writer -> BOOLEAN] /\ mainQueue' \in [Writer -> Nat]
      /\ c \in Client /\ timerValid \in [Client -> BOOLEAN] /\ Writer \subseteq Client
  BY <1>2, WriterAssumption DEF DeviceInv, WInv, SharedInv
<1>5. /\ ui[c].timer = timerValid[c]
      /\ ui[c].currentEdit # <<>> => ui[c].timer \/ stranded[c]
      /\ ui[c].timer => ui[c].currentEdit # <<>>
  BY DEF WInv, DeviceInv, DeviceAt
<1>. HIDE DEF v
<1>6. ASSUME timerValid' = [timerValid EXCEPT ![c] = TRUE],
             u.crashed \/ RecordsInto(u)
      PROVE  /\ timerValid' \in [Client -> BOOLEAN]
             /\ DeviceInv'
  <2>1. /\ timerValid' \in [Client -> BOOLEAN] /\ timerValid'[c] = TRUE
        /\ \A d \in Writer \ {c} : timerValid'[d] = timerValid[d]
    BY <1>4, <1>6
  <2>2. DeviceAt(v, timerValid'[c], stranded'[c])
    BY <1>1, <1>6, <2>1 DEF DeviceAt, RecordsInto
  <2>. QED  BY <1>2, <1>3, <1>4, <2>1, <2>2, DeviceStep DEF WInv
<1>7. CASE Quiet(c, u)
  <2>1. UNCHANGED vars /\ u.sent = <<>> /\ u.timer = ui[c].timer
    BY <1>7 DEF Quiet
  <2>2. SharedInv' /\ timerValid' = timerValid
    BY <2>1 DEF WInv, SharedInv, vars
  <2>3. \/ u.crashed
        \/ u.timer = TRUE /\ u.currentEdit # <<>>
        \/ u.currentEdit = ui[c].currentEdit
    BY DEF Recorded, RecordsInto, RecordsNothing
  <2>4. DeviceAt(v, timerValid'[c], stranded'[c])
    BY <1>1, <1>3, <1>5, <2>1, <2>2, <2>3 DEF DeviceAt
  <2>. QED  BY <1>2, <1>3, <1>4, <2>2, <2>4, DeviceStep DEF WInv
<1>8. CASE StartsTimer(c, u)
  <2>1. Edit(c) /\ u.timer /\ ~ui[c].timer
    BY <1>8 DEF StartsTimer
  <2>2. timerValid' = [timerValid EXCEPT ![c] = TRUE]
    BY <2>1 DEF Edit
  <2>3. u.crashed \/ RecordsInto(u)
    BY <2>1 DEF Recorded, RecordsNothing
  <2>4. SharedInv'
    BY <1>4, <2>1, QuietStepKeepsShared DEF WInv
  <2>. QED  BY <1>6, <2>2, <2>3, <2>4 DEF WInv
<1>9. CASE Flushes(c, u)
  <2>. DEFINE series == u.sent[1]
  <2>1. u.sent # <<>> /\ FlushSends(c, series)
    BY <1>9 DEF Flushes
  <2>2. series \in Seq(LocalEdit) /\ series \in Seq(Action)
    BY <2>1, SentSeries DEF Recorded
  <2>. HIDE DEF series
  <2>3. /\ timerValid' = [timerValid EXCEPT ![c] = TRUE]
        /\ SendActions(c, series)
        /\ UNCHANGED <<membership, delivered, incomingActions, rendering, observing,
                       documentVars>>
    BY <2>1 DEF FlushSends
  <2>4. u.crashed \/ RecordsInto(u)
    BY <2>1 DEF Recorded
  <2>5. timerValid' \in [Client -> BOOLEAN] /\ DeviceInv'
    BY <1>6, <2>3, <2>4
  <2>6. SharedInv'
    BY <1>4, <2>2, <2>3, <2>5, SendingKeepsShared DEF WInv
  <2>. QED  BY <2>5, <2>6 DEF WInv
<1>. QED  BY <1>7, <1>8, <1>9 DEF Input

LEMMA TimerKeepsInv ==
  ASSUME WInv, NEW c \in Writer, ~ui[c].crashed, TimerExpires(c)
  PROVE  WInv'
<1>. DEFINE u == TimerFired(ui[c])
            v == [u EXCEPT !.sent = <<>>]
<1>1. /\ IsTextView(ui[c]) /\ ui[c].sent = <<>> /\ ui[c].timer
      /\ ui[c].currentEdit # <<>>
  BY DEF WInv, DeviceInv, DeviceAt, TimerExpires
<1>2. /\ IsTextView(u) /\ u.timer = FALSE /\ u.currentEdit = <<>> /\ IsSent(u.sent)
      /\ u.crashed \/ u.sent # <<>>
  BY <1>1, TimerSendsAll
<1>3. /\ Turn(c, u)
      /\ IF u.crashed THEN UNCHANGED vars ELSE TimerSends(c, u.sent[1])
  BY DEF TimerExpires
<1>. HIDE DEF u
<1>4. /\ IsTextView(v) /\ v.sent = <<>>
      /\ v.currentEdit = <<>> /\ v.timer = FALSE /\ v.crashed = u.crashed
  BY <1>2, HandingOver
<1>5. /\ ui' = [ui EXCEPT ![c] = v]
      /\ stranded' = [stranded EXCEPT
                        ![c] = stranded[c] /\ u.currentEdit # <<>> /\ u.sent = <<>>]
      /\ holding' = holding /\ mainQueue' = mainQueue
  BY <1>3 DEF Turn, DeviceInv, WInv
<1>6. /\ stranded' \in [Writer -> BOOLEAN]
      /\ \A d \in Writer \ {c} : stranded'[d] = stranded[d]
  BY <1>5 DEF DeviceInv, WInv
<1>7. /\ holding' \in [Writer -> BOOLEAN] /\ mainQueue' \in [Writer -> Nat]
      /\ c \in Client /\ timerValid \in [Client -> BOOLEAN] /\ Writer \subseteq Client
  BY <1>5, WriterAssumption DEF DeviceInv, WInv, SharedInv
<1>. HIDE DEF v
<1>8. CASE u.crashed
  <2>1. SharedInv' /\ timerValid' = timerValid
    BY <1>3, <1>8 DEF WInv, SharedInv, vars
  <2>2. DeviceAt(v, timerValid'[c], stranded'[c])
    BY <1>4, <1>8 DEF DeviceAt
  <2>. QED  BY <1>5, <1>6, <1>7, <2>1, <2>2, DeviceStep DEF WInv
<1>9. CASE ~u.crashed
  <2>. DEFINE series == u.sent[1]
  <2>1. series \in Seq(LocalEdit) /\ series \in Seq(Action)
    BY <1>2, <1>9, SentSeries
  <2>2. TimerSends(c, series)
    BY <1>3, <1>9
  <2>. HIDE DEF series
  <2>3. /\ timerValid' = [timerValid EXCEPT ![c] = FALSE]
        /\ SendActions(c, series)
        /\ UNCHANGED <<membership, delivered, incomingActions, rendering, observing,
                       documentVars>>
    BY <2>2 DEF TimerSends
  <2>4. /\ timerValid' \in [Client -> BOOLEAN] /\ timerValid'[c] = FALSE
        /\ \A d \in Writer \ {c} : timerValid'[d] = timerValid[d]
    BY <1>7, <2>3
  <2>5. SharedInv'
    BY <1>7, <2>1, <2>3, <2>4, SendingKeepsShared DEF WInv
  <2>6. DeviceAt(v, timerValid'[c], stranded'[c])
    BY <1>4, <2>4 DEF DeviceAt
  <2>. QED  BY <1>5, <1>6, <1>7, <2>4, <2>5, <2>6, DeviceStep DEF WInv
<1>. QED  BY <1>8, <1>9

\* The document of a writer can be shown to it.
LEMMA BlockShows ==
  ASSUME WInv, NEW c \in Writer, ~ui[c].crashed
  PROVE  LET u == ShowDocument(ui[c], Doc(c), c)
         IN /\ IsTextView(u) /\ u.timer = ui[c].timer /\ u.sent = <<>>
            /\ \/ u.crashed
               \/ /\ ui[c].currentEdit # <<>> => u.currentEdit # <<>>
                  /\ u.text = globalTruthText[c] \/ u.currentEdit # <<>>
<1>1. IsTextView(ui[c]) /\ ui[c].sent = <<>> /\ c \in Client
  BY WriterAssumption DEF WInv, DeviceInv, DeviceAt
<1>. DEFINE d == Doc(c)
<1>2. d \in Document /\ d.text = globalTruthText[c] /\ d.cursors = userCursors[c]
  BY <1>1 DEF Doc, Document, WInv, SharedInv
<1>3. d.cursors[c] = NoCursor \/ d.cursors[c] >= 0
  BY <1>1, <1>2 DEF WInv, SharedInv, InText
<1>. HIDE DEF d
<1>4. QED  BY <1>1, <1>2, <1>3, ShowingDocument DEF d

LEMMA BlockKeepsInv ==
  ASSUME WInv, NEW c \in Writer, ~ui[c].crashed, RunBlock(c)
  PROVE  WInv'
<1>. DEFINE u == ShowDocument(ui[c], Doc(c), c)
            began == stranded[c] \/ (ui[c].currentEdit = <<>> /\ u.currentEdit # <<>>)
<1>1. /\ IsTextView(u) /\ u.timer = ui[c].timer /\ u.sent = <<>>
      /\ u.crashed \/ (ui[c].currentEdit # <<>> => u.currentEdit # <<>>)
  BY BlockShows
<1>2. /\ ui' = [ui EXCEPT ![c] = u]
      /\ stranded' = [stranded EXCEPT ![c] = began]
      /\ holding' = holding
      /\ mainQueue[c] > 0 /\ mainQueue' = [mainQueue EXCEPT ![c] = mainQueue[c] - 1]
      /\ UNCHANGED vars
  BY DEF RunBlock, WInv, DeviceInv
<1>. HIDE DEF u
<1>3. /\ stranded' \in [Writer -> BOOLEAN] /\ stranded'[c] = began
      /\ \A d \in Writer \ {c} : stranded'[d] = stranded[d]
  BY <1>2 DEF DeviceInv, WInv
<1>4. holding' \in [Writer -> BOOLEAN] /\ mainQueue' \in [Writer -> Nat]
  BY <1>2 DEF DeviceInv, WInv
<1>5. SharedInv' /\ timerValid' = timerValid
  BY <1>2 DEF WInv, SharedInv, vars
<1>6. /\ ui[c].timer = timerValid[c]
      /\ ui[c].currentEdit # <<>> => ui[c].timer \/ stranded[c]
      /\ ui[c].timer => ui[c].currentEdit # <<>>
  BY DEF WInv, DeviceInv, DeviceAt
<1>7. DeviceAt(u, timerValid'[c], stranded'[c])
  BY <1>1, <1>3, <1>5, <1>6 DEF DeviceAt
<1>. HIDE DEF began
<1>. QED  BY <1>2, <1>3, <1>4, <1>5, <1>7, DeviceStep DEF WInv

\* Only isSyncing changes.
LEMMA HoldingKeepsDevices ==
  ASSUME DeviceInv, NEW c \in Writer, NEW syncing,
         ui' = [ui EXCEPT ![c].isSyncing = syncing],
         UNCHANGED <<timerValid, ghostVars>>,
         holding' \in [Writer -> BOOLEAN],
         mainQueue' \in [Writer -> Nat]
  PROVE  DeviceInv'
<1>. DEFINE u == [ui[c] EXCEPT !.isSyncing = syncing]
<1>1. ui' = [ui EXCEPT ![c] = u]
  BY DEF DeviceInv
<1>2. DeviceAt(ui[c], timerValid[c], stranded[c])
  BY DEF DeviceInv
<1>3. DeviceAt(u, timerValid[c], stranded[c])
  BY <1>2 DEF DeviceAt, IsTextView, Fields
<1>4. /\ stranded' = stranded /\ timerValid' = timerValid
      /\ stranded' \in [Writer -> BOOLEAN]
  BY DEF ghostVars, DeviceInv
<1>. HIDE DEF u
<1>. QED  BY <1>1, <1>3, <1>4, DeviceStep

LEMMA FrameworkKeepsInv ==
  ASSUME WInv, NEW c \in Writer, ~ui[c].crashed, WriterFrameworkThread(c)
  PROVE  WInv'
<1>1. c \in Client
  BY WriterAssumption
<1>2. CASE EventStep(c)
  <2>1. SharedInv'
    BY <1>1, <1>2, ReceivingKeepsShared, QuietStepKeepsShared DEF EventStep, WInv
  <2>2. timerValid' = timerValid /\ UNCHANGED <<localVars, ghostVars>>
    BY <1>2 DEF EventStep, ReceiveEvent, DeferRender, BeginRender, LeaveCompletes
  <2>. QED  BY <2>1, <2>2, DevicesUntouched DEF WInv
<1>3. CASE HoldInput(c)
  <2>1. SharedInv'
    BY <1>3 DEF HoldInput, WInv, SharedInv, vars
  <2>2. /\ holding' \in [Writer -> BOOLEAN] /\ mainQueue' \in [Writer -> Nat]
        /\ ui' = [ui EXCEPT ![c].isSyncing = TRUE] /\ UNCHANGED <<timerValid, ghostVars>>
    BY <1>3 DEF HoldInput, WInv, DeviceInv, vars
  <2>. QED  BY <2>1, <2>2, HoldingKeepsDevices DEF WInv
<1>4. CASE RenderOne(c)
  <2>. DEFINE raised == rendering'[c] = "idle"
              syncing == ~raised /\ ui[c].isSyncing
  <2>1. SharedInv'
    BY <1>1, <1>4, RenderingKeepsShared, StacksRaisingKeepsShared DEF RenderOne, WInv
  <2>2. timerValid' = timerValid
    BY <1>4 DEF RenderOne, RenderNext, StacksRaise
  <2>3. /\ holding' = [holding EXCEPT ![c] = ~raised]
        /\ ui' = [ui EXCEPT ![c].isSyncing = syncing]
        /\ UNCHANGED <<mainQueue, ghostVars>>
    BY <1>4 DEF RenderOne, WInv, DeviceInv
  <2>4. holding' \in [Writer -> BOOLEAN] /\ mainQueue' \in [Writer -> Nat]
    BY <2>3 DEF WInv, DeviceInv
  <2>. HIDE DEF syncing
  <2>. QED  BY <2>1, <2>2, <2>3, <2>4, HoldingKeepsDevices DEF WInv
<1>5. CASE DispatchBlock(c)
  <2>1. SharedInv'
    BY <1>1, <1>5, QuietStepKeepsShared DEF DispatchBlock, WInv
  <2>2. timerValid' = timerValid
    BY <1>5 DEF DispatchBlock, FinishRender
  <2>3. /\ holding' \in [Writer -> BOOLEAN] /\ mainQueue' \in [Writer -> Nat]
        /\ ui' = ui /\ stranded' = stranded
    BY <1>5 DEF DispatchBlock, ghostVars, WInv, DeviceInv
  <2>4. DeviceInv'
    <3>1. \A d \in Writer : DeviceAt(ui[d], timerValid[d], stranded[d])
      BY DEF WInv, DeviceInv
    <3>. QED  BY <2>2, <2>3, <3>1 DEF WInv, DeviceInv
  <2>. QED  BY <2>1, <2>4 DEF WInv
<1>. QED  BY <1>2, <1>3, <1>4, <1>5 DEF WriterFrameworkThread

LEMMA OthersKeepInv ==
  ASSUME WInv, OthersSend
  PROVE  WInv'
<1>1. PICK c \in Client \ Writer :
        \/ ShowTextView(c)
        \/ HasRoom(Cardinality(TimersRunning) + 1) /\ UndoOrRedo(c)
  BY DEF OthersSend
<1>2. UNCHANGED <<localVars, ghostVars>>
  BY DEF OthersSend
<1>3. CASE ShowTextView(c)
  <2>1. timerValid' = timerValid
    BY <1>3 DEF ShowTextView
  <2>2. SharedInv'
    BY <1>3, QuietStepKeepsShared DEF WInv
  <2>. QED  BY <1>2, <2>1, <2>2, DevicesUntouched DEF WInv
<1>4. CASE UndoOrRedo(c)
  <2>1. PICK series \in Series : ButtonSends(c, series)
    BY <1>4 DEF UndoOrRedo
  <2>2. series \in Seq(Action)
    BY SeriesAssumption
  <2>3. /\ SendActions(c, series) /\ timerValid' = timerValid
        /\ UNCHANGED <<membership, delivered, incomingActions, rendering, observing,
                       documentVars>>
    BY <2>1 DEF ButtonSends
  <2>4. timerValid' \in [Client -> BOOLEAN]
    BY <2>3 DEF WInv, SharedInv
  <2>5. SharedInv'
    BY <2>2, <2>3, <2>4, SendingKeepsShared DEF WInv
  <2>. QED  BY <1>2, <2>3, <2>5, DevicesUntouched DEF WInv
<1>. QED  BY <1>1, <1>3, <1>4

LEMMA InitInv ==
  ASSUME WInit
  PROVE  WInv
<1>1. <<>> \in Seq(WireAction) /\ <<>> \in Seq(Event) /\ Len(<<>>) = 0
  BY EmptySeq
<1>2. EmptyDocument.text \in Text /\ EmptyDocument.cursors \in CursorMap
  BY EmptySeq DEF EmptyDocument, Text, CursorMap
<1>3. InText(EmptyDocument.cursors)
  BY WriterAssumption DEF InText, EmptyDocument
<1>4. SharedInv
  <2>1. order = <<>> /\ log = <<>>
    BY DEF WInit, Init
  <2>2. \A n \in 1 .. Len(log) : log[n].upto <= Len(order)
    BY <1>1, <2>1
  <2>3. \A c \in Client : delivered[c] <= Len(log)
    <3>. SUFFICES ASSUME NEW c \in Client PROVE delivered[c] <= Len(log)
      OBVIOUS
    <3>1. Len(log) = 0 /\ Len(log) \in Nat
      BY <1>1, <2>1
    <3>2. delivered[c] = 0 /\ delivered[c] \in Nat
      BY DEF WInit, Init
    <3>. QED  BY <3>1, <3>2
  <2>4. /\ globalTruthText \in [Client -> Text] /\ userCursors \in [Client -> CursorMap]
        /\ \A c \in Client : InText(userCursors[c])
    BY <1>2, <1>3 DEF WInit, Init
  <2>. QED  BY <1>1, <2>1, <2>2, <2>3, <2>4 DEF WInit, Init, SharedInv
<1>5. DeviceInv
  <2>1. \A c \in Writer : ui[c] = FreshTextView /\ timerValid[c] = FALSE
    BY WriterAssumption DEF WInit, Init
  <2>2. DeviceAt(FreshTextView, FALSE, FALSE)
    BY FreshIsTextView DEF DeviceAt
  <2>3. \A c \in Writer : DeviceAt(ui[c], timerValid[c], stranded[c])
    BY <2>1, <2>2 DEF WInit
  <2>. QED  BY <2>3 DEF WInit, DeviceInv
<1>. QED  BY <1>4, <1>5 DEF WInv

LEMMA StepKeepsInv ==
  ASSUME WInv, [WNext]_writeVars
  PROVE  WInv'
<1>1. ASSUME NEW c \in Writer, ~ui[c].crashed, WriterMainThread(c)
      PROVE  WInv'
  <2>1. CASE TypeKey(c) \/ PressBackspace(c) \/ Tap(c)
    <3>1. PICK u : Recorded(ui[c], u) /\ Input(c, u)
      BY <1>1, <2>1, WriterInputs DEF WInv
    <3>. QED  BY <1>1, <3>1, InputKeepsInv
  <2>2. CASE TimerExpires(c)
    BY <1>1, <2>2, TimerKeepsInv
  <2>3. CASE RunBlock(c)
    BY <1>1, <2>3, BlockKeepsInv
  <2>4. CASE ExitButton(c) \/ OpensTextView(c)
    <3>1. SharedInv'
      BY <2>4, WriterAssumption, QuietStepKeepsShared DEF ExitButton, OpensTextView, WInv
    <3>2. timerValid' = timerValid /\ UNCHANGED <<localVars, ghostVars>>
      BY <2>4 DEF ExitButton, OpensTextView, Exit, ShowTextView
    <3>. QED  BY <3>1, <3>2, DevicesUntouched DEF WInv
  <2>. QED  BY <1>1, <2>1, <2>2, <2>3, <2>4 DEF WriterMainThread
<1>2. CASE UNCHANGED writeVars
  <2>1. UNCHANGED vars /\ UNCHANGED <<localVars, ghostVars>>
    BY <1>2 DEF writeVars
  <2>2. SharedInv' /\ timerValid' = timerValid
    BY <2>1 DEF WInv, SharedInv, vars
  <2>. QED  BY <2>1, <2>2, DevicesUntouched DEF WInv
<1>3. CASE WNext
  BY <1>1, <1>3, FrameworkKeepsInv, OthersKeepInv DEF WNext
<1>. QED  BY <1>2, <1>3

LEMMA InvAlways == WSpec => []WInv
<1>1. WInit => WInv
  BY InitInv
<1>2. WInv /\ [WNext]_writeVars => WInv'
  BY StepKeepsInv
<1>. QED  BY <1>1, <1>2, PTL DEF WSpec

----------------------------------------------------------------------------
(***************************************************************************)
(* The types, and the edits that wait                                      *)
(***************************************************************************)

\* Every field of the program keeps its type: texts and waiting edits of every
\* length, and the timer of a delegate is the one that the framework's thread asks
\* for (TextViewDelegate.m, TextCollabrifyClient.mm).
THEOREM WTypesAreKept == WSpec => []WTypeOK
<1>1. WInv => WTypeOK
  <2>. SUFFICES ASSUME WInv PROVE WTypeOK
    OBVIOUS
  <2>1. WireAction \subseteq SentAction /\ LocalEdit \subseteq Action
    BY DEF WireAction, LocalEdit
  <2>2. Seq(WireAction) \subseteq Seq(SentAction) /\ Seq(LocalEdit) \subseteq Seq(Action)
    BY <2>1
  <2>3. order \in Seq(SentAction) /\ incomingActions \in [Client -> Seq(SentAction)]
    BY <2>2 DEF WInv, SharedInv
  <2>4. TypeOK
    BY <2>3 DEF WInv, SharedInv, TypeOK
  <2>5. ASSUME NEW c \in Writer
        PROVE  /\ ui[c].text \in Seq(Char)
               /\ ui[c].currentEdit \in Seq(Action)
               /\ ui[c].syncBuffer \in Seq(Action)
               /\ ui[c].crashed \/ ui[c].timer = timerValid[c]
    <3>1. DeviceAt(ui[c], timerValid[c], stranded[c])
      BY DEF WInv, DeviceInv
    <3>. QED  BY <2>2, <3>1 DEF DeviceAt, IsTextView, Text
  <2>. QED  BY <2>4, <2>5 DEF WInv, DeviceInv, WTypeOK
<1>. QED  BY <1>1, InvAlways, PTL

\* An edit is left without a timer that will send it only behind edits of
\* syncBuffer (applyBufferedEdits starts no timer), and no timer runs with nothing
\* to send: with whatever a user types, taps and erases between the renderings.
THEOREM NothingIsLeftUnsent == WSpec => []UnsentOnlyAfterBuffering
<1>1. WInv => UnsentOnlyAfterBuffering
  BY DEF WInv, DeviceInv, DeviceAt, UnsentOnlyAfterBuffering
<1>. QED  BY <1>1, InvAlways, PTL

----------------------------------------------------------------------------
(***************************************************************************)
(* What the text view shows.  It shows the document, or there is something *)
(* that will make it show it: a rendering, a block of the main queue, an   *)
(* event that has not come yet, or an edit that will come back as one.     *)
(* All of them need the observer that the text view has once it is shown.  *)
(***************************************************************************)

Pending(c) ==
  /\ observing[c]
  /\ \/ rendering[c] # "idle"
     \/ mainQueue[c] > 0
     \/ delivered[c] < Len(log)
     \/ ui[c].currentEdit # <<>>

Shows(c) ==
  membership[c] = "in" =>
    /\ ~observing[c] => rendering[c] = "idle" /\ mainQueue[c] = 0
    /\ SessionOpen /\ ~ui[c].crashed => ui[c].text = globalTruthText[c] \/ Pending(c)

ShowsInv == \A c \in Writer : Shows(c)

\* What a step of c leaves to the others: theirs, a log that only grows, and a
\* session that only ends.
Apart(d) ==
  /\ ui'[d] = ui[d] /\ mainQueue'[d] = mainQueue[d]
  /\ membership'[d] = membership[d] /\ delivered'[d] = delivered[d]
  /\ rendering'[d] = rendering[d] /\ observing'[d] = observing[d]
  /\ globalTruthText'[d] = globalTruthText[d]

Onward ==
  /\ Len(log) \in Nat /\ Len(log') \in Nat /\ Len(log') >= Len(log)
  /\ SessionOpen' => SessionOpen

LEMMA ApartShows ==
  ASSUME WInv, NEW d \in Writer, Shows(d), Apart(d), Onward
  PROVE  Shows(d)'
<1>1. delivered[d] \in Nat /\ Len(log) \in Nat /\ Len(log') \in Nat /\ Len(log') >= Len(log)
  BY WriterAssumption DEF WInv, SharedInv, Onward
<1>2. delivered[d] < Len(log) => delivered'[d] < Len(log')
  BY <1>1 DEF Apart
<1>3. Pending(d) => Pending(d)'
  BY <1>2 DEF Apart, Pending
<1>. QED  BY <1>3 DEF Apart, Onward, Shows

LEMMA LogStays ==
  ASSUME WInv, UNCHANGED <<log, membership>>
  PROVE  Onward
<1>1. Len(log) \in Nat
  BY LenProperties DEF WInv, SharedInv
<1>. QED  BY <1>1 DEF Onward, SessionOpen

\* A step that changes only fields of c leaves the others apart.
LEMMA OthersApart ==
  ASSUME NEW c \in Client, NEW d \in Writer, d # c, WInv,
         \/ ui' = ui
         \/ \E u : ui' = [ui EXCEPT ![c] = u],
         \/ mainQueue' = mainQueue
         \/ \E n : mainQueue' = [mainQueue EXCEPT ![c] = n],
         \/ membership' = membership
         \/ \E x : membership' = [membership EXCEPT ![c] = x],
         \/ delivered' = delivered
         \/ \E x : delivered' = [delivered EXCEPT ![c] = x],
         \/ rendering' = rendering
         \/ \E x : rendering' = [rendering EXCEPT ![c] = x],
         \/ observing' = observing
         \/ \E x : observing' = [observing EXCEPT ![c] = x],
         \/ globalTruthText' = globalTruthText
         \/ \E x : globalTruthText' = [globalTruthText EXCEPT ![c] = x]
  PROVE  Apart(d)
<1>1. d \in Client /\ DOMAIN ui = Writer /\ DOMAIN mainQueue = Writer
  BY WriterAssumption DEF WInv, DeviceInv
<1>2. ui'[d] = ui[d] /\ mainQueue'[d] = mainQueue[d]
  BY <1>1
<1>3. /\ membership'[d] = membership[d] /\ delivered'[d] = delivered[d]
      /\ rendering'[d] = rendering[d] /\ observing'[d] = observing[d]
  BY <1>1 DEF WInv, SharedInv
<1>4. globalTruthText'[d] = globalTruthText[d]
  BY <1>1 DEF WInv, SharedInv
<1>. QED  BY <1>2, <1>3, <1>4 DEF Apart

\* Input leaves the text view as it is, or adds an edit to what is pending.
LEMMA InputShows ==
  ASSUME WInv, ShowsInv, NEW c \in Writer, ~ui[c].crashed, NEW u,
         Recorded(ui[c], u), Input(c, u)
  PROVE  ShowsInv'
<1>. DEFINE v == [u EXCEPT !.sent = <<>>]
<1>1. v.text = u.text /\ v.currentEdit = u.currentEdit /\ v.crashed = u.crashed
  BY HandingOver DEF Recorded
<1>2. /\ ui' = [ui EXCEPT ![c] = v] /\ ui'[c] = v /\ mainQueue' = mainQueue
      /\ observing[c] /\ c \in Client
  BY WriterAssumption DEF Input, Turn, DeviceInv, WInv
<1>. HIDE DEF v
<1>3. /\ UNCHANGED <<membership, delivered, rendering, observing, globalTruthText>>
      /\ u.crashed \/ RecordsInto(u) \/ (RecordsNothing(ui[c], u) /\ log' = log)
  BY DEF Input, Quiet, StartsTimer, Edit, Flushes, FlushSends, vars, serverVars,
         documentVars, Recorded, RecordsNothing
<1>4. Onward
  <2>1. CASE Quiet(c, u) \/ StartsTimer(c, u)
    BY <2>1, LogStays DEF Quiet, StartsTimer, Edit, vars, serverVars
  <2>2. CASE Flushes(c, u)
    <3>. DEFINE series == u.sent[1]
    <3>1. u.sent # <<>> /\ FlushSends(c, series)
      BY <2>2 DEF Flushes
    <3>2. series \in Seq(LocalEdit) /\ series \in Seq(Action)
      BY <3>1, SentSeries DEF Recorded
    <3>. HIDE DEF series
    <3>3. /\ timerValid' = [timerValid EXCEPT ![c] = TRUE]
          /\ SendActions(c, series)
          /\ UNCHANGED <<membership, delivered, incomingActions, rendering, observing,
                         documentVars>>
      BY <3>1 DEF FlushSends
    <3>4. timerValid' \in [Client -> BOOLEAN]
      BY <3>3 DEF WInv, SharedInv
    <3>5. Len(log) \in Nat /\ Len(log') \in Nat /\ Len(log') >= Len(log)
      BY <1>2, <3>2, <3>3, <3>4, SendingKeepsShared DEF WInv
    <3>. QED  BY <1>3, <3>5 DEF Onward, SessionOpen
  <2>. QED  BY <2>1, <2>2 DEF Input
<1>5. Shows(c)'
  <2>1. CASE u.crashed
    BY <1>1, <1>2, <1>3, <2>1 DEF Shows, ShowsInv
  <2>2. CASE RecordsInto(u)
    BY <1>1, <1>2, <1>3, <2>2 DEF Shows, ShowsInv, Pending, RecordsInto
  <2>3. CASE RecordsNothing(ui[c], u) /\ log' = log
    <3>1. ui'[c].text = ui[c].text /\ ui'[c].currentEdit = ui[c].currentEdit
      BY <1>1, <1>2, <2>3 DEF RecordsNothing
    <3>2. Pending(c) => Pending(c)'
      BY <1>2, <1>3, <2>3, <3>1 DEF Pending
    <3>. QED  BY <1>2, <1>3, <3>1, <3>2 DEF Shows, ShowsInv, SessionOpen
  <2>. QED  BY <1>3, <2>1, <2>2, <2>3
<1>6. ASSUME NEW d \in Writer, d # c PROVE Shows(d)'
  <2>1. Apart(d)
    BY <1>2, <1>3, <1>6, OthersApart
  <2>. QED  BY <1>4, <2>1, ApartShows DEF ShowsInv
<1>. QED  BY <1>5, <1>6 DEF ShowsInv

\* What the timer sends comes back as an event.
LEMMA TimerShows ==
  ASSUME ~FaultyNetwork, WInv, ShowsInv, NEW c \in Writer, ~ui[c].crashed,
         TimerExpires(c)
  PROVE  ShowsInv'
<1>. DEFINE u == TimerFired(ui[c])
            v == [u EXCEPT !.sent = <<>>]
            series == u.sent[1]
<1>1. /\ IsTextView(ui[c]) /\ ui[c].sent = <<>> /\ ui[c].currentEdit # <<>>
  BY DEF WInv, DeviceInv, DeviceAt, TimerExpires
<1>2. /\ IsTextView(u) /\ u.text = ui[c].text /\ IsSent(u.sent)
      /\ u.crashed \/ u.sent # <<>>
  BY <1>1, TimerSendsAll
<1>3. /\ Turn(c, u)
      /\ IF u.crashed THEN UNCHANGED vars ELSE TimerSends(c, series)
  BY DEF TimerExpires
<1>. HIDE DEF u
<1>4. v.text = ui[c].text /\ v.crashed = u.crashed
  BY <1>2, HandingOver
<1>5. /\ ui' = [ui EXCEPT ![c] = v] /\ ui'[c] = v /\ mainQueue' = mainQueue
      /\ c \in Client
  BY <1>3, WriterAssumption DEF Turn, DeviceInv, WInv
<1>6. ~u.crashed => series \in Seq(LocalEdit) /\ series \in Seq(Action)
  BY <1>2, SentSeries
<1>. HIDE DEF v, series
<1>7. UNCHANGED <<membership, delivered, rendering, observing, globalTruthText>>
  BY <1>3 DEF TimerSends, vars, documentVars
<1>8. /\ Onward
      /\ ~u.crashed /\ CanBroadcast(c) => Len(log') = Len(log) + 1
  <2>1. CASE u.crashed
    BY <1>3, <2>1, LogStays DEF vars
  <2>2. CASE ~u.crashed
    <3>1. /\ timerValid' = [timerValid EXCEPT ![c] = FALSE]
          /\ SendActions(c, series)
          /\ UNCHANGED <<membership, delivered, incomingActions, rendering, observing,
                         documentVars>>
      BY <1>3, <2>2 DEF TimerSends
    <3>2. timerValid' \in [Client -> BOOLEAN]
      BY <3>1 DEF WInv, SharedInv
    <3>3. /\ Len(log) \in Nat /\ Len(log') \in Nat /\ Len(log') >= Len(log)
          /\ CanBroadcast(c) => Len(log') = Len(log) + 1
      BY <1>5, <1>6, <2>2, <3>1, <3>2, SendingKeepsShared DEF WInv
    <3>. QED  BY <1>7, <3>3 DEF Onward, SessionOpen
  <2>. QED  BY <2>1, <2>2
<1>9. Shows(c)'
  <2>. SUFFICES ASSUME membership'[c] = "in", SessionOpen', ~u.crashed,
                       Shows(c)
                PROVE  /\ ~observing'[c] => rendering'[c] = "idle" /\ mainQueue'[c] = 0
                       /\ ui'[c].text = globalTruthText'[c] \/ Pending(c)'
    <3>1. CASE u.crashed
      BY <1>4, <1>5, <1>7, <3>1 DEF Shows, ShowsInv
    <3>2. CASE ~(membership'[c] = "in" /\ SessionOpen')
      BY <1>5, <1>7, <3>2 DEF Shows, ShowsInv
    <3>3. CASE ~u.crashed /\ membership'[c] = "in" /\ SessionOpen'
      BY <3>3 DEF Shows, ShowsInv
    <3>. QED  BY <3>1, <3>2, <3>3
  <2>1. CASE ui[c].text = globalTruthText[c]
    BY <1>4, <1>5, <1>7, <2>1 DEF Shows
  <2>2. CASE observing[c]
    <3>1. CanBroadcast(c)
      BY <1>7 DEF CanBroadcast, SessionOpen
    <3>2. delivered[c] \in Nat /\ delivered[c] <= Len(log) /\ Len(log) \in Nat
      BY <1>5, <1>8 DEF WInv, SharedInv, Onward
    <3>3. delivered'[c] < Len(log')
      BY <1>7, <1>8, <3>1, <3>2
    <3>. QED  BY <1>7, <2>2, <3>3 DEF Pending
  <2>. QED  BY <1>7, <2>1, <2>2 DEF Shows, Pending, SessionOpen
<1>10. ASSUME NEW d \in Writer, d # c PROVE Shows(d)'
  <2>1. Apart(d)
    BY <1>5, <1>7, <1>10, OthersApart
  <2>. QED  BY <1>8, <2>1, ApartShows DEF ShowsInv
<1>. QED  BY <1>9, <1>10 DEF ShowsInv

LEMMA BlockShowsDocument ==
  ASSUME WInv, ShowsInv, NEW c \in Writer, ~ui[c].crashed, RunBlock(c)
  PROVE  ShowsInv'
<1>. DEFINE u == ShowDocument(ui[c], Doc(c), c)
<1>1. u.crashed \/ u.text = globalTruthText[c] \/ u.currentEdit # <<>>
  BY BlockShows
<1>2. /\ ui' = [ui EXCEPT ![c] = u] /\ ui'[c] = u
      /\ mainQueue[c] > 0 /\ mainQueue' = [mainQueue EXCEPT ![c] = mainQueue[c] - 1]
      /\ UNCHANGED vars /\ c \in Client /\ mainQueue[c] \in Nat
  BY WriterAssumption DEF RunBlock, WInv, DeviceInv
<1>. HIDE DEF u
<1>3. UNCHANGED <<log, membership, delivered, rendering, observing, globalTruthText>>
  BY <1>2 DEF vars
<1>4. Shows(c)'
  <2>1. membership[c] = "in" => observing[c]
    BY <1>2 DEF Shows, ShowsInv
  <2>2. ~u.crashed /\ observing[c] => ui'[c].text = globalTruthText'[c] \/ Pending(c)'
    BY <1>1, <1>2, <1>3 DEF Pending
  <2>. QED  BY <1>2, <1>3, <2>1, <2>2 DEF Shows
<1>5. ASSUME NEW d \in Writer, d # c PROVE Shows(d)'
  <2>1. Apart(d)
    BY <1>2, <1>3, <1>5, OthersApart
  <2>2. Onward
    BY <1>3, LogStays
  <2>. QED  BY <2>1, <2>2, ApartShows DEF ShowsInv
<1>. QED  BY <1>4, <1>5 DEF ShowsInv

\* What the framework's thread does: a rendering that is put off waits for an edit
\* that will be sent, and one that is begun leaves a block.
LEMMA FrameworkShows ==
  ASSUME WInv, ShowsInv, NEW c \in Writer, ~ui[c].crashed, WriterFrameworkThread(c)
  PROVE  ShowsInv'
<1>1. c \in Client /\ Shows(c)
  BY WriterAssumption DEF ShowsInv
<1>2. CASE ReceiveEvent(c) /\ UNCHANGED <<localVars, ghostVars>>
  <2>1. /\ UNCHANGED <<log, membership, observing, globalTruthText, ui, mainQueue>>
        /\ delivered' = [delivered EXCEPT ![c] = delivered[c] + 1]
        /\ rendering' = [rendering EXCEPT
                           ![c] = IF observing[c] THEN "notified" ELSE rendering[c]]
    BY <1>2 DEF ReceiveEvent, Notifies, serverVars, documentVars, localVars
  <2>2. rendering'[c] = IF observing[c] THEN "notified" ELSE rendering[c]
    BY <1>1, <2>1 DEF WInv, SharedInv
  <2>3. Shows(c)'
    BY <1>1, <2>1, <2>2 DEF Shows, Pending, SessionOpen
  <2>4. ASSUME NEW d \in Writer, d # c PROVE Shows(d)'
    <3>1. Apart(d)
      BY <1>1, <2>1, <2>4, OthersApart
    <3>. QED  BY <2>1, <3>1, LogStays, ApartShows DEF ShowsInv
  <2>. QED  BY <2>3, <2>4 DEF ShowsInv
<1>3. CASE /\ DeferRender(c) \/ BeginRender(c)
           /\ UNCHANGED <<localVars, ghostVars>>
  <2>1. /\ UNCHANGED <<log, membership, delivered, observing, globalTruthText, ui, mainQueue>>
        /\ rendering[c] = "notified"
        /\ \E x : rendering' = [rendering EXCEPT ![c] = x]
        /\ timerValid[c] \/ rendering'[c] = "rendering"
    BY <1>1, <1>3
    DEF DeferRender, BeginRender, serverVars, documentVars, localVars, WInv, SharedInv
  <2>2. ~ui[c].crashed /\ timerValid[c] => ui[c].currentEdit # <<>>
    BY DEF WInv, DeviceInv, DeviceAt
  <2>3. Shows(c)'
    BY <1>1, <2>1, <2>2 DEF Shows, Pending
  <2>4. ASSUME NEW d \in Writer, d # c PROVE Shows(d)'
    <3>1. Apart(d)
      BY <1>1, <2>1, <2>4, OthersApart
    <3>. QED  BY <2>1, <3>1, LogStays, ApartShows DEF ShowsInv
  <2>. QED  BY <2>3, <2>4 DEF ShowsInv
<1>4. CASE LeaveCompletes(c) /\ UNCHANGED <<localVars, ghostVars>>
  <2>1. /\ UNCHANGED <<log, delivered, rendering, observing, globalTruthText, ui, mainQueue>>
        /\ membership' = [membership EXCEPT ![c] = "out"]
    BY <1>4 DEF LeaveCompletes, serverVars, documentVars, localVars
  <2>2. membership'[c] = "out"
    BY <1>1, <2>1 DEF WInv, SharedInv
  <2>3. Shows(c)'
    BY <2>2 DEF Shows
  <2>4. SessionOpen' => SessionOpen
    BY <2>1, OwnerAssumption DEF SessionOpen, WInv, SharedInv
  <2>5. Onward
    <3>1. Len(log) \in Nat
      BY LenProperties DEF WInv, SharedInv
    <3>. QED  BY <2>1, <2>4, <3>1 DEF Onward
  <2>6. ASSUME NEW d \in Writer, d # c PROVE Shows(d)'
    <3>1. Apart(d)
      BY <1>1, <2>1, <2>6, OthersApart
    <3>. QED  BY <2>5, <3>1, ApartShows DEF ShowsInv
  <2>. QED  BY <2>3, <2>6 DEF ShowsInv
<1>5. CASE HoldInput(c)
  <2>. DEFINE u == [ui[c] EXCEPT !.isSyncing = TRUE]
  <2>1. /\ UNCHANGED <<log, membership, delivered, rendering, observing, globalTruthText,
                       mainQueue>>
        /\ ui' = [ui EXCEPT ![c] = u] /\ ui'[c] = u /\ rendering[c] = "rendering"
    BY <1>5 DEF HoldInput, vars, WInv, DeviceInv
  <2>2. Shows(c)'
    BY <1>1, <2>1 DEF Shows, Pending
  <2>. HIDE DEF u
  <2>3. ASSUME NEW d \in Writer, d # c PROVE Shows(d)'
    <3>1. Apart(d)
      BY <1>1, <2>1, <2>3, OthersApart
    <3>. QED  BY <2>1, <3>1, LogStays, ApartShows DEF ShowsInv
  <2>. QED  BY <2>2, <2>3 DEF ShowsInv
<1>6. CASE RenderOne(c)
  <2>1. /\ UNCHANGED <<log, delivered, observing, mainQueue>>
        /\ rendering[c] = "rendering"
        /\ \E text : globalTruthText' = [globalTruthText EXCEPT ![c] = text]
    <3>1. CASE RenderNext(c)
      BY <1>6, <3>1 DEF RenderOne, RenderNext, serverVars
    <3>2. CASE StacksRaise(c)
      <4>1. globalTruthText' = [globalTruthText EXCEPT ![c] = globalTruthText[c]]
        BY <3>2 DEF StacksRaise, documentVars, WInv, SharedInv
      <4>. QED  BY <1>6, <3>2, <4>1 DEF RenderOne, StacksRaise, serverVars
    <3>. QED  BY <1>6, <3>1, <3>2 DEF RenderOne
  <2>2. PICK doing, place :
          /\ rendering' = [rendering EXCEPT ![c] = doing]
          /\ membership' = [membership EXCEPT ![c] = place]
          /\ place = "in" => membership[c] = "in" /\ doing = "rendering"
          /\ place = "out" <=> membership[c] = "out"
    <3>1. CASE RenderNext(c)
      <4>. DEFINE raised == Raises(Doc(c), Head(incomingActions[c]))
                  d == IF raised THEN "idle" ELSE rendering[c]
                  p == IF raised /\ membership[c] = "in" THEN "leaving" ELSE membership[c]
      <4>1. /\ rendering' = [rendering EXCEPT ![c] = d]
            /\ membership' = [membership EXCEPT ![c] = p]
        BY <3>1 DEF RenderNext
      <4>. HIDE DEF raised
      <4>2. /\ p = "in" => membership[c] = "in" /\ d = "rendering"
            /\ p = "out" <=> membership[c] = "out"
        BY <2>1
      <4>. HIDE DEF d, p
      <4>. QED  BY <4>1, <4>2
    <3>2. CASE StacksRaise(c)
      <4>. DEFINE p == IF membership[c] = "in" THEN "leaving" ELSE membership[c]
      <4>1. /\ rendering' = [rendering EXCEPT ![c] = "idle"]
            /\ membership' = [membership EXCEPT ![c] = p]
        BY <3>2 DEF StacksRaise
      <4>2. p # "in" /\ (p = "out" <=> membership[c] = "out")
        OBVIOUS
      <4>. HIDE DEF p
      <4>. QED  BY <4>1, <4>2
    <3>. QED  BY <1>6, <3>1, <3>2 DEF RenderOne
  <2>8. \E u : ui' = [ui EXCEPT ![c] = u]
    BY <1>6 DEF RenderOne
  <2>3. membership'[c] = place /\ rendering'[c] = doing
    BY <1>1, <2>2 DEF WInv, SharedInv
  <2>4. Shows(c)'
    <3>. SUFFICES ASSUME membership'[c] = "in" PROVE Shows(c)'
      BY DEF Shows
    <3>1. membership[c] = "in" /\ doing = "rendering"
      BY <2>2, <2>3
    <3>2. rendering'[c] # "idle" /\ observing'[c]
      BY <1>1, <2>1, <2>3, <3>1 DEF Shows
    <3>. QED  BY <3>2 DEF Shows, Pending
  <2>5. SessionOpen' => SessionOpen
    BY <2>2, <2>3, OwnerAssumption DEF SessionOpen, WInv, SharedInv
  <2>6. Onward
    <3>1. Len(log) \in Nat
      BY LenProperties DEF WInv, SharedInv
    <3>. QED  BY <2>1, <2>5, <3>1 DEF Onward
  <2>7. ASSUME NEW d \in Writer, d # c PROVE Shows(d)'
    <3>1. Apart(d)
      BY <1>1, <2>1, <2>2, <2>7, <2>8, OthersApart
    <3>. QED  BY <2>6, <3>1, ApartShows DEF ShowsInv
  <2>. QED  BY <2>4, <2>7 DEF ShowsInv
<1>7. CASE DispatchBlock(c)
  <2>1. /\ UNCHANGED <<log, membership, delivered, observing, globalTruthText, ui>>
        /\ rendering[c] = "rendering" /\ rendering' = [rendering EXCEPT ![c] = "idle"]
        /\ mainQueue' = [mainQueue EXCEPT ![c] = mainQueue[c] + 1]
    BY <1>7 DEF DispatchBlock, FinishRender, serverVars, documentVars
  <2>2. mainQueue'[c] > 0
    BY <2>1 DEF WInv, DeviceInv
  <2>3. Shows(c)'
    BY <1>1, <2>1, <2>2 DEF Shows, Pending
  <2>4. ASSUME NEW d \in Writer, d # c PROVE Shows(d)'
    <3>1. Apart(d)
      BY <1>1, <2>1, <2>4, OthersApart
    <3>. QED  BY <2>1, <3>1, LogStays, ApartShows DEF ShowsInv
  <2>. QED  BY <2>3, <2>4 DEF ShowsInv
<1>. QED
  BY <1>2, <1>3, <1>4, <1>5, <1>6, <1>7 DEF WriterFrameworkThread, EventStep

\* The text view opens on an empty document, or on one that is not rendered yet;
\* the exit button ends the membership.
LEMMA OpeningShows ==
  ASSUME WInv, ShowsInv, NEW c \in Client, ShowTextView(c),
         UNCHANGED <<localVars, ghostVars>>
  PROVE  ShowsInv'
<1>1. /\ UNCHANGED <<log, membership, delivered, rendering, globalTruthText, ui, mainQueue>>
      /\ ~observing[c] /\ observing' = [observing EXCEPT ![c] = TRUE] /\ observing'[c]
  BY DEF ShowTextView, serverVars, documentVars, localVars, WInv, SharedInv
<1>2. ASSUME NEW d \in Writer, d # c PROVE Shows(d)'
  <2>1. Apart(d)
    BY <1>1, <1>2, OthersApart
  <2>. QED  BY <1>1, <2>1, LogStays, ApartShows DEF ShowsInv
<1>3. c \in Writer => Shows(c)'
  BY <1>1 DEF ShowsInv, Shows, Pending, SessionOpen
<1>. QED  BY <1>2, <1>3 DEF ShowsInv

LEMMA ExitShows ==
  ASSUME WInv, ShowsInv, NEW c \in Writer, ExitButton(c)
  PROVE  ShowsInv'
<1>. DEFINE place == IF membership[c] = "in" THEN "leaving" ELSE membership[c]
<1>1. /\ UNCHANGED <<log, delivered, rendering, globalTruthText, ui, mainQueue>>
      /\ observing' = [observing EXCEPT ![c] = FALSE]
      /\ membership' = [membership EXCEPT ![c] = place]
      /\ c \in Client
  BY WriterAssumption DEF ExitButton, Exit, serverVars, documentVars, localVars
<1>2. membership'[c] = place /\ place # "in"
  BY <1>1 DEF WInv, SharedInv
<1>3. Shows(c)'
  BY <1>2 DEF Shows
<1>4. SessionOpen' => SessionOpen
  BY <1>1, OwnerAssumption DEF SessionOpen, WInv, SharedInv
<1>5. Onward
  <2>1. Len(log) \in Nat
    BY LenProperties DEF WInv, SharedInv
  <2>. QED  BY <1>1, <1>4, <2>1 DEF Onward
<1>. HIDE DEF place
<1>6. ASSUME NEW d \in Writer, d # c PROVE Shows(d)'
  <2>1. Apart(d)
    BY <1>1, <1>6, OthersApart
  <2>. QED  BY <1>5, <2>1, ApartShows DEF ShowsInv
<1>. QED  BY <1>3, <1>6 DEF ShowsInv

LEMMA OthersShow ==
  ASSUME WInv, ShowsInv, OthersSend
  PROVE  ShowsInv'
<1>1. PICK c \in Client \ Writer :
        \/ ShowTextView(c)
        \/ HasRoom(Cardinality(TimersRunning) + 1) /\ UndoOrRedo(c)
  BY DEF OthersSend
<1>2. UNCHANGED <<localVars, ghostVars>>
  BY DEF OthersSend
<1>3. CASE ShowTextView(c)
  BY <1>2, <1>3, OpeningShows
<1>4. CASE UndoOrRedo(c)
  <2>1. PICK series \in Series : ButtonSends(c, series)
    BY <1>4 DEF UndoOrRedo
  <2>2. series \in Seq(Action)
    BY SeriesAssumption
  <2>3. /\ SendActions(c, series) /\ timerValid' = timerValid
        /\ UNCHANGED <<membership, delivered, incomingActions, rendering, observing,
                       documentVars>>
    BY <2>1 DEF ButtonSends
  <2>4. timerValid' \in [Client -> BOOLEAN]
    BY <2>3 DEF WInv, SharedInv
  <2>5. Len(log) \in Nat /\ Len(log') \in Nat /\ Len(log') >= Len(log)
    BY <2>2, <2>3, <2>4, SendingKeepsShared DEF WInv
  <2>6. Onward
    BY <2>3, <2>5 DEF Onward, SessionOpen
  <2>7. \A d \in Writer : Apart(d)
    BY <1>2, <2>3 DEF Apart, localVars, documentVars
  <2>. QED  BY <2>6, <2>7, ApartShows DEF ShowsInv
<1>. QED  BY <1>1, <1>3, <1>4

LEMMA StepShows ==
  ASSUME ~FaultyNetwork, WInv, ShowsInv, [WNext]_writeVars
  PROVE  ShowsInv'
<1>1. ASSUME NEW c \in Writer, ~ui[c].crashed, WriterMainThread(c)
      PROVE  ShowsInv'
  <2>1. CASE TypeKey(c) \/ PressBackspace(c) \/ Tap(c)
    <3>1. PICK u : Recorded(ui[c], u) /\ Input(c, u)
      BY <1>1, <2>1, WriterInputs DEF WInv
    <3>. QED  BY <1>1, <3>1, InputShows
  <2>2. CASE TimerExpires(c)
    BY <1>1, <2>2, TimerShows
  <2>3. CASE RunBlock(c)
    BY <1>1, <2>3, BlockShowsDocument
  <2>4. CASE ExitButton(c)
    BY <2>4, ExitShows
  <2>5. CASE OpensTextView(c)
    BY <2>5, WriterAssumption, OpeningShows DEF OpensTextView
  <2>. QED  BY <1>1, <2>1, <2>2, <2>3, <2>4, <2>5 DEF WriterMainThread
<1>2. CASE UNCHANGED writeVars
  BY <1>2 DEF writeVars, vars, localVars, ShowsInv, Shows, Pending, SessionOpen
<1>3. CASE WNext
  BY <1>1, <1>3, FrameworkShows, OthersShow DEF WNext
<1>. QED  BY <1>2, <1>3

LEMMA InitShows ==
  ASSUME WInit
  PROVE  ShowsInv
<1>1. ASSUME NEW c \in Writer
      PROVE  Shows(c)
  <2>1. /\ rendering[c] = "idle" /\ mainQueue[c] = 0
        /\ ui[c] = FreshTextView /\ globalTruthText[c] = EmptyDocument.text
    BY WriterAssumption DEF WInit, Init
  <2>2. ui[c].text = globalTruthText[c]
    BY <2>1, FreshIsTextView DEF EmptyDocument
  <2>. QED  BY <2>1, <2>2 DEF Shows
<1>. QED  BY <1>1 DEF ShowsInv

\* When a writer has nothing pending and everything that was broadcast has been
\* rendered, its text view shows the document, for any interleaving of its input,
\* its timer, its renderings and the blocks that they leave (renderIncomingEdits,
\* applyBufferedEdits, mergeCurrentEdit).  It takes broadcasts that succeed: what
\* sendActions drops was shown to the user, and comes back to nobody.
THEOREM TextViewComesToShowDocument ==
  ~FaultyNetwork => (WSpec => []TextViewShowsDocument)
<1>. SUFFICES ASSUME ~FaultyNetwork
              PROVE  WSpec => []TextViewShowsDocument
  OBVIOUS
<1>1. WInit => ShowsInv
  BY InitShows
<1>2. WInv /\ ShowsInv /\ [WNext]_writeVars => ShowsInv'
  BY StepShows
<1>3. WInv /\ ShowsInv => TextViewShowsDocument
  <2>. SUFFICES ASSUME WInv, ShowsInv, NEW c \in Writer, AtRest(c),
                       membership[c] = "in", SessionOpen, ~ui[c].crashed
                PROVE  ui[c].text = globalTruthText[c]
    BY DEF TextViewShowsDocument
  <2>1. delivered[c] = Len(log) /\ Len(log) \in Nat
    BY LenProperties DEF AtRest, WInv, SharedInv
  <2>2. ~Pending(c)
    BY <2>1 DEF AtRest, Pending
  <2>. QED  BY <2>2 DEF ShowsInv, Shows
<1>. QED  BY <1>1, <1>2, <1>3, InvAlways, PTL DEF WSpec

----------------------------------------------------------------------------
(***************************************************************************)
(* The program implements Replication, with any series that a client may   *)
(* broadcast: what the writers see and do adds to it, and takes nothing    *)
(* from it.                                                                *)
(***************************************************************************)

Replicating == INSTANCE Replication WITH Series <- Seq(Action)

\* The operators of the instance are those of Document and of Replication.
LEMMA SameRendering ==
  ASSUME NEW d, NEW a
  PROVE  /\ Replicating!Render(d, a) = Render(d, a)
         /\ Replicating!Raises(d, a) = Raises(d, a)
         /\ Replicating!Outcome(d, a) = Outcome(d, a)
<1>1. Replicating!IsCursor(a) = IsCursor(a)
  BY DEF IsCursor, Replicating!IsCursor
<1>2. ASSUME NEW cursors
      PROVE  Replicating!Placed(cursors, a) = Placed(cursors, a)
  BY DEF Placed, Replicating!Placed
<1>3. ASSUME NEW p
      PROVE  /\ Replicating!LeftIndex(p) = LeftIndex(p)
             /\ Replicating!RightIndex(p) = RightIndex(p)
  BY DEF LeftIndex, Replicating!LeftIndex, RightIndex, Replicating!RightIndex
<1>4. ASSUME NEW text, NEW location, NEW length, NEW replacement
      PROVE  /\ Replicating!InRange(text, location, length) = InRange(text, location, length)
             /\ Replicating!Substring(text, location, length)
                  = Substring(text, location, length)
             /\ Replicating!Splice(text, location, length, replacement)
                  = Splice(text, location, length, replacement)
  BY DEF InRange, Replicating!InRange, Substring, Replicating!Substring,
         Splice, Replicating!Splice
<1>5. ASSUME NEW text, NEW p
      PROVE  /\ Replicating!VerifyEdit(text, p) = VerifyEdit(text, p)
             /\ Replicating!CanSplice(text, p) = CanSplice(text, p)
             /\ Replicating!EditedText(text, p) = EditedText(text, p)
  BY <1>3, <1>4
  DEF VerifyEdit, Replicating!VerifyEdit, CanSplice, Replicating!CanSplice,
      EditedText, Replicating!EditedText
<1>6. ASSUME NEW x, NEW p
      PROVE  Replicating!MovedCursor(x, p) = MovedCursor(x, p)
  BY <1>3 DEF MovedCursor, Replicating!MovedCursor
<1>7. ASSUME NEW cursors, NEW p
      PROVE  Replicating!UpdateCursors(cursors, p) = UpdateCursors(cursors, p)
  BY <1>3, <1>6 DEF UpdateCursors, Replicating!UpdateCursors
<1>8. Replicating!Outcome(d, a) = Outcome(d, a)
  BY <1>2, <1>5 DEF Outcome, Replicating!Outcome
<1>9. ASSUME NEW p
      PROVE  Replicating!RenderText(d, p) = RenderText(d, p)
  BY <1>5, <1>7 DEF RenderText, Replicating!RenderText
<1>. QED
  BY <1>1, <1>2, <1>5, <1>8, <1>9
  DEF Render, Replicating!Render, Raises, Replicating!Raises

LEMMA SameSending ==
  ASSUME NEW c, NEW series
  PROVE  SendActions(c, series) => Replicating!SendActions(c, series)
<1>1. Replicating!OnTheWireAll(c, series) = OnTheWireAll(c, series)
  BY DEF OnTheWireAll, Replicating!OnTheWireAll, OnTheWire, Replicating!OnTheWire,
         IsCursor, Replicating!IsCursor, CursorAction, Replicating!CursorAction
<1>. QED
  BY <1>1
  DEF SendActions, Replicating!SendActions, Broadcast, Replicating!Broadcast,
      BroadcastFails, Replicating!BroadcastFails, CanBroadcast, Replicating!CanBroadcast,
      SessionOpen, Replicating!SessionOpen, HasRoom, Replicating!HasRoom,
      serverVars, Replicating!serverVars

LEMMA SameFrameworkSteps ==
  ASSUME NEW c
  PROVE  ReceiveEvent(c) \/ DeferRender(c) \/ BeginRender(c) \/ RenderNext(c)
           \/ StacksRaise(c) \/ FinishRender(c) \/ LeaveCompletes(c)
         => Replicating!FrameworkThread(c)
<1>1. Replicating!serverVars = serverVars /\ Replicating!documentVars = documentVars
  BY DEF serverVars, Replicating!serverVars, documentVars, Replicating!documentVars
<1>2. ReceiveEvent(c) => Replicating!ReceiveEvent(c)
  BY DEF ReceiveEvent, Replicating!ReceiveEvent, Enqueue, Replicating!Enqueue,
         ActionsOf, Replicating!ActionsOf, NextEvent, Replicating!NextEvent,
         Notifies, Replicating!Notifies, serverVars, Replicating!serverVars,
         documentVars, Replicating!documentVars
<1>3. /\ DeferRender(c) => Replicating!DeferRender(c)
      /\ BeginRender(c) => Replicating!BeginRender(c)
      /\ FinishRender(c) => Replicating!FinishRender(c)
      /\ LeaveCompletes(c) => Replicating!LeaveCompletes(c)
  BY DEF DeferRender, Replicating!DeferRender, BeginRender, Replicating!BeginRender,
         FinishRender, Replicating!FinishRender, LeaveCompletes, Replicating!LeaveCompletes,
         serverVars, Replicating!serverVars, documentVars, Replicating!documentVars
<1>4. RenderNext(c) => Replicating!RenderNext(c)
  BY SameRendering
  DEF RenderNext, Replicating!RenderNext, Doc, Replicating!Doc,
      serverVars, Replicating!serverVars
<1>5. Replicating!MayHaveEntries(c) = MayHaveEntries(c)
  BY DEF MayHaveEntries, Replicating!MayHaveEntries, Rendered, Replicating!Rendered,
         Upto, Replicating!Upto, IsCursor, Replicating!IsCursor
<1>6. StacksRaise(c) => Replicating!StacksRaise(c)
  <2>. DEFINE action == Head(incomingActions[c])
  <2>1. Replicating!Doc(c) = Doc(c)
    BY DEF Doc, Replicating!Doc
  <2>2. Replicating!Outcome(Doc(c), action) = Outcome(Doc(c), action)
    BY SameRendering
  <2>3. Replicating!IsCursor(action) = IsCursor(action)
    BY DEF IsCursor, Replicating!IsCursor
  <2>. SUFFICES ASSUME StacksRaise(c) PROVE Replicating!StacksRaise(c)
    OBVIOUS
  <2>4. ~Replicating!IsCursor(action)
    BY <2>3 DEF StacksRaise
  <2>5. Replicating!Outcome(Replicating!Doc(c), action) = "accept"
    BY <2>1, <2>2 DEF StacksRaise
  <2>6. Replicating!MayHaveEntries(c)
    BY <1>5 DEF StacksRaise
  <2>7. UNCHANGED <<Replicating!serverVars, delivered, observing, timerValid,
                    Replicating!documentVars>>
    BY DEF StacksRaise, serverVars, Replicating!serverVars,
           documentVars, Replicating!documentVars
  <2>. QED
    BY <2>4, <2>5, <2>6, <2>7 DEF StacksRaise, Replicating!StacksRaise
<1>. QED  BY <1>2, <1>3, <1>4, <1>6 DEF Replicating!FrameworkThread

LEMMA SameMainSteps ==
  ASSUME NEW c
  PROVE  /\ ShowTextView(c) => Replicating!MainThread(c)
         /\ Exit(c) => Replicating!MainThread(c)
         /\ HasRoom(Cardinality(TimersRunning) + 1) /\ Edit(c) => Replicating!MainThread(c)
         /\ \A series \in Seq(Action) :
              /\ TimerSends(c, series) => Replicating!MainThread(c)
              /\ HasRoom(Cardinality(TimersRunning \cup {c}) + 1) /\ FlushSends(c, series)
                   => Replicating!MainThread(c)
              /\ HasRoom(Cardinality(TimersRunning) + 1) /\ ButtonSends(c, series)
                   => Replicating!MainThread(c)
<1>1. ShowTextView(c) => Replicating!ShowTextView(c)
  BY DEF ShowTextView, Replicating!ShowTextView, serverVars, Replicating!serverVars,
         documentVars, Replicating!documentVars
<1>2. Exit(c) => Replicating!Exit(c)
  BY DEF Exit, Replicating!Exit, serverVars, Replicating!serverVars,
         documentVars, Replicating!documentVars
<1>3. Edit(c) => Replicating!Edit(c)
  BY DEF Edit, Replicating!Edit, serverVars, Replicating!serverVars,
         documentVars, Replicating!documentVars
<1>4. ASSUME NEW series
      PROVE  /\ TimerSends(c, series) => Replicating!TimerSends(c, series)
             /\ FlushSends(c, series) => Replicating!FlushSends(c, series)
             /\ ButtonSends(c, series) => Replicating!ButtonSends(c, series)
  BY SameSending
  DEF TimerSends, Replicating!TimerSends, FlushSends, Replicating!FlushSends,
      ButtonSends, Replicating!ButtonSends, documentVars, Replicating!documentVars
<1>5. /\ Replicating!TimersRunning = TimersRunning
      /\ \A n : HasRoom(n) => Replicating!HasRoom(n)
  BY DEF TimersRunning, Replicating!TimersRunning, HasRoom, Replicating!HasRoom
<1>6. ASSUME NEW S
      PROVE  Replicating!Cardinality(S) = Cardinality(S)
  BY DEF Cardinality, Replicating!Cardinality
<1>. QED
  BY <1>1, <1>2, <1>3, <1>4, <1>5, <1>6
  DEF Replicating!MainThread, Replicating!TimerFires, Replicating!FlushAndEdit,
      Replicating!UndoOrRedo

\* What the program does on the devices of its writers, with the series that
\* mergeSingleEdits and resolveMergedEdits make of the input, is what Replication
\* allows: nothing between the text view and the network adds a behaviour that the
\* theorems about Replication have not seen.
THEOREM WeWriteIsReplication == WSpec => Replicating!Spec
<1>1. WInit => Replicating!Init
  BY DEF WInit, Init, Replicating!Init, EmptyDocument, Replicating!EmptyDocument
<1>2. WInv /\ [WNext]_writeVars => [Replicating!Next]_Replicating!vars
  <2>. SUFFICES ASSUME WInv, [WNext]_writeVars
                PROVE  Replicating!Next \/ UNCHANGED vars
    BY DEF vars, Replicating!vars
  <2>1. ASSUME NEW c \in Writer, ~ui[c].crashed, WriterMainThread(c)
        PROVE  Replicating!Next \/ UNCHANGED vars
    <3>1. c \in Client
      BY WriterAssumption
    <3>2. CASE TypeKey(c) \/ PressBackspace(c) \/ Tap(c)
      <4>1. PICK u : Recorded(ui[c], u) /\ Input(c, u)
        BY <2>1, <3>2, WriterInputs DEF WInv
      <4>2. CASE Quiet(c, u)
        BY <4>2 DEF Quiet
      <4>3. CASE StartsTimer(c, u)
        BY <3>1, <4>3, SameMainSteps DEF StartsTimer, Replicating!Next
      <4>4. CASE Flushes(c, u)
        <5>1. u.sent # <<>> /\ HasRoom(Cardinality(TimersRunning \cup {c}) + 1)
              /\ FlushSends(c, u.sent[1])
          BY <4>4 DEF Flushes
        <5>2. u.sent[1] \in Seq(Action)
          BY <4>1, <5>1, SentSeries DEF Recorded
        <5>. QED  BY <3>1, <5>1, <5>2, SameMainSteps DEF Replicating!Next
      <4>. QED  BY <4>1, <4>2, <4>3, <4>4 DEF Input
    <3>3. CASE TimerExpires(c)
      <4>. DEFINE u == TimerFired(ui[c])
      <4>1. /\ IsTextView(ui[c]) /\ ui[c].sent = <<>> /\ ui[c].currentEdit # <<>>
        BY <2>1, <3>3 DEF WInv, DeviceInv, DeviceAt, TimerExpires
      <4>2. IsSent(u.sent) /\ (u.crashed \/ u.sent # <<>>)
        BY <4>1, TimerSendsAll
      <4>3. IF u.crashed THEN UNCHANGED vars ELSE TimerSends(c, u.sent[1])
        BY <3>3 DEF TimerExpires
      <4>. HIDE DEF u
      <4>4. ~u.crashed => u.sent[1] \in Seq(Action)
        BY <4>2, SentSeries
      <4>. QED  BY <3>1, <4>3, <4>4, SameMainSteps DEF Replicating!Next
    <3>4. CASE RunBlock(c)
      BY <3>4 DEF RunBlock
    <3>5. CASE ExitButton(c) \/ OpensTextView(c)
      BY <3>1, <3>5, SameMainSteps DEF ExitButton, OpensTextView, Replicating!Next
    <3>. QED  BY <2>1, <3>2, <3>3, <3>4, <3>5 DEF WriterMainThread
  <2>2. ASSUME NEW c \in Writer, WriterFrameworkThread(c)
        PROVE  Replicating!Next \/ UNCHANGED vars
    <3>1. CASE HoldInput(c)
      BY <3>1 DEF HoldInput
    <3>2. CASE EventStep(c) \/ RenderOne(c) \/ DispatchBlock(c)
      BY <3>2, WriterAssumption, SameFrameworkSteps
      DEF EventStep, RenderOne, DispatchBlock, Replicating!Next
    <3>. QED  BY <2>2, <3>1, <3>2 DEF WriterFrameworkThread
  <2>3. CASE OthersSend
    <3>1. PICK c \in Client :
            \/ ShowTextView(c)
            \/ HasRoom(Cardinality(TimersRunning) + 1) /\ UndoOrRedo(c)
      BY <2>3 DEF OthersSend
    <3>2. UndoOrRedo(c) => \E series \in Seq(Action) : ButtonSends(c, series)
      BY SeriesAssumption DEF UndoOrRedo
    <3>. QED  BY <3>1, <3>2, SameMainSteps DEF Replicating!Next
  <2>4. CASE UNCHANGED writeVars
    BY <2>4 DEF writeVars
  <2>. QED  BY <2>1, <2>2, <2>3, <2>4 DEF WNext
<1>. QED  BY <1>1, <1>2, InvAlways, PTL DEF WSpec, Replicating!Spec

----------------------------------------------------------------------------
(***************************************************************************)
(* The characters that writers type: how many there are of them in texts,  *)
(* series and the order.                                                   *)
(***************************************************************************)

CountKeyNext(p, n, ch)      == CountKey(n, ch)
CountInsertionNext(p, n, e) == CountInsertion(n, e)

CountingKeys       == INSTANCE FoldProofs WITH Step <- CountKeyNext
CountingInsertions == INSTANCE FoldProofs WITH Step <- CountInsertionNext
CountingOwn        == INSTANCE FoldProofs WITH Step <- CountOwn

OwnKeys(c, actions) == FoldLeft(LAMBDA n, e : CountOwn(c, n, e), 0, actions)

LEMMA CountsAreLoops ==
  /\ \A text : KeysOf(text) = CountingKeys!Looped(0, 0, text)
  /\ \A actions : KeysInserted(actions) = CountingInsertions!Looped(0, 0, actions)
  /\ \A c, actions : OwnKeys(c, actions) = CountingOwn!Looped(c, 0, actions)
<1>1. ASSUME NEW text PROVE KeysOf(text) = CountingKeys!Looped(0, 0, text)
  BY DEF KeysOf, CountingKeys!Looped, CountKeyNext, FoldLeft, CountingKeys!FoldLeft,
         MapThenFoldSet, CountingKeys!MapThenFoldSet, Max, CountingKeys!Max
<1>2. ASSUME NEW actions
      PROVE  KeysInserted(actions) = CountingInsertions!Looped(0, 0, actions)
  BY DEF KeysInserted, CountingInsertions!Looped, CountInsertionNext, FoldLeft,
         CountingInsertions!FoldLeft, MapThenFoldSet,
         CountingInsertions!MapThenFoldSet, Max, CountingInsertions!Max
<1>3. ASSUME NEW c, NEW actions
      PROVE  OwnKeys(c, actions) = CountingOwn!Looped(c, 0, actions)
  BY DEF OwnKeys, CountingOwn!Looped, FoldLeft, CountingOwn!FoldLeft,
         MapThenFoldSet, CountingOwn!MapThenFoldSet, Max, CountingOwn!Max
<1>. QED  BY <1>1, <1>2, <1>3

LEMMA KeysOfConcat ==
  ASSUME NEW s \in Text, NEW t \in Text
  PROVE  KeysOf(s) \in Nat /\ KeysOf(s \o t) = KeysOf(s) + KeysOf(t)
<1>1. \A n \in Nat, ch \in Char :
        /\ CountKeyNext(0, 0, ch) \in Nat
        /\ CountKeyNext(0, n, ch) = n + CountKeyNext(0, 0, ch)
  BY DEF CountKeyNext, CountKey
<1>2. s \in Seq(Char) /\ t \in Seq(Char)
  BY DEF Text
<1>3. /\ CountingKeys!Looped(0, 0, s) \in Nat
      /\ CountingKeys!Looped(0, 0, s \o t)
           = CountingKeys!Looped(0, 0, s) + CountingKeys!Looped(0, 0, t)
  BY <1>1, <1>2, CountingKeys!SumOfConcat
<1>. QED  BY <1>3, CountsAreLoops

LEMMA KeysOfNone ==
  ASSUME NEW text \in Seq(Char \ Key)
  PROVE  KeysOf(text) = 0
<1>1. \A n \in {0}, ch \in Char \ Key : CountKeyNext(0, n, ch) \in {0}
  BY DEF CountKeyNext, CountKey
<1>2. 0 \in {0}
  OBVIOUS
<1>3. CountingKeys!Looped(0, 0, text) \in {0}
  BY <1>1, <1>2, CountingKeys!LoopInvariant
<1>. QED  BY <1>3, CountsAreLoops

LEMMA KeysOfOne ==
  ASSUME NEW key \in Key
  PROVE  KeysOf(<<key>>) = 1
<1>1. CountingKeys!Looped(0, 0, <<key>>) = CountKeyNext(0, 0, key)
  BY CountingKeys!LoopOfOne
<1>2. CountKeyNext(0, 0, key) = 1
  BY DEF CountKeyNext, CountKey
<1>. QED  BY <1>1, <1>2, CountsAreLoops

\* Of an insertion, and of anything else.
Weight(e) == IF e.type = "INSERT" THEN KeysOf(e.text) ELSE 0

LEMMA WeightType ==
  ASSUME NEW e \in Action
  PROVE  Weight(e) \in Nat
<1>1. e.text \in Text
  BY DEF Action
<1>. QED  BY <1>1, KeysOfConcat DEF Weight

LEMMA KeysInsertedConcat ==
  ASSUME NEW s \in Seq(Action), NEW t \in Seq(Action)
  PROVE  KeysInserted(s) \in Nat /\ KeysInserted(s \o t) = KeysInserted(s) + KeysInserted(t)
<1>1. \A n \in Nat, e \in Action :
        /\ CountInsertionNext(0, 0, e) \in Nat
        /\ CountInsertionNext(0, n, e) = n + CountInsertionNext(0, 0, e)
  <2>1. \A n \in Nat, e \in Action : CountInsertionNext(0, n, e) = n + Weight(e)
    <3>. TAKE n \in Nat, e \in Action
    <3>. QED  BY WeightType DEF CountInsertionNext, CountInsertion, Weight
  <2>2. \A e \in Action : Weight(e) \in Nat
    BY WeightType
  <2>. QED  BY <2>1, <2>2
<1>2. /\ CountingInsertions!Looped(0, 0, s) \in Nat
      /\ CountingInsertions!Looped(0, 0, s \o t)
           = CountingInsertions!Looped(0, 0, s) + CountingInsertions!Looped(0, 0, t)
  BY <1>1, CountingInsertions!SumOfConcat
<1>. QED  BY <1>2, CountsAreLoops

LEMMA KeysInsertedOne ==
  /\ KeysInserted(<<>>) = 0
  /\ \A e \in Action : KeysInserted(<<e>>) = Weight(e)
<1>1. KeysInserted(<<>>) = 0
  BY CountingInsertions!LoopOfNothing, CountsAreLoops
<1>2. ASSUME NEW e \in Action
      PROVE  KeysInserted(<<e>>) = Weight(e)
  <2>1. CountingInsertions!Looped(0, 0, <<e>>) = CountInsertionNext(0, 0, e)
    BY CountingInsertions!LoopOfOne
  <2>2. CountInsertionNext(0, 0, e) = Weight(e)
    BY WeightType DEF CountInsertionNext, CountInsertion, Weight
  <2>. QED  BY <2>1, <2>2, CountsAreLoops
<1>. QED  BY <1>1, <1>2

LEMMA KeysInsertedAppend ==
  ASSUME NEW s \in Seq(Action), NEW e \in Action
  PROVE  KeysInserted(Append(s, e)) = KeysInserted(s) + Weight(e)
<1>1. <<e>> \in Seq(Action) /\ Append(s, e) = s \o <<e>>
  BY AppendIsConcat
<1>. QED  BY <1>1, KeysInsertedConcat, KeysInsertedOne

LEMMA OwnKeysConcat ==
  ASSUME NEW c, NEW s \in Seq(Action), NEW t \in Seq(Action)
  PROVE  OwnKeys(c, s) \in Nat /\ OwnKeys(c, s \o t) = OwnKeys(c, s) + OwnKeys(c, t)
<1>1. \A n \in Nat, e \in Action :
        /\ CountOwn(c, 0, e) \in Nat
        /\ CountOwn(c, n, e) = n + CountOwn(c, 0, e)
  <2>1. \A n \in Nat, e \in Action :
          CountOwn(c, n, e) = n + (IF e.user = c THEN Weight(e) ELSE 0)
    <3>. TAKE n \in Nat, e \in Action
    <3>. QED  BY WeightType DEF CountOwn, CountInsertion, Weight
  <2>2. \A e \in Action : Weight(e) \in Nat
    BY WeightType
  <2>. QED  BY <2>1, <2>2
<1>2. /\ CountingOwn!Looped(c, 0, s) \in Nat
      /\ CountingOwn!Looped(c, 0, s \o t)
           = CountingOwn!Looped(c, 0, s) + CountingOwn!Looped(c, 0, t)
  BY <1>1, CountingOwn!SumOfConcat
<1>. QED  BY <1>2, CountsAreLoops

LEMMA OwnKeysOne ==
  ASSUME NEW c, NEW e \in Action
  PROVE  /\ OwnKeys(c, <<>>) = 0
         /\ OwnKeys(c, <<e>>) = IF e.user = c THEN Weight(e) ELSE 0
<1>1. OwnKeys(c, <<>>) = 0
  BY CountingOwn!LoopOfNothing, CountsAreLoops
<1>2. CountingOwn!Looped(c, 0, <<e>>) = CountOwn(c, 0, e)
  BY CountingOwn!LoopOfOne
<1>3. CountOwn(c, 0, e) = IF e.user = c THEN Weight(e) ELSE 0
  BY WeightType DEF CountOwn, CountInsertion, Weight
<1>. QED  BY <1>1, <1>2, <1>3, CountsAreLoops

\* The series of another.
LEMMA OwnKeysOfOthers ==
  ASSUME NEW c, NEW s \in Seq({e \in Action : e.user # c})
  PROVE  OwnKeys(c, s) = 0
<1>. DEFINE S == {e \in Action : e.user # c}
<1>1. \A n \in {0}, e \in S : CountOwn(c, n, e) \in {0}
  BY DEF CountOwn
<1>2. 0 \in {0} /\ s \in Seq(S)
  OBVIOUS
<1>. HIDE DEF S
<1>3. CountingOwn!Looped(c, 0, s) \in {0}
  BY <1>1, <1>2, CountingOwn!LoopInvariant
<1>. QED  BY <1>3, CountsAreLoops

----------------------------------------------------------------------------
(***************************************************************************)
(* What an action does to the characters of a document.                    *)
(***************************************************************************)

\* Replacing what is there by itself changes nothing.
LEMMA SplicedByItself ==
  ASSUME NEW text \in Text, NEW location \in Int, NEW length \in Int,
         InRange(text, location, length)
  PROVE  Splice(text, location, length, Substring(text, location, length)) = text
<1>. DEFINE cut == Substring(text, location, length)
            same == Splice(text, location, length, cut)
<1>1. Len(text) \in Nat /\ 0 <= location /\ 0 <= length /\ location + length <= Len(text)
  BY LenProperties DEF Text, InRange
<1>2. /\ cut \in Text /\ Len(cut) = length
      /\ \A i \in 1 .. length : cut[i] = text[location + i]
  BY SubstringElements
<1>. HIDE DEF cut
<1>3. same \in Text /\ Len(same) = Len(text) - length + Len(cut)
  BY <1>2, SpliceType
<1>4. Len(same) = Len(text)
  BY <1>1, <1>2, <1>3
<1>5. \A i \in 1 .. Len(text) - length + Len(cut) :
        same[i] = IF i <= location THEN text[i]
                  ELSE IF i <= location + Len(cut) THEN cut[i - location]
                  ELSE text[i + length - Len(cut)]
  BY <1>2, SpliceElements
<1>. HIDE DEF same
<1>6. ASSUME NEW i \in 1 .. Len(text)
      PROVE  same[i] = text[i]
  <2>1. same[i] = IF i <= location THEN text[i]
                  ELSE IF i <= location + length THEN cut[i - location]
                  ELSE text[i + length - length]
    BY <1>1, <1>2, <1>5
  <2>2. CASE i <= location
    BY <2>1, <2>2
  <2>3. CASE ~(i <= location) /\ i <= location + length
    <3>1. i - location \in 1 .. length /\ location + (i - location) = i
      BY <1>1, <2>3
    <3>. QED  BY <1>2, <2>1, <2>3, <3>1
  <2>4. CASE ~(i <= location) /\ ~(i <= location + length)
    <3>1. i + length - length = i
      BY <1>1
    <3>. QED  BY <2>1, <2>4, <3>1
  <2>. QED  BY <2>2, <2>3, <2>4
<1>7. same \in Seq(Char) /\ text \in Seq(Char)
  BY <1>3 DEF Text
<1>8. same = text
  BY <1>4, <1>6, <1>7, SeqEqual
<1>. QED  BY <1>8 DEF same, cut

LEMMA KeysOfSplice ==
  ASSUME NEW text \in Text, NEW location \in Int, NEW length \in Int,
         InRange(text, location, length), NEW replacement \in Text
  PROVE  KeysOf(Splice(text, location, length, replacement))
           = KeysOf(text) - KeysOf(Substring(text, location, length)) + KeysOf(replacement)
<1>. DEFINE left == Substring(text, 0, location)
            cut == Substring(text, location, length)
            right == SubSeq(text, location + length + 1, Len(text))
            rest == Len(text) - (location + length)
<1>1. Len(text) \in Nat /\ 0 <= location /\ 0 <= length /\ location + length <= Len(text)
  BY LenProperties DEF Text, InRange
<1>2. left \in Text /\ cut \in Text
  <2>1. InRange(text, 0, location)
    BY <1>1 DEF InRange
  <2>. QED  BY <2>1, SubstringElements
<1>3. right \in Text
  <2>1. InRange(text, location + length, rest) /\ rest \in Int /\ location + length \in Int
        /\ location + length + rest = Len(text)
    BY <1>1 DEF InRange
  <2>2. right = Substring(text, location + length, rest)
    BY <2>1 DEF Substring
  <2>. HIDE DEF rest, right
  <2>. QED  BY <2>1, <2>2, SubstringElements
<1>4. \A r : Splice(text, location, length, r) = left \o r \o right
  BY DEF Splice
<1>. HIDE DEF left, cut, right, rest
<1>5. \A r \in Text : /\ KeysOf(left) \in Nat /\ KeysOf(r) \in Nat /\ KeysOf(right) \in Nat
                      /\ KeysOf(left \o r \o right) = KeysOf(left) + KeysOf(r) + KeysOf(right)
  <2>. TAKE r \in Text
  <2>1. KeysOf(left) \in Nat /\ KeysOf(left \o r) = KeysOf(left) + KeysOf(r)
    BY <1>2, KeysOfConcat
  <2>2. left \o r \in Text
    BY <1>2, JoinedTexts
  <2>3. KeysOf(left \o r \o right) = KeysOf(left \o r) + KeysOf(right)
    BY <1>3, <2>2, KeysOfConcat
  <2>4. KeysOf(r) \in Nat /\ KeysOf(right) \in Nat
    BY <1>3, KeysOfConcat
  <2>. QED  BY <2>1, <2>3, <2>4
<1>6. text = left \o cut \o right
  BY <1>4, SplicedByItself DEF cut
<1>. DEFINE a == KeysOf(left)
            b == KeysOf(cut)
            z == KeysOf(right)
            k == KeysOf(replacement)
<1>7. /\ a \in Nat /\ b \in Nat /\ z \in Nat /\ k \in Nat
      /\ KeysOf(text) = a + b + z
      /\ KeysOf(left \o replacement \o right) = a + k + z
  BY <1>2, <1>5, <1>6
<1>. HIDE DEF a, b, z, k
<1>8. KeysOf(left \o replacement \o right) = KeysOf(text) - b + k
  BY <1>7
<1>. QED  BY <1>4, <1>8 DEF b, k, cut

LEMMA KeysOfNothing == KeysOf(<<>>) = 0 /\ <<>> \in Text
<1>1. <<>> \in Seq(Char \ Key) /\ <<>> \in Seq(Char)
  BY EmptySeq
<1>. QED  BY <1>1, KeysOfNone DEF Text

\* An insertion that is rendered adds its characters to the document, unless it
\* raises; a removal that names none of the writers' characters takes none away,
\* because it is rejected unless it removes what it names (verifyEdit).
LEMMA RenderingKeys ==
  ASSUME NEW d \in Document, NEW a \in SentAction, ~Raises(d, a),
         a.type = "REMOVE" => KeysOf(a.text) = 0
  PROVE  KeysOf(Render(d, a).text) = KeysOf(d.text) + Weight(a)
<1>. DEFINE p == Placed(d.cursors, a)
<1>1. /\ d.text \in Text /\ d.cursors \in CursorMap
      /\ d = [text |-> d.text, cursors |-> d.cursors]
  BY DEF Document
<1>2. p \in SentAction /\ p.text = a.text /\ p.type = a.type
  BY <1>1, PlacedType
<1>3. /\ KeysOf(d.text) \in Nat /\ KeysOf(<<>>) = 0 /\ <<>> \in Text
      /\ a.text \in Text /\ KeysOf(a.text) \in Nat
  BY <1>1, KeysOfConcat, KeysOfNothing DEF SentAction, Action
<1>4. CASE IsCursor(a)
  <2>. DEFINE cursors == [d.cursors EXCEPT ![a.user] = a.location]
  <2>1. Render(d, a).text = d.text
    <3>1. Render(d, a) = [d EXCEPT !.cursors = cursors]
      BY <1>4 DEF Render
    <3>. HIDE DEF cursors
    <3>2. [d EXCEPT !.cursors = cursors].text = d.text
      BY <1>1
    <3>. QED  BY <3>1, <3>2
  <2>2. Weight(a) = 0
    BY <1>4 DEF IsCursor, Weight
  <2>. QED  BY <1>3, <2>1, <2>2
<1>5. CASE a.type = "INSERT"
  <2>1. ~IsCursor(a) /\ Outcome(d, a) = "accept" /\ p.type = "INSERT"
    BY <1>2, <1>5 DEF IsCursor, Outcome, VerifyEdit
  <2>2. CanSplice(d.text, p)
    BY <2>1 DEF Raises
  <2>3. p.location \in Int
    BY <1>2 DEF SentAction, Action
  <2>4. Render(d, a).text = Splice(d.text, p.location, 0, a.text)
    BY <1>2, <2>1, <2>2 DEF Render, RenderText, EditedText
  <2>5. InRange(d.text, p.location, 0)
    BY <2>1, <2>2 DEF CanSplice
  <2>. HIDE DEF p
  <2>. DEFINE location == p.location
              cut == Substring(d.text, location, 0)
  <2>6. cut = <<>>
    <3>1. cut \in Text /\ Len(cut) = 0
      BY <1>1, <2>3, <2>5, SubstringElements
    <3>. QED  BY <3>1, EmptySeq DEF Text
  <2>7. KeysOf(Splice(d.text, location, 0, a.text))
          = KeysOf(d.text) - KeysOf(cut) + KeysOf(a.text)
    BY <1>1, <1>3, <2>3, <2>5, KeysOfSplice
  <2>8. Weight(a) = KeysOf(a.text)
    BY <1>5 DEF Weight
  <2>. QED  BY <1>3, <2>4, <2>6, <2>7, <2>8
<1>6. CASE a.type = "REMOVE" /\ Outcome(d, a) = "accept"
  <2>. DEFINE left == LeftIndex(p)
  <2>1. ~IsCursor(a) /\ p.type = "REMOVE"
    BY <1>2, <1>6 DEF IsCursor
  <2>2. left \in Int /\ p.length \in Int
    BY <1>2 DEF SentAction, Action, LeftIndex
  <2>3. InRange(d.text, left, p.length) /\ Substring(d.text, left, p.length) = a.text
    BY <1>2, <1>6, <2>1 DEF Outcome, VerifyEdit
  <2>4. Render(d, a).text = Splice(d.text, left, p.length, <<>>)
    BY <1>6, <2>1 DEF Render, RenderText, EditedText, CanSplice
  <2>. HIDE DEF p, left
  <2>. DEFINE length == p.length
  <2>5. KeysOf(Splice(d.text, left, length, <<>>))
          = KeysOf(d.text) - KeysOf(Substring(d.text, left, length)) + KeysOf(<<>>)
    BY <1>1, <1>3, <2>2, <2>3, KeysOfSplice
  <2>6. Weight(a) = 0
    BY <1>6 DEF Weight
  <2>7. KeysOf(a.text) = 0
    BY <1>6
  <2>. QED  BY <1>3, <2>3, <2>4, <2>5, <2>6, <2>7
<1>7. CASE a.type = "REMOVE" /\ Outcome(d, a) # "accept"
  <2>1. Render(d, a).text = d.text
    BY <1>7 DEF Render, IsCursor
  <2>2. Weight(a) = 0
    BY <1>7 DEF Weight
  <2>. QED  BY <1>3, <2>1, <2>2
<1>. QED  BY <1>4, <1>5, <1>6, <1>7 DEF SentAction, Action, EditType, IsCursor

----------------------------------------------------------------------------
(***************************************************************************)
(* Nothing is lost of a series without removals when it is merged,         *)
(* resolved and sent.                                                      *)
(***************************************************************************)

Additions == {e \in LocalEdit : e.type # "REMOVE"}

LEMMA AdditionFacts ==
  /\ Additions \subseteq Action /\ Additions \subseteq LocalEdit
  /\ Insertion \subseteq Additions
  /\ Seq(Additions) \subseteq Seq(LocalEdit) /\ Seq(Additions) \subseteq Seq(Action)
  /\ \A e \in Additions : /\ e.type \in {"INSERT", "CURSOR"} /\ e.text \in Text
                          /\ IsCursor(e) <=> e.type = "CURSOR"
                          /\ ~IsCursor(e) => e \in Insertion
<1>1. /\ Additions \subseteq Action /\ Additions \subseteq LocalEdit
      /\ Insertion \subseteq Additions
  BY DEF Additions, LocalEdit, Insertion
<1>2. \A e \in Additions : /\ e.type \in {"INSERT", "CURSOR"} /\ e.text \in Text
                           /\ IsCursor(e) <=> e.type = "CURSOR"
                           /\ ~IsCursor(e) => e \in Insertion
  BY DEF Additions, LocalEdit, Insertion, Action, EditType, IsCursor
<1>3. Seq(Additions) \subseteq Seq(LocalEdit) /\ Seq(Additions) \subseteq Seq(Action)
  BY <1>1
<1>. QED  BY <1>1, <1>2, <1>3

LEMMA KeysOfMovements ==
  ASSUME NEW s \in Seq({e \in Action : IsCursor(e)})
  PROVE  KeysInserted(s) = 0
<1>. DEFINE S == {e \in Action : IsCursor(e)}
<1>1. \A n \in {0}, e \in S : CountInsertionNext(0, n, e) \in {0}
  BY DEF CountInsertionNext, CountInsertion, IsCursor
<1>2. 0 \in {0} /\ s \in Seq(S)
  OBVIOUS
<1>. HIDE DEF S
<1>3. CountingInsertions!Looped(0, 0, s) \in {0}
  BY <1>1, <1>2, CountingInsertions!LoopInvariant
<1>. QED  BY <1>3, CountsAreLoops

\* An insertion that gets longer.
LEMMA LongerInsertion ==
  ASSUME NEW e \in Insertion, NEW text \in Text
  PROVE  /\ [e EXCEPT !.text = @ \o text] \in Insertion
         /\ Weight([e EXCEPT !.text = @ \o text]) = Weight(e) + KeysOf(text)
<1>. DEFINE joined == e.text \o text
            longer == [e EXCEPT !.text = joined]
<1>1. e.text \in Text /\ e \in LocalEdit /\ e.type = "INSERT"
  BY DEF Insertion, LocalEdit, Action
<1>2. joined \in Text /\ KeysOf(joined) = KeysOf(e.text) + KeysOf(text)
  BY <1>1, JoinedTexts, KeysOfConcat
<1>. HIDE DEF joined
<1>3. longer \in Insertion /\ longer.text = joined /\ longer.type = "INSERT"
  BY <1>1, <1>2 DEF Insertion, LocalEdit, Action
<1>4. Weight(longer) = KeysOf(joined) /\ Weight(e) = KeysOf(e.text)
  BY <1>1, <1>3 DEF Weight
<1>. QED  BY <1>2, <1>3, <1>4 DEF joined

LEMMA LastGetsLonger ==
  ASSUME NEW s \in Seq(Additions), s # <<>>, Last(s) \in Insertion, NEW text \in Text
  PROVE  LET longer == [Last(s) EXCEPT !.text = @ \o text]
         IN /\ ReplaceLast(s, longer) \in Seq(Additions)
            /\ KeysInserted(ReplaceLast(s, longer)) = KeysInserted(s) + KeysOf(text)
<1>. DEFINE last == Last(s)
            front == Front(s)
            longer == [last EXCEPT !.text = @ \o text]
<1>1. front \in Seq(Additions) /\ s = Append(front, last)
  BY FrontAndLast
<1>2. last \in Insertion
  OBVIOUS
<1>. HIDE DEF last, front
<1>3. longer \in Insertion /\ Weight(longer) = Weight(last) + KeysOf(text)
  BY <1>2, LongerInsertion
<1>. HIDE DEF longer
<1>4. longer \in Additions /\ last \in Additions
      /\ longer \in Action /\ last \in Action /\ front \in Seq(Action)
  BY <1>1, <1>2, <1>3, AdditionFacts
<1>5. /\ KeysInserted(Append(front, longer)) = KeysInserted(front) + Weight(longer)
      /\ KeysInserted(Append(front, last)) = KeysInserted(front) + Weight(last)
  BY <1>4, KeysInsertedAppend
<1>6. KeysInserted(front) \in Nat /\ Weight(last) \in Nat /\ KeysOf(text) \in Nat
  BY <1>4, KeysInsertedConcat, WeightType, KeysOfConcat
<1>7. Append(front, longer) \in Seq(Additions)
  BY <1>1, <1>4, AppendProperties
<1>8. KeysInserted(Append(front, longer)) = KeysInserted(s) + KeysOf(text)
  BY <1>1, <1>3, <1>5, <1>6
<1>. QED  BY <1>7, <1>8 DEF ReplaceLast, longer, last, front

LEMMA MergingOneKeepsKeys ==
  ASSUME NEW s \in Seq(Additions), NEW e \in Additions
  PROVE  /\ MergeSingleEdit(s, e) \in Seq(Additions)
         /\ KeysInserted(MergeSingleEdit(s, e)) = KeysInserted(s) + Weight(e)
<1>1. e.type \in {"INSERT", "CURSOR"} /\ e.text \in Text /\ e \in Action /\ s \in Seq(Action)
  BY AdditionFacts
<1>2. CASE s # <<>> /\ ~IsCursor(e) /\ Last(s).type = e.type
  <2>1. e.type = "INSERT" /\ Weight(e) = KeysOf(e.text)
    BY <1>1, <1>2 DEF IsCursor, Weight
  <2>2. Last(s) \in Insertion
    <3>1. Last(s) \in Additions
      BY <1>2, FrontAndLast
    <3>. QED  BY <1>2, <2>1, <3>1 DEF Additions, Insertion
  <2>3. MergeSingleEdit(s, e) = ReplaceLast(s, [Last(s) EXCEPT !.text = @ \o e.text])
    BY <1>2, <2>1 DEF MergeSingleEdit, Join
  <2>. DEFINE text == e.text
              longer == [Last(s) EXCEPT !.text = @ \o text]
  <2>4. text \in Text
    BY <1>1
  <2>. HIDE DEF text
  <2>5. /\ ReplaceLast(s, longer) \in Seq(Additions)
        /\ KeysInserted(ReplaceLast(s, longer)) = KeysInserted(s) + KeysOf(text)
    BY <1>2, <2>2, <2>4, LastGetsLonger
  <2>. QED  BY <2>1, <2>3, <2>5 DEF text
<1>3. CASE ~(s # <<>> /\ ~IsCursor(e) /\ Last(s).type = e.type)
  <2>1. MergeSingleEdit(s, e) = Append(s, e)
    BY <1>3 DEF MergeSingleEdit
  <2>2. Append(s, e) \in Seq(Additions)
    BY AppendProperties
  <2>. QED  BY <1>1, <2>1, <2>2, KeysInsertedAppend
<1>. QED  BY <1>2, <1>3

LEMMA MergingKeepsKeys ==
  ASSUME NEW edits \in Seq(Additions)
  PROVE  /\ MergeSingleEdits(edits) \in Seq(Additions)
         /\ KeysInserted(MergeSingleEdits(edits)) = KeysInserted(edits)
<1>. DEFINE Keeps(s) == /\ MergeSingleEdits(s) \in Seq(Additions)
                        /\ KeysInserted(MergeSingleEdits(s)) = KeysInserted(s)
            T == {s \in Seq(Additions) : Keeps(s)}
<1>1. <<>> \in T
  BY EmptySeq, MergingNothing
<1>2. ASSUME NEW s \in Seq(Additions), s \in T, NEW e \in Additions
      PROVE  Append(s, e) \in T
  <2>1. Append(s, e) \in Seq(Additions)
    BY AppendProperties
  <2>2. s \in Seq(LocalEdit) /\ e \in LocalEdit /\ s \in Seq(Action) /\ e \in Action
    BY AdditionFacts
  <2>. DEFINE merged == MergeSingleEdits(s)
  <2>3. MergeSingleEdits(Append(s, e)) = MergeSingleEdit(merged, e)
    BY <2>2, MergingSteps
  <2>4. merged \in Seq(Additions) /\ KeysInserted(merged) = KeysInserted(s)
    BY <1>2
  <2>. HIDE DEF merged
  <2>5. /\ MergeSingleEdit(merged, e) \in Seq(Additions)
        /\ KeysInserted(MergeSingleEdit(merged, e)) = KeysInserted(merged) + Weight(e)
    BY <2>4, MergingOneKeepsKeys
  <2>6. KeysInserted(Append(s, e)) = KeysInserted(s) + Weight(e)
    BY <2>2, KeysInsertedAppend
  <2>. QED  BY <2>1, <2>3, <2>4, <2>5, <2>6
<1>. HIDE DEF T
<1>3. Seq(Additions) \subseteq T
  BY <1>1, <1>2, Merging!AllSequences
<1>. QED  BY <1>3 DEF T

\* While insertions are resolved, one insertion is found.
OneInsertion ==
  [final : {<<e>> : e \in Insertion}, og : Int, smallest : Int, raised : {FALSE}]

LEMMA ResolvingOneKeepsKeys ==
  ASSUME NEW r \in OneInsertion, NEW e \in Additions
  PROVE  /\ ResolveEdit(r, e) \in OneInsertion
         /\ KeysInserted(ResolveEdit(r, e).final) = KeysInserted(r.final) + Weight(e)
<1>1. PICK x \in Insertion : r.final = <<x>>
  BY DEF OneInsertion
<1>2. /\ r.raised = FALSE /\ e.type \in {"INSERT", "CURSOR"} /\ e.text \in Text
      /\ IsCursor(e) <=> e.type = "CURSOR"
      /\ x \in Action /\ x.type = "INSERT"
  BY AdditionFacts DEF OneInsertion, Insertion
<1>3. KeysInserted(r.final) = Weight(x) /\ Weight(x) \in Nat
  BY <1>1, <1>2, KeysInsertedOne, WeightType
<1>4. CASE e.type = "CURSOR"
  <2>1. ResolveEdit(r, e) = r /\ Weight(e) = 0
    BY <1>2, <1>4 DEF ResolveEdit, Weight
  <2>. QED  BY <1>3, <2>1
<1>5. CASE e.type = "INSERT"
  <2>. DEFINE longer == [x EXCEPT !.text = @ \o e.text]
              one == <<longer>>
              found == [r EXCEPT !.final = one]
  <2>1. ResolveEdit(r, e) = ResolveInsertion(r, e)
    BY <1>2, <1>5 DEF ResolveEdit, IsCursor
  <2>2. Last(r.final) = x /\ r.final # <<>>
        /\ ReplaceLast(r.final, longer) = one
    <3>. HIDE DEF longer
    <3>1. Last(<<x>>) = x /\ Front(<<x>>) = <<>> /\ Append(<<>>, longer) = <<longer>>
      BY ShortSequences
    <3>2. <<x>> # <<>>
      OBVIOUS
    <3>. QED  BY <1>1, <3>1, <3>2 DEF ReplaceLast
  <2>3. ResolveInsertion(r, e) = found
    BY <1>2, <2>2 DEF ResolveInsertion
  <2>4. longer \in Insertion /\ Weight(longer) = Weight(x) + KeysOf(e.text)
    BY <1>2, LongerInsertion
  <2>. HIDE DEF longer
  <2>5. longer \in Action
    BY <2>4, AdditionFacts
  <2>6. KeysInserted(one) = Weight(longer)
    BY <2>5, KeysInsertedOne
  <2>7. Weight(e) = KeysOf(e.text)
    BY <1>5 DEF Weight
  <2>8. one \in {<<y>> : y \in Insertion}
    BY <2>4
  <2>. HIDE DEF one
  <2>9. found \in OneInsertion /\ found.final = one
    BY <2>8 DEF OneInsertion
  <2>. QED  BY <1>3, <2>1, <2>3, <2>4, <2>6, <2>7, <2>9
<1>. QED  BY <1>2, <1>4, <1>5

LEMMA ResolvingKeepsKeys ==
  ASSUME NEW first \in Insertion, NEW texts \in Seq(Additions)
  PROVE  LET r == FoldLeft(ResolveEdit, StartResolving(first), texts)
         IN /\ r \in OneInsertion
            /\ KeysInserted(r.final) = Weight(first) + KeysInserted(texts)
<1>. DEFINE start == StartResolving(first)
            Done(s) == Resolving!Looped(0, start, s)
            Keeps(s) == /\ Done(s) \in OneInsertion
                        /\ KeysInserted(Done(s).final) = Weight(first) + KeysInserted(s)
            T == {s \in Seq(Additions) : Keeps(s)}
<1>1. first \in Action /\ first.location \in Int /\ Weight(first) \in Nat
  BY AdditionFacts, WeightType DEF Action
<1>2. <<>> \in T
  <2>1. Done(<<>>) = start
    BY Resolving!LoopOfNothing
  <2>2. start \in OneInsertion /\ start.final = <<first>>
    BY <1>1 DEF StartResolving, OneInsertion
  <2>3. KeysInserted(<<first>>) = Weight(first) /\ KeysInserted(<<>>) = 0
    BY <1>1, KeysInsertedOne
  <2>. HIDE DEF Done, start
  <2>. QED  BY <1>1, <2>1, <2>2, <2>3, EmptySeq
<1>3. ASSUME NEW s \in Seq(Additions), s \in T, NEW e \in Additions
      PROVE  Append(s, e) \in T
  <2>1. Append(s, e) \in Seq(Additions)
    BY AppendProperties
  <2>2. s \in Seq(Action) /\ e \in Action
    BY AdditionFacts
  <2>. DEFINE r == Done(s)
  <2>3. Done(Append(s, e)) = ResolveEdit(r, e)
    BY Resolving!LoopOfAppend DEF Resolve
  <2>4. r \in OneInsertion /\ KeysInserted(r.final) = Weight(first) + KeysInserted(s)
    BY <1>3
  <2>. HIDE DEF r, Done
  <2>5. /\ ResolveEdit(r, e) \in OneInsertion
        /\ KeysInserted(ResolveEdit(r, e).final) = KeysInserted(r.final) + Weight(e)
    BY <2>4, ResolvingOneKeepsKeys
  <2>6. KeysInserted(Append(s, e)) = KeysInserted(s) + Weight(e)
        /\ KeysInserted(s) \in Nat /\ Weight(e) \in Nat
    BY <2>2, KeysInsertedAppend, KeysInsertedConcat, WeightType
  <2>7. KeysInserted(ResolveEdit(r, e).final) = Weight(first) + KeysInserted(Append(s, e))
    BY <1>1, <2>4, <2>5, <2>6
  <2>. QED  BY <2>1, <2>3, <2>5, <2>7
<1>. HIDE DEF T
<1>4. Seq(Additions) \subseteq T
  BY <1>2, <1>3, Resolving!AllSequences
<1>5. Done(texts) \in OneInsertion
      /\ KeysInserted(Done(texts).final) = Weight(first) + KeysInserted(texts)
  BY <1>4 DEF T
<1>6. FoldLeft(ResolveEdit, start, texts) = Done(texts)
  BY DEF Resolving!Looped, Resolve, FoldLeft, Resolving!FoldLeft,
         MapThenFoldSet, Resolving!MapThenFoldSet, Max, Resolving!Max
<1>. HIDE DEF Done, start
<1>. QED  BY <1>5, <1>6 DEF start

LEMMA FinalEditsKeepKeys ==
  ASSUME NEW edits \in Seq(Additions)
  PROVE  /\ ~Resolved(edits).raised
         /\ FinalEdits(edits) \in Seq(Additions)
         /\ KeysInserted(FinalEdits(edits)) = KeysInserted(edits)
<1>. DEFINE merged == MergeSingleEdits(edits)
            moves == Cardinality(LeadingCursors(merged))
            moved == IF moves = 0 THEN <<>> ELSE <<merged[moves]>>
            texts == SubSeq(merged, moves + 1, Len(merged))
            r == FoldLeft(ResolveEdit, StartResolving(Head(texts)), Tail(texts))
<1>1. merged \in Seq(Additions) /\ KeysInserted(merged) = KeysInserted(edits)
      /\ merged \in Seq(LocalEdit)
  BY MergingKeepsKeys, AdditionFacts
<1>2. Resolved(edits) = IF texts = <<>> THEN [final |-> moved, raised |-> FALSE]
                        ELSE [final |-> moved \o r.final, raised |-> r.raised]
  BY DEF Resolved, ResolveMergedEdits
<1>. HIDE DEF merged
<1>3. /\ moves \in 0 .. Len(merged) /\ Len(merged) \in Nat
      /\ moves > 0 => IsCursor(merged[moves])
      /\ \A i \in 1 .. moves : IsCursor(merged[i])
      /\ moves < Len(merged) => ~IsCursor(merged[moves + 1])
  BY <1>1, LeadingCursorsAreFirst, LenProperties
<1>. HIDE DEF moves
<1>. DEFINE leading == SubSeq(merged, 1, moves)
            Movements == {e \in Action : IsCursor(e)}
<1>4. /\ leading \in Seq(Additions) /\ Len(leading) = moves
      /\ \A i \in 1 .. moves : leading[i] = merged[i]
      /\ texts \in Seq(Additions)
      /\ merged = leading \o texts
  BY <1>1, <1>3, SplitSequence
<1>5. texts # <<>> => ~IsCursor(Head(texts))
  <2>1. CASE moves < Len(merged)
    <3>1. Head(texts) = merged[moves + 1]
      BY <1>1, <1>3, <2>1, HeadTailOfSubSeq
    <3>. QED  BY <1>3, <2>1, <3>1
  <2>2. CASE ~(moves < Len(merged))
    BY <1>3, <2>2, SubSeqEmpty
  <2>. QED  BY <2>1, <2>2
<1>. HIDE DEF leading, texts
<1>6. KeysInserted(leading) = 0
  <2>1. \A i \in 1 .. Len(leading) : leading[i] \in Movements
    <3>. TAKE i \in 1 .. Len(leading)
    <3>1. leading[i] \in Additions
      BY <1>4, ElementOfSeq
    <3>2. IsCursor(leading[i])
      BY <1>3, <1>4
    <3>. QED  BY <3>1, <3>2, AdditionFacts
  <2>2. leading \in Seq(Movements)
    <3>1. DOMAIN leading = 1 .. Len(leading) /\ Len(leading) \in Nat
          /\ leading = [i \in DOMAIN leading |-> leading[i]]
      BY <1>4, LenProperties
    <3>. HIDE DEF Movements
    <3>. QED  BY <2>1, <3>1
  <2>. QED  BY <2>2, KeysOfMovements
<1>7. KeysInserted(merged) = KeysInserted(texts) /\ KeysInserted(texts) \in Nat
  <2>1. leading \in Seq(Action) /\ texts \in Seq(Action)
    BY <1>4, AdditionFacts
  <2>2. KeysInserted(leading \o texts) = KeysInserted(leading) + KeysInserted(texts)
        /\ KeysInserted(texts) \in Nat
    BY <2>1, KeysInsertedConcat
  <2>. QED  BY <1>4, <1>6, <2>2
<1>8. moved \in Seq(Additions) /\ KeysInserted(moved) = 0
  <2>1. CASE moves = 0
    BY <2>1, EmptySeq, KeysInsertedOne
  <2>2. CASE moves # 0
    <3>. DEFINE x == merged[moves]
    <3>1. x \in Additions /\ IsCursor(x)
      BY <1>1, <1>3, <2>2, ElementOfSeq
    <3>. HIDE DEF x
    <3>2. x \in Action /\ Weight(x) = 0
      BY <3>1, AdditionFacts DEF Weight
    <3>3. <<x>> \in Seq(Additions) /\ KeysInserted(<<x>>) = 0
      BY <3>1, <3>2, KeysInsertedOne
    <3>. QED  BY <2>2, <3>3 DEF x
  <2>. QED  BY <2>1, <2>2
<1>. HIDE DEF moved
<1>9. CASE texts = <<>>
  <2>1. FinalEdits(edits) = moved /\ Resolved(edits).raised = FALSE
    BY <1>2, <1>9 DEF FinalEdits
  <2>2. KeysInserted(texts) = 0
    BY <1>9, KeysInsertedOne
  <2>. QED  BY <1>1, <1>7, <1>8, <2>1, <2>2
<1>10. CASE texts # <<>>
  <2>. DEFINE first == Head(texts)
              rest == Tail(texts)
  <2>1. first \in Additions /\ rest \in Seq(Additions) /\ texts = <<first>> \o rest
    BY <1>4, <1>10, HeadAndTail
  <2>2. first \in Insertion
    BY <1>5, <1>10, <2>1, AdditionFacts
  <2>3. FinalEdits(edits) = moved \o r.final /\ Resolved(edits).raised = r.raised
    BY <1>2, <1>10 DEF FinalEdits
  <2>. HIDE DEF first, rest
  <2>4. r \in OneInsertion /\ KeysInserted(r.final) = Weight(first) + KeysInserted(rest)
    BY <2>1, <2>2, ResolvingKeepsKeys DEF first, rest
  <2>. HIDE DEF r
  <2>5. KeysInserted(texts) = Weight(first) + KeysInserted(rest)
    <3>1. first \in Action /\ rest \in Seq(Action) /\ <<first>> \in Seq(Action)
      BY <2>1, AdditionFacts
    <3>2. KeysInserted(<<first>> \o rest) = KeysInserted(<<first>>) + KeysInserted(rest)
      BY <3>1, KeysInsertedConcat
    <3>. QED  BY <2>1, <3>1, <3>2, KeysInsertedOne
  <2>. DEFINE final == r.final
  <2>6. r.raised = FALSE /\ final \in Seq(Additions)
    <3>1. PICK x \in Insertion : final = <<x>>
      BY <2>4 DEF OneInsertion
    <3>2. x \in Additions
      BY <3>1, AdditionFacts
    <3>3. <<x>> \in Seq(Additions)
      BY <3>2
    <3>4. r.raised = FALSE
      BY <2>4 DEF OneInsertion
    <3>. HIDE DEF final
    <3>. QED  BY <3>1, <3>3, <3>4
  <2>. HIDE DEF final
  <2>7. moved \o final \in Seq(Additions)
    BY <1>8, <2>6, ConcatProperties
  <2>8. KeysInserted(moved \o final) = KeysInserted(moved) + KeysInserted(final)
    <3>1. moved \in Seq(Action) /\ final \in Seq(Action)
      BY <1>8, <2>6, AdditionFacts
    <3>. QED  BY <3>1, KeysInsertedConcat
  <2>9. KeysInserted(final) = KeysInserted(texts)
    BY <2>4, <2>5 DEF final
  <2>10. KeysInserted(moved \o final) = KeysInserted(edits)
    BY <1>1, <1>7, <1>8, <2>8, <2>9
  <2>. QED  BY <2>3, <2>6, <2>7, <2>10 DEF final
<1>. QED  BY <1>9, <1>10

----------------------------------------------------------------------------
(***************************************************************************)
(* The order: what a writer broadcasts carries what it typed, and what the *)
(* others broadcast carries nothing of it and removes nothing of it.       *)
(***************************************************************************)

\* An action that takes none of the characters that c typed away, and adds none
\* that c did not type.
Harmless(c) ==
  {a \in WireAction : /\ a.type = "REMOVE" => KeysOf(a.text) = 0
                      /\ a.user # c => Weight(a) = 0}

\* The others neither type the characters that writers type nor remove them.
OthersTypeNoKeys ==
  \A series \in Series : \A i \in DOMAIN series : series[i].text \in Seq(Char \ Key)

LEMMA SequenceOfElements ==
  ASSUME NEW S, NEW T, NEW s \in Seq(S), \A i \in 1 .. Len(s) : s[i] \in T
  PROVE  s \in Seq(T)
<1>1. DOMAIN s = 1 .. Len(s) /\ Len(s) \in Nat /\ s = [i \in DOMAIN s |-> s[i]]
  BY LenProperties
<1>. QED  BY <1>1

LEMMA WireKeepsKeys ==
  ASSUME NEW c \in Client, NEW a \in Action
  PROVE  /\ OnTheWire(c, a) \in Action
         /\ OnTheWire(c, a).user = c
         /\ OnTheWire(c, a).type = a.type
         /\ Weight(OnTheWire(c, a)) = Weight(a)
         /\ a.type = "REMOVE" => OnTheWire(c, a).text = a.text
<1>1. OnTheWire(c, a) \in Action /\ OnTheWire(c, a).user = c
  BY OnTheWireType DEF SentAction, OnTheWire, CursorAction
<1>2. CASE IsCursor(a)
  <2>1. OnTheWire(c, a).type = "CURSOR" /\ a.type = "CURSOR"
    BY <1>2 DEF OnTheWire, CursorAction, IsCursor
  <2>. QED  BY <1>1, <2>1 DEF Weight
<1>3. CASE ~IsCursor(a)
  <2>1. OnTheWire(c, a).type = a.type /\ OnTheWire(c, a).text = a.text
    BY <1>3 DEF OnTheWire
  <2>. QED  BY <1>1, <2>1 DEF Weight
<1>. QED  BY <1>2, <1>3

LEMMA WireOfOne ==
  ASSUME NEW c, NEW e
  PROVE  /\ OnTheWireAll(c, <<>>) = <<>>
         /\ OnTheWireAll(c, <<e>>) = <<OnTheWire(c, e)>>
<1>. DEFINE x == OnTheWire(c, e)
            S == {x}
            none == OnTheWireAll(c, <<>>)
            one == OnTheWireAll(c, <<e>>)
<1>1. none = [i \in {} |-> OnTheWire(c, <<>>[i])]
  BY DEF OnTheWireAll
<1>2. one = [i \in 1 .. 1 |-> x]
  <2>1. DOMAIN <<e>> = 1 .. 1 /\ \A i \in 1 .. 1 : <<e>>[i] = e
    OBVIOUS
  <2>. QED  BY <2>1 DEF OnTheWireAll
<1>. HIDE DEF none, one, x
<1>3. none = <<>>
  BY <1>1
<1>4. one = <<x>>
  <2>1. one \in Seq(S) /\ Len(one) = 1 /\ one[1] = x
    BY <1>2
  <2>2. <<x>> \in Seq(S) /\ Len(<<x>>) = 1 /\ <<x>>[1] = x
    OBVIOUS
  <2>. QED  BY <2>1, <2>2, SeqEqual
<1>. QED  BY <1>3, <1>4 DEF none, one, x

LEMMA OwnSeriesKeys ==
  ASSUME NEW c \in Client, NEW series \in Seq(Action)
  PROVE  OwnKeys(c, OnTheWireAll(c, series)) = KeysInserted(series)
<1>. DEFINE Wire(s) == OnTheWireAll(c, s)
            T == {s \in Seq(Action) : OwnKeys(c, Wire(s)) = KeysInserted(s)}
<1>1. <<>> \in T
  <2>1. Wire(<<>>) = <<>>
    BY WireOfOne
  <2>2. OwnKeys(c, <<>>) = 0
    <3>. DEFINE e == CursorAction(0, c)
    <3>1. e \in Action
      BY EmptySeq DEF CursorAction, Action, User, Text, EditType
    <3>. QED  BY <3>1, OwnKeysOne
  <2>. HIDE DEF Wire
  <2>. QED  BY <2>1, <2>2, KeysInsertedOne, EmptySeq
<1>2. ASSUME NEW s \in Seq(Action), s \in T, NEW e \in Action
      PROVE  Append(s, e) \in T
  <2>1. Append(s, e) \in Seq(Action) /\ <<e>> \in Seq(Action) /\ Append(s, e) = s \o <<e>>
    BY AppendProperties, AppendIsConcat
  <2>. DEFINE sent == Wire(s)
              one == OnTheWire(c, e)
  <2>2. Wire(Append(s, e)) = sent \o <<one>>
    <3>1. Wire(s \o <<e>>) = Wire(s) \o Wire(<<e>>)
      BY <2>1, WireOfConcat
    <3>. QED  BY <2>1, <3>1, WireOfOne
  <2>3. sent \in Seq(Action)
    <3>1. sent \in Seq(SentAction)
      BY OnTheWireAllType
    <3>. QED  BY <3>1 DEF SentAction
  <2>4. one \in Action /\ one.user = c /\ Weight(one) = Weight(e)
    BY WireKeepsKeys
  <2>5. OwnKeys(c, sent) = KeysInserted(s)
    BY <1>2
  <2>. HIDE DEF sent, one, Wire
  <2>6. OwnKeys(c, sent \o <<one>>) = OwnKeys(c, sent) + OwnKeys(c, <<one>>)
    <3>1. <<one>> \in Seq(Action)
      BY <2>4
    <3>. QED  BY <2>3, <3>1, OwnKeysConcat
  <2>7. OwnKeys(c, <<one>>) = Weight(e)
    BY <2>4, OwnKeysOne
  <2>8. KeysInserted(Append(s, e)) = KeysInserted(s) + Weight(e)
    BY KeysInsertedAppend
  <2>. QED  BY <2>1, <2>2, <2>5, <2>6, <2>7, <2>8
<1>. HIDE DEF T
<1>3. Seq(Action) \subseteq T
  BY <1>1, <1>2, Merging!AllSequences
<1>. QED  BY <1>3 DEF T

LEMMA OwnSeriesIsHarmless ==
  ASSUME NEW c \in Writer, NEW series \in Seq(Additions)
  PROVE  /\ OnTheWireAll(c, series) \in Seq(Harmless(c))
         /\ OwnKeys(c, OnTheWireAll(c, series)) = KeysInserted(series)
<1>1. c \in Client /\ series \in Seq(Action) /\ series \in Seq(LocalEdit)
  BY WriterAssumption, AdditionFacts
<1>. DEFINE sent == OnTheWireAll(c, series)
<1>2. sent \in Seq(WireAction) /\ Len(sent) = Len(series)
  BY <1>1, WireActions
<1>3. ASSUME NEW i \in 1 .. Len(sent)
      PROVE  sent[i] \in Harmless(c)
  <2>. DEFINE a == series[i]
  <2>1. i \in 1 .. Len(series) /\ DOMAIN series = 1 .. Len(series)
    BY <1>1, <1>2, LenProperties
  <2>2. a \in Additions
    BY <2>1, ElementOfSeq
  <2>3. sent[i] = OnTheWire(c, a)
    BY <2>1 DEF OnTheWireAll
  <2>. HIDE DEF a
  <2>4. sent[i].user = c /\ sent[i].type = a.type
    BY <1>1, <2>2, <2>3, AdditionFacts, WireKeepsKeys
  <2>5. sent[i] \in WireAction
    BY <1>2, ElementOfSeq
  <2>6. sent[i].type # "REMOVE"
    BY <2>2, <2>4 DEF Additions
  <2>. HIDE DEF sent
  <2>. QED  BY <2>4, <2>5, <2>6 DEF Harmless
<1>. HIDE DEF sent
<1>4. sent \in Seq(Harmless(c))
  BY <1>2, <1>3, SequenceOfElements
<1>. QED  BY <1>1, <1>4, OwnSeriesKeys DEF sent

LEMMA SeriesOfOthersIsHarmless ==
  ASSUME OthersTypeNoKeys, NEW c \in Writer, NEW d \in Client \ Writer,
         NEW series \in Series
  PROVE  /\ OnTheWireAll(d, series) \in Seq(Harmless(c))
         /\ OwnKeys(c, OnTheWireAll(d, series)) = 0
<1>1. series \in Seq(Action) /\ d \in Client /\ d # c
  BY SeriesAssumption
<1>. DEFINE sent == OnTheWireAll(d, series)
            Others == {e \in Action : e.user # c}
<1>2. sent \in Seq(WireAction) /\ Len(sent) = Len(series)
  BY <1>1, WireActions
<1>3. ASSUME NEW i \in 1 .. Len(sent)
      PROVE  sent[i] \in Harmless(c) /\ sent[i] \in Others
  <2>. DEFINE a == series[i]
  <2>1. i \in DOMAIN series
    BY <1>1, <1>2, LenProperties
  <2>2. a \in Action
    BY <1>1, <1>2, ElementOfSeq
  <2>3. sent[i] = OnTheWire(d, a)
    BY <2>1 DEF OnTheWireAll
  <2>4. KeysOf(a.text) = 0
    BY <2>1, KeysOfNone DEF OthersTypeNoKeys
  <2>. HIDE DEF a
  <2>5. /\ sent[i] \in Action /\ sent[i].user = d /\ sent[i].type = a.type
        /\ Weight(sent[i]) = Weight(a)
        /\ a.type = "REMOVE" => sent[i].text = a.text
    BY <1>1, <2>2, <2>3, WireKeepsKeys
  <2>6. sent[i] \in WireAction
    BY <1>2, ElementOfSeq
  <2>7. Weight(a) = 0
    BY <2>4 DEF Weight
  <2>. HIDE DEF sent
  <2>. QED  BY <1>1, <2>4, <2>5, <2>6, <2>7 DEF Harmless
<1>. HIDE DEF sent
<1>4. sent \in Seq(Harmless(c))
  BY <1>2, <1>3, SequenceOfElements
<1>5. sent \in Seq(Others)
  BY <1>2, <1>3, SequenceOfElements
<1>6. OwnKeys(c, sent) = 0
  BY <1>5, OwnKeysOfOthers
<1>. QED  BY <1>4, <1>6 DEF sent

----------------------------------------------------------------------------
(***************************************************************************)
(* The callbacks of a user who erases nothing: what is recorded and held   *)
(* back are additions, and no callback loses one.                          *)
(***************************************************************************)

\* What syncBuffer holds of a user who only types.
Held == {e \in LocalEdit : e.type = "INSERT" /\ e.length = 0}

LEMMA HeldFacts ==
  /\ Held \subseteq Additions
  /\ Seq(Held) \subseteq Seq(LocalEdit) /\ Seq(Held) \subseteq Seq(Action)
  /\ \A e \in Held : e \in LocalEdit /\ e \in Action
<1>1. Held \subseteq LocalEdit /\ Held \subseteq Additions /\ LocalEdit \subseteq Action
  BY DEF Held, Additions, LocalEdit
<1>2. Seq(Held) \subseteq Seq(LocalEdit)
  BY <1>1
<1>3. Seq(Held) \subseteq Seq(Action)
  BY <1>1
<1>. QED  BY <1>1, <1>2, <1>3

\* An edit that is held back is put into the text view and recorded, or raises.
LEMMA ApplyingOneKeepsKeys ==
  ASSUME NEW text, NEW s \in Applications(text), s.edits \in Seq(Additions),
         NEW e \in Held
  PROVE  LET v == ApplyBufferedEdit(s, e)
         IN /\ s.raised => v.raised
            /\ v.raised \/ /\ v.edits \in Seq(Additions)
                           /\ KeysInserted(v.edits) = KeysInserted(s.edits) + Weight(e)
<1>. DEFINE at == s.cursor - e.length
            moved == [e EXCEPT !.location = at]
            edits == Append(s.edits, moved)
            spliced == Splice(s.text, at, e.length, e.text)
            cursor == at + Len(e.text)
            v == ApplyBufferedEdit(s, e)
<1>1. /\ e \in LocalEdit /\ e \in Action /\ e.type = "INSERT" /\ e.length = 0
      /\ s.cursor \in Nat
  BY HeldFacts DEF Held, Applications
<1>2. v = IF s.raised \/ ~InRange(s.text, at, e.length)
          THEN [s EXCEPT !.raised = TRUE]
          ELSE [s EXCEPT !.text = spliced, !.cursor = cursor, !.edits = edits]
  BY <1>1 DEF ApplyBufferedEdit, Applications
<1>3. at \in Nat
  BY <1>1
<1>. HIDE DEF at
<1>4. moved \in Additions /\ moved.type = "INSERT" /\ moved.text = e.text
  BY <1>1, <1>3 DEF Additions, LocalEdit, Action
<1>5. Weight(moved) = Weight(e)
  BY <1>1, <1>4 DEF Weight
<1>. HIDE DEF moved, spliced, cursor
<1>6. edits \in Seq(Additions) /\ KeysInserted(edits) = KeysInserted(s.edits) + Weight(e)
  <2>1. edits \in Seq(Additions)
    BY <1>4, AppendProperties
  <2>2. s.edits \in Seq(Action) /\ moved \in Action
    BY <1>4, AdditionFacts
  <2>. QED  BY <1>5, <2>1, <2>2, KeysInsertedAppend
<1>. HIDE DEF edits, v
<1>7. CASE s.raised \/ ~InRange(s.text, at, e.length)
  <2>1. v.raised = TRUE
    BY <1>2, <1>7 DEF Applications
  <2>. QED  BY <2>1 DEF v
<1>8. CASE ~(s.raised \/ ~InRange(s.text, at, e.length))
  <2>1. v.edits = edits
    BY <1>2, <1>8 DEF Applications
  <2>2. /\ ~s.raised
        /\ v.edits \in Seq(Additions) /\ KeysInserted(v.edits) = KeysInserted(s.edits) + Weight(e)
    BY <1>6, <1>8, <2>1
  <2>. QED  BY <2>2 DEF v
<1>. QED  BY <1>7, <1>8

LEMMA ApplyingKeepsKeys ==
  ASSUME NEW u, IsTextView(u), u.syncBuffer \in Seq(Held)
  PROVE  LET s == BufferApplied(u)
         IN s.raised \/ /\ s.edits \in Seq(Additions)
                        /\ KeysInserted(s.edits) = KeysInserted(u.syncBuffer)
<1>. DEFINE start == [text |-> u.text, cursor |-> u.selected, edits |-> <<>>,
                      raised |-> FALSE]
            Done(t) == Applying!Looped(0, start, t)
            Kept(r, t) == /\ r \in Applications(u.text)
                          /\ r.edits \in Seq(Additions)
                          /\ r.raised \/ KeysInserted(r.edits) = KeysInserted(t)
            T == {t \in Seq(Held) : Kept(Done(t), t)}
<1>1. start \in Applications(u.text) /\ start.edits = <<>> /\ <<>> \in Seq(Additions)
  <2>1. u.text \in Text /\ Len(u.text) \in Nat
    BY LenProperties DEF IsTextView, Text
  <2>2. /\ u.text \in Text /\ u.selected \in Nat /\ <<>> \in Seq(LocalEdit)
        /\ InRange(u.text, u.selected, 0)
    BY <2>1, EmptySeq DEF IsTextView, InRange
  <2>. QED  BY <2>2, EmptySeq DEF Applications
<1>2. <<>> \in T
  <2>1. Done(<<>>) = start
    BY Applying!LoopOfNothing
  <2>2. KeysInserted(<<>>) = KeysInserted(<<>>)
    OBVIOUS
  <2>3. Kept(start, <<>>)
    <3>. HIDE DEF start
    <3>. QED  BY <1>1
  <2>. HIDE DEF Done, Kept, start
  <2>. QED  BY <2>1, <2>3, EmptySeq
<1>3. ASSUME NEW t \in Seq(Held), t \in T, NEW e \in Held
      PROVE  Append(t, e) \in T
  <2>. DEFINE r == Done(t)
              v == ApplyBufferedEdit(r, e)
              longer == Append(t, e)
  <2>1. longer \in Seq(Held)
    BY AppendProperties
  <2>2. Done(longer) = v
    BY Applying!LoopOfAppend DEF Apply
  <2>3. /\ r \in Applications(u.text) /\ r.edits \in Seq(Additions)
        /\ r.raised \/ KeysInserted(r.edits) = KeysInserted(t)
    BY <1>3
  <2>. HIDE DEF r, Done
  <2>4. v \in Applications(u.text)
    BY <2>3, HeldFacts, ApplyingKeeps
  <2>5. /\ r.raised => v.raised
        /\ v.raised \/ /\ v.edits \in Seq(Additions)
                       /\ KeysInserted(v.edits) = KeysInserted(r.edits) + Weight(e)
    BY <2>3, ApplyingOneKeepsKeys
  <2>6. v.raised => v.edits = r.edits
    <3>1. CASE r.raised \/ ~InRange(r.text, r.cursor - e.length, e.length)
      <4>1. v = [r EXCEPT !.raised = TRUE]
        BY <3>1 DEF ApplyBufferedEdit
      <4>. HIDE DEF v
      <4>. QED  BY <2>3, <4>1 DEF Applications
    <3>2. CASE ~(r.raised \/ ~InRange(r.text, r.cursor - e.length, e.length))
      <4>1. v.raised = r.raised
        BY <2>3, <3>2 DEF ApplyBufferedEdit, Applications
      <4>. HIDE DEF v
      <4>. QED  BY <3>2, <4>1
    <3>. QED  BY <3>1, <3>2
  <2>7. KeysInserted(longer) = KeysInserted(t) + Weight(e)
    <3>1. t \in Seq(Action) /\ e \in Action
      BY HeldFacts
    <3>. QED  BY <3>1, KeysInsertedAppend
  <2>. HIDE DEF v, longer
  <2>8. /\ v.edits \in Seq(Additions)
        /\ v.raised \/ KeysInserted(v.edits) = KeysInserted(longer)
    BY <2>3, <2>5, <2>6, <2>7
  <2>9. Kept(Done(longer), longer)
    BY <2>2, <2>4, <2>8
  <2>. HIDE DEF Kept
  <2>. QED  BY <2>1, <2>9 DEF longer
<1>. HIDE DEF T
<1>4. Seq(Held) \subseteq T
  BY <1>2, <1>3, Applying!AllSequences
<1>5. Kept(Done(u.syncBuffer), u.syncBuffer)
  <2>. HIDE DEF Kept, Done
  <2>. QED  BY <1>4 DEF T
<1>6. BufferApplied(u) = Done(u.syncBuffer)
  BY DEF BufferApplied, Applying!Looped, Apply, FoldLeft, Applying!FoldLeft,
         MapThenFoldSet, Applying!MapThenFoldSet, Max, Applying!Max
<1>. HIDE DEF Done
<1>. QED  BY <1>5, <1>6

\* Nothing is selected, and nothing that was recorded or held back removes anything.
Unerased(u) ==
  /\ u.selectedLength = 0
  /\ u.currentEdit \in Seq(Additions)
  /\ u.syncBuffer \in Seq(Held)

\* The characters that wait in the delegate.
Waiting(u) == KeysInserted(u.currentEdit) + KeysInserted(u.syncBuffer)

\* What waited in u, and n characters more, wait in v or are in the series it sent.
Accounts(u, v, n) ==
  /\ Unerased(v)
  /\ \/ v.sent = <<>> /\ Waiting(v) = Waiting(u) + n
     \/ \E s \in Seq(Additions) :
          v.sent = <<s>> /\ Waiting(v) + KeysInserted(s) = Waiting(u) + n

LEMMA WaitingType ==
  ASSUME NEW u, Unerased(u)
  PROVE  /\ KeysInserted(u.currentEdit) \in Nat /\ KeysInserted(u.syncBuffer) \in Nat
         /\ Waiting(u) \in Nat
<1>1. u.currentEdit \in Seq(Action) /\ u.syncBuffer \in Seq(Action)
  BY AdditionFacts, HeldFacts DEF Unerased
<1>2. KeysInserted(u.currentEdit) \in Nat /\ KeysInserted(u.syncBuffer) \in Nat
  BY <1>1, KeysInsertedConcat
<1>. QED  BY <1>2 DEF Waiting

\* The insertion that is recorded of a key.
LEMMA KeyIsRecorded ==
  ASSUME NEW location \in Nat, NEW key \in Key
  PROVE  LET e == RangeAction(location, 0, <<key>>)
         IN e \in Held /\ e \in Additions /\ e \in Action /\ Weight(e) = 1
<1>. DEFINE text == <<key>>
            e == RangeAction(location, 0, text)
<1>1. text \in Text /\ KeysOf(text) = 1
  BY KeyAssumption, KeysOfOne DEF Text
<1>. HIDE DEF text
<1>2. e \in LocalEdit
  BY <1>1, RangeActionType
<1>3. e.type = "INSERT" /\ e.length = 0 /\ e.text = text
  BY DEF RangeAction, TextAction
<1>. HIDE DEF e
<1>4. e \in Held /\ Weight(e) = 1
  BY <1>1, <1>2, <1>3 DEF Held, Weight
<1>5. e \in Additions /\ e \in Action
  BY <1>4, HeldFacts
<1>. QED  BY <1>4, <1>5 DEF e, text

\* A key that is pressed is held back or recorded, and sends nothing.
LEMMA TypingKeepsKeys ==
  ASSUME NEW u, IsTextView(u), Unerased(u), u.sent = <<>>, NEW key \in Key
  PROVE  Accounts(u, TypeText(u, <<key>>), 1)
<1>. DEFINE text == <<key>>
            location == u.selected
            e == RangeAction(location, 0, text)
            v == TypeText(u, text)
<1>1. text \in Text /\ text # <<>> /\ location \in Nat /\ u.selectedLength = 0
  <2>1. Len(<<key>>) = 1 /\ Len(<<>>) = 0
    OBVIOUS
  <2>. QED  BY <2>1, KeyAssumption DEF Text, IsTextView, Unerased
<1>2. e \in Held /\ e \in Additions /\ e \in Action /\ Weight(e) = 1
  BY <1>1, KeyIsRecorded
<1>3. v = ReplaceRange(u, location, 0, text)
  BY <1>1 DEF TypeText
<1>4. /\ u.currentEdit \in Seq(Additions) /\ u.syncBuffer \in Seq(Held)
      /\ u.currentEdit \in Seq(Action) /\ u.syncBuffer \in Seq(Action)
      /\ KeysInserted(u.currentEdit) \in Nat /\ KeysInserted(u.syncBuffer) \in Nat
  BY AdditionFacts, HeldFacts, WaitingType DEF Unerased
<1>. HIDE DEF text, location
<1>5. CASE u.isSyncing
  <2>. DEFINE buffer == Append(u.syncBuffer, e)
              held == [u EXCEPT !.syncBuffer = buffer]
  <2>1. v = held
    BY <1>3, <1>5 DEF ReplaceRange, AllowsChange, ShouldChangeText, IsTextView, Fields
  <2>. HIDE DEF e, v
  <2>2. buffer \in Seq(Held) /\ KeysInserted(buffer) = KeysInserted(u.syncBuffer) + 1
    BY <1>2, <1>4, AppendProperties, KeysInsertedAppend
  <2>. HIDE DEF buffer
  <2>3. /\ held.syncBuffer = buffer /\ held.currentEdit = u.currentEdit
        /\ held.selectedLength = u.selectedLength /\ held.sent = u.sent
    BY DEF IsTextView, Fields
  <2>. HIDE DEF held
  <2>4. Waiting(held) = Waiting(u) + 1
    BY <1>4, <2>2, <2>3 DEF Waiting
  <2>5. Unerased(held)
    BY <1>1, <1>4, <2>2, <2>3 DEF Unerased
  <2>6. Accounts(u, v, 1)
    BY <2>1, <2>3, <2>4, <2>5 DEF Accounts
  <2>. QED  BY <2>6 DEF v, text
<1>6. CASE ~u.isSyncing
  <2>. DEFINE edits == u.currentEdit \o <<e>>
              more == u.fromInput + 1
              recorded == [u EXCEPT !.currentEdit = edits, !.timer = TRUE,
                                    !.fromInput = more, !.redoStack = <<>>]
              asked == ShouldChangeText(u, location, 0, text)
              spliced == Splice(u.text, location, 0, text)
              cursor == location + Len(text)
              changed == [asked EXCEPT !.text = spliced, !.selected = cursor,
                                       !.selectedLength = 0]
              reported == DidChangeSelection(changed)
  <2>1. /\ RecordedEdits(u, location, 0, text) = <<e>>
        /\ ReportedChanges(0, text) = 1
    BY DEF RecordedEdits, ReportedChanges
  <2>. HIDE DEF e
  <2>2. asked = recorded
    BY <1>1, <1>6, <2>1 DEF ShouldChangeText, IsTextView, Fields
  <2>3. u.fromInput \in Nat /\ more > 0 /\ more \in Nat
    BY DEF IsTextView
  <2>4. edits \in Seq(Additions) /\ KeysInserted(edits) = KeysInserted(u.currentEdit) + 1
    <3>1. edits = Append(u.currentEdit, e)
      BY <1>2, <1>4, AppendIsConcat
    <3>2. Append(u.currentEdit, e) \in Seq(Additions)
      BY <1>2, <1>4, AppendProperties
    <3>3. KeysInserted(Append(u.currentEdit, e)) = KeysInserted(u.currentEdit) + 1
      BY <1>2, <1>4, KeysInsertedAppend
    <3>. QED  BY <3>1, <3>2, <3>3
  <2>. HIDE DEF edits, more
  <2>5. /\ asked.text = u.text /\ asked.currentEdit = edits /\ asked.fromInput = more
        /\ asked.syncBuffer = u.syncBuffer /\ asked.sent = u.sent /\ DOMAIN asked = Fields
    <3>1. /\ recorded.text = u.text /\ recorded.currentEdit = edits
          /\ recorded.fromInput = more /\ recorded.syncBuffer = u.syncBuffer
          /\ recorded.sent = u.sent /\ DOMAIN recorded = Fields
      BY DEF IsTextView, Fields
    <3>. HIDE DEF recorded, asked
    <3>. QED  BY <2>2, <3>1
  <2>6. v = reported
    <3>. HIDE DEF asked
    <3>. DEFINE again == DidChangeSelection(reported)
                changes == ReportedChanges(0, text)
    <3>1. ReplaceRange(u, location, 0, text) = IF changes = 2 THEN again ELSE reported
      BY <1>1, <1>6, <2>5 DEF ReplaceRange, AllowsChange, asked
    <3>. HIDE DEF again, reported, v
    <3>. QED  BY <1>3, <2>1, <3>1
  <2>. HIDE DEF asked, spliced, cursor
  <2>7. /\ changed.currentEdit = edits /\ changed.fromInput = more
        /\ changed.syncBuffer = u.syncBuffer /\ changed.sent = u.sent
        /\ changed.selectedLength = 0 /\ DOMAIN changed = Fields
    BY <2>5 DEF Fields
  <2>. HIDE DEF changed
  <2>8. reported = [changed EXCEPT !.fromInput = more - 1, !.lastSelected = changed.selected]
    BY <2>3, <2>7 DEF DidChangeSelection, Fields
  <2>9. /\ reported.currentEdit = edits /\ reported.syncBuffer = u.syncBuffer
        /\ reported.sent = u.sent /\ reported.selectedLength = 0
    BY <2>7, <2>8 DEF Fields
  <2>. HIDE DEF reported, v
  <2>10. Waiting(reported) = Waiting(u) + 1
    BY <1>4, <2>4, <2>9 DEF Waiting
  <2>11. Unerased(reported)
    BY <1>4, <2>4, <2>9 DEF Unerased
  <2>12. Accounts(u, v, 1)
    BY <2>6, <2>9, <2>10, <2>11 DEF Accounts
  <2>. QED  BY <2>12 DEF v, text
<1>. QED  BY <1>5, <1>6

\* mergeCurrentEdit sends what was recorded, and does not raise.
LEMMA MergingSendsKeys ==
  ASSUME NEW u, IsTextView(u), Unerased(u), u.sent = <<>>, ~u.crashed
  PROVE  LET v == MergeCurrentEdit(u)
         IN ~v.crashed /\ Accounts(u, v, 0) /\ v.selected = u.selected /\ DOMAIN v = Fields
<1>1. KeysInserted(u.currentEdit) \in Nat /\ KeysInserted(u.syncBuffer) \in Nat
      /\ Waiting(u) \in Nat
  BY WaitingType
<1>2. CASE u.currentEdit = <<>>
  <2>1. MergeCurrentEdit(u) = u
    BY <1>2 DEF MergeCurrentEdit
  <2>2. Accounts(u, u, 0)
    BY <1>1 DEF Accounts
  <2>. QED  BY <2>1, <2>2 DEF IsTextView
<1>3. CASE u.currentEdit # <<>>
  <2>. DEFINE series == FinalEdits(u.currentEdit)
              raised == Resolved(u.currentEdit).raised
              sent == <<series>>
              v == [u EXCEPT !.isSyncing = TRUE, !.currentEdit = <<>>,
                             !.crashed = raised, !.sent = sent]
  <2>1. /\ ~raised
        /\ series \in Seq(Additions)
        /\ KeysInserted(series) = KeysInserted(u.currentEdit)
    BY FinalEditsKeepKeys DEF Unerased
  <2>2. MergeCurrentEdit(u) = v
    <3>1. Append(u.sent, series) = sent
      BY ShortSequences
    <3>2. /\ u.currentEdit # <<>>
          /\ MergeCurrentEdit(u)
              = [u EXCEPT !.isSyncing = TRUE, !.currentEdit = <<>>, !.crashed = raised,
                          !.sent = IF raised THEN u.sent ELSE Append(u.sent, series)]
      BY <1>3 DEF MergeCurrentEdit, IsTextView, Fields
    <3>. HIDE DEF sent, series, raised
    <3>. QED  BY <2>1, <3>1, <3>2
  <2>. HIDE DEF series, sent, raised
  <2>3. /\ v.currentEdit = <<>> /\ v.syncBuffer = u.syncBuffer /\ v.sent = sent
        /\ v.selectedLength = u.selectedLength /\ v.crashed = raised
        /\ v.selected = u.selected /\ DOMAIN v = Fields
    BY DEF IsTextView, Fields
  <2>. HIDE DEF v
  <2>4. Unerased(v)
    BY <2>3, EmptySeq DEF Unerased
  <2>5. Waiting(v) + KeysInserted(series) = Waiting(u) + 0
    BY <1>1, <2>1, <2>3, KeysInsertedOne DEF Waiting
  <2>6. Accounts(u, v, 0)
    BY <2>1, <2>3, <2>4, <2>5 DEF Accounts, sent
  <2>. QED  BY <2>1, <2>2, <2>3, <2>6
<1>. QED  BY <1>2, <1>3

\* Only what is not recorded and not held back changes.
LEMMA WaitingStays ==
  ASSUME NEW u, Unerased(u), NEW v,
         v.currentEdit = u.currentEdit, v.syncBuffer = u.syncBuffer, v.selectedLength = 0
  PROVE  /\ Unerased(v) /\ Waiting(v) = Waiting(u) /\ Waiting(u) \in Nat
         /\ v.sent = <<>> => Accounts(u, v, 0)
<1>1. Unerased(v) /\ Waiting(v) = Waiting(u) /\ Waiting(u) \in Nat
  BY WaitingType DEF Unerased, Waiting
<1>2. v.sent = <<>> => Accounts(u, v, 0)
  <2>1. Waiting(v) = Waiting(u) + 0
    BY <1>1
  <2>. QED  BY <1>1, <2>1 DEF Accounts
<1>. QED  BY <1>1, <1>2

\* A tap is ignored; or it sends what was recorded, and is recorded itself.
LEMMA TappingKeepsKeys ==
  ASSUME NEW u, IsTextView(u), Unerased(u), u.sent = <<>>, ~u.crashed,
         NEW location \in Nat, InRange(u.text, location, 0)
  PROVE  Accounts(u, Select(u, location, 0), 0)
<1>. DEFINE changed == [u EXCEPT !.selected = location, !.selectedLength = 0]
            v == DidChangeSelection(changed)
            cursor == CursorAction(location, NoUser)
<1>1. Select(u, location, 0) = v
  BY DEF Select
<1>2. /\ IsTextView(changed) /\ changed.selected = location /\ changed.sent = <<>>
      /\ ~changed.crashed /\ changed.selectedLength = 0
      /\ changed.currentEdit = u.currentEdit /\ changed.syncBuffer = u.syncBuffer
  BY DEF IsTextView, Fields
<1>3. /\ cursor \in Additions /\ cursor \in Action /\ Weight(cursor) = 0
  <2>1. cursor \in LocalEdit /\ cursor.type = "CURSOR"
    BY CursorActionType DEF CursorAction
  <2>. HIDE DEF cursor
  <2>2. cursor \in Additions /\ Weight(cursor) = 0
    BY <2>1 DEF Additions, Weight
  <2>. QED  BY <2>2, AdditionFacts
<1>. HIDE DEF changed, cursor
<1>4. /\ Unerased(changed) /\ Waiting(changed) = Waiting(u) /\ Waiting(u) \in Nat
      /\ Accounts(u, changed, 0)
  BY <1>2, WaitingStays
<1>5. CASE changed.fromInput > 0 \/ changed.selected = changed.lastSelected
  <2>. DEFINE fewer == IF changed.fromInput > 0 THEN changed.fromInput - 1
                                                ELSE changed.fromInput
              w == [changed EXCEPT !.fromInput = fewer, !.lastSelected = changed.selected]
  <2>1. v = w
    BY <1>2, <1>5 DEF DidChangeSelection, IsTextView, Fields
  <2>. HIDE DEF fewer
  <2>2. /\ w.currentEdit = u.currentEdit /\ w.syncBuffer = u.syncBuffer
        /\ w.selectedLength = 0 /\ w.sent = <<>>
    BY <1>2 DEF IsTextView, Fields
  <2>. HIDE DEF w, v
  <2>3. Accounts(u, w, 0)
    BY <2>2, WaitingStays
  <2>4. Accounts(u, v, 0)
    BY <2>1, <2>3
  <2>. QED  BY <1>1, <2>4 DEF v
<1>6. CASE ~(changed.fromInput > 0 \/ changed.selected = changed.lastSelected)
  <2>. DEFINE flushed == MergeCurrentEdit(changed)
              w == IF changed.currentEdit # <<>> /\ ~IsCursor(Head(changed.currentEdit))
                   THEN flushed ELSE changed
              edits == Append(w.currentEdit, cursor)
              r == [w EXCEPT !.timer = TRUE, !.currentEdit = edits,
                             !.lastSelected = changed.selected]
  <2>1. /\ ~flushed.crashed /\ Accounts(changed, flushed, 0)
        /\ flushed.selected = changed.selected /\ DOMAIN flushed = Fields
    BY <1>2, <1>4, MergingSendsKeys
  <2>2. Accounts(u, flushed, 0)
    BY <1>4, <2>1 DEF Accounts
  <2>. HIDE DEF flushed
  <2>3. ~w.crashed /\ Accounts(u, w, 0) /\ w.selected = location /\ DOMAIN w = Fields
    BY <1>2, <1>4, <2>1, <2>2 DEF IsTextView
  <2>4. v = r
    <3>1. v = IF w.crashed THEN w
              ELSE [w EXCEPT !.timer = TRUE,
                             !.currentEdit = Append(@, CursorAction(changed.selected, NoUser)),
                             !.lastSelected = changed.selected]
      BY <1>6 DEF DidChangeSelection, flushed
    <3>. HIDE DEF w
    <3>. QED  BY <1>2, <2>3, <3>1 DEF cursor, Fields
  <2>. HIDE DEF w, v
  <2>5. /\ Unerased(w) /\ w.currentEdit \in Seq(Additions) /\ w.currentEdit \in Seq(Action)
        /\ KeysInserted(w.currentEdit) \in Nat
    BY <2>3, AdditionFacts, WaitingType DEF Accounts, Unerased
  <2>6. edits \in Seq(Additions)
    BY <1>3, <2>5, AppendProperties
  <2>7. KeysInserted(edits) = KeysInserted(w.currentEdit)
    BY <1>3, <2>5, KeysInsertedAppend
  <2>. HIDE DEF edits
  <2>8. /\ r.currentEdit = edits /\ r.syncBuffer = w.syncBuffer /\ r.sent = w.sent
        /\ r.selectedLength = w.selectedLength
    BY <2>3 DEF Fields
  <2>. HIDE DEF r
  <2>9. Unerased(r) /\ Waiting(r) = Waiting(w)
    BY <2>5, <2>6, <2>7, <2>8 DEF Unerased, Waiting
  <2>10. Accounts(u, r, 0)
    BY <2>3, <2>8, <2>9 DEF Accounts
  <2>11. Accounts(u, v, 0)
    BY <2>4, <2>10
  <2>. QED  BY <1>1, <2>11 DEF v
<1>. QED  BY <1>5, <1>6

LEMMA TimerSendsKeys ==
  ASSUME NEW u, IsTextView(u), Unerased(u), u.sent = <<>>, ~u.crashed
  PROVE  ~TimerFired(u).crashed /\ Accounts(u, TimerFired(u), 0)
<1>. DEFINE stopped == [u EXCEPT !.timer = FALSE]
            v == MergeCurrentEdit(stopped)
<1>1. /\ IsTextView(stopped) /\ stopped.sent = <<>> /\ ~stopped.crashed
      /\ stopped.currentEdit = u.currentEdit /\ stopped.syncBuffer = u.syncBuffer
      /\ stopped.selectedLength = 0
  BY DEF IsTextView, Fields, Unerased
<1>2. TimerFired(u) = v
  BY DEF TimerFired
<1>. HIDE DEF stopped
<1>3. Unerased(stopped) /\ Waiting(stopped) = Waiting(u)
  BY <1>1, WaitingStays
<1>4. ~v.crashed /\ Accounts(stopped, v, 0)
  BY <1>1, <1>3, MergingSendsKeys
<1>. HIDE DEF v
<1>5. Accounts(u, v, 0)
  BY <1>3, <1>4 DEF Accounts
<1>. QED  BY <1>2, <1>4, <1>5

\* What was held back joins the current edit when the block runs.
LEMMA ShowingKeepsKeys ==
  ASSUME NEW u, IsTextView(u), Unerased(u), u.sent = <<>>, NEW d \in Document,
         NEW user \in Client, d.cursors[user] = NoCursor \/ d.cursors[user] >= 0
  PROVE  LET v == ShowDocument(u, d, user)
         IN v.crashed \/ Accounts(u, v, 0)
<1>. DEFINE place == IF d.cursors[user] = NoCursor THEN 0 ELSE d.cursors[user]
            selected == Min({place, Len(d.text)})
            shown == [u EXCEPT !.text = d.text, !.selected = selected, !.selectedLength = 0]
            s == BufferApplied(shown)
            edits == u.currentEdit \o s.edits
            v == ShowDocument(u, d, user)
<1>1. d.text \in Text /\ Len(d.text) \in Nat /\ place \in Nat
  <2>1. d.text \in Text /\ d.cursors[user] \in Int \cup {NoCursor}
    BY DEF Document, CursorMap
  <2>. QED  BY <2>1, LenProperties, NoCursorAssumption DEF Text
<1>. HIDE DEF place
<1>2. selected \in Nat /\ InRange(d.text, selected, 0)
  BY <1>1, MinOfTwo DEF InRange
<1>3. v = ApplyBufferedEdits(shown)
  BY DEF ShowDocument, ShowInTextView, place
<1>. HIDE DEF selected
<1>4. /\ IsTextView(shown) /\ shown.sent = <<>>
      /\ shown.currentEdit = u.currentEdit /\ shown.syncBuffer = u.syncBuffer
  BY <1>1, <1>2 DEF IsTextView, Fields
<1>. HIDE DEF shown
<1>5. s.raised \/ /\ s.edits \in Seq(Additions)
                  /\ KeysInserted(s.edits) = KeysInserted(u.syncBuffer)
  BY <1>4, ApplyingKeepsKeys DEF Unerased
<1>6. v = IF s.raised THEN [shown EXCEPT !.crashed = TRUE]
          ELSE [shown EXCEPT !.text = s.text, !.selected = s.cursor, !.selectedLength = 0,
                             !.currentEdit = edits, !.syncBuffer = <<>>,
                             !.isSyncing = FALSE]
  BY <1>3, <1>4 DEF ApplyBufferedEdits, IsTextView, Fields
<1>. HIDE DEF s, v
<1>7. CASE s.raised
  <2>1. v.crashed
    BY <1>4, <1>6, <1>7 DEF IsTextView, Fields
  <2>. QED  BY <2>1 DEF v
<1>8. CASE ~s.raised
  <2>1. /\ u.currentEdit \in Seq(Additions) /\ s.edits \in Seq(Additions)
        /\ u.currentEdit \in Seq(Action) /\ s.edits \in Seq(Action)
        /\ KeysInserted(u.currentEdit) \in Nat /\ KeysInserted(u.syncBuffer) \in Nat
    BY <1>5, <1>8, AdditionFacts, WaitingType DEF Unerased
  <2>2. edits \in Seq(Additions)
    BY <2>1, ConcatProperties
  <2>3. KeysInserted(edits) = KeysInserted(u.currentEdit) + KeysInserted(u.syncBuffer)
    BY <1>5, <1>8, <2>1, KeysInsertedConcat
  <2>. HIDE DEF edits
  <2>4. /\ v.currentEdit = edits /\ v.syncBuffer = <<>> /\ v.selectedLength = 0
        /\ v.sent = <<>>
    BY <1>4, <1>6, <1>8 DEF IsTextView, Fields
  <2>5. Unerased(v)
    BY <2>2, <2>4, EmptySeq DEF Unerased
  <2>6. Waiting(v) = Waiting(u) + 0
    BY <2>1, <2>3, <2>4, KeysInsertedOne DEF Waiting
  <2>7. Accounts(u, v, 0)
    BY <2>4, <2>5, <2>6 DEF Accounts
  <2>. QED  BY <2>7 DEF v
<1>. QED  BY <1>7, <1>8

----------------------------------------------------------------------------
(***************************************************************************)
(* What is on its way to a writer: its queue, and behind it what the       *)
(* server has put in the order since.                                      *)
(***************************************************************************)

\* What follows the first n elements.
LEMMA RestOfSequence ==
  ASSUME NEW S, NEW s \in Seq(S), NEW n \in 0 .. Len(s)
  PROVE  /\ SubSeq(s, n + 1, Len(s)) \in Seq(S)
         /\ Len(SubSeq(s, n + 1, Len(s))) = Len(s) - n
         /\ \A i \in 1 .. Len(s) - n : SubSeq(s, n + 1, Len(s))[i] = s[n + i]
<1>. DEFINE N == Len(s)
            rest == SubSeq(s, n + 1, N)
<1>1. N \in Nat /\ n \in Nat /\ n <= N
  BY LenProperties
<1>2. \A i \in 1 .. N : s[i] \in S
  BY ElementOfSeq
<1>. HIDE DEF N
<1>3. \A i \in n + 1 .. N : s[i] \in S
  BY <1>1, <1>2
<1>4. /\ rest \in Seq(S) /\ Len(rest) = IF n + 1 <= N THEN N - (n + 1) + 1 ELSE 0
      /\ \A i \in 1 .. N - (n + 1) + 1 : rest[i] = s[(n + 1) + i - 1]
  BY <1>1, <1>3, SubSeqProperties
<1>. HIDE DEF rest
<1>5. /\ rest \in Seq(S) /\ Len(rest) = N - n
      /\ \A i \in 1 .. N - n : rest[i] = s[n + i]
  BY <1>1, <1>4
<1>. QED  BY <1>5 DEF rest, N

LEMMA RestOfConcat ==
  ASSUME NEW S, NEW s \in Seq(S), NEW t \in Seq(S), NEW n \in 0 .. Len(s)
  PROVE  SubSeq(s \o t, n + 1, Len(s \o t)) = SubSeq(s, n + 1, Len(s)) \o t
<1>. DEFINE whole == s \o t
            rest == SubSeq(s, n + 1, Len(s))
            left == SubSeq(whole, n + 1, Len(whole))
            right == rest \o t
<1>1. Len(s) \in Nat /\ Len(t) \in Nat /\ n \in Nat /\ n <= Len(s)
  BY LenProperties
<1>2. /\ whole \in Seq(S) /\ Len(whole) = Len(s) + Len(t)
      /\ \A i \in 1 .. Len(s) + Len(t) : whole[i] = IF i <= Len(s) THEN s[i] ELSE t[i - Len(s)]
  BY ConcatProperties
<1>3. /\ rest \in Seq(S) /\ Len(rest) = Len(s) - n
      /\ \A i \in 1 .. Len(s) - n : rest[i] = s[n + i]
  BY RestOfSequence
<1>. HIDE DEF whole, rest
<1>4. /\ left \in Seq(S) /\ Len(left) = Len(s) + Len(t) - n
      /\ \A i \in 1 .. Len(s) + Len(t) - n : left[i] = whole[n + i]
  <2>1. n \in 0 .. Len(whole)
    BY <1>1, <1>2
  <2>2. /\ left \in Seq(S) /\ Len(left) = Len(whole) - n
        /\ \A i \in 1 .. Len(whole) - n : left[i] = whole[n + i]
    BY <1>2, <2>1, RestOfSequence
  <2>. HIDE DEF left
  <2>. QED  BY <1>2, <2>2
<1>5. /\ right \in Seq(S) /\ Len(right) = Len(rest) + Len(t)
      /\ \A i \in 1 .. Len(rest) + Len(t) :
           right[i] = IF i <= Len(rest) THEN rest[i] ELSE t[i - Len(rest)]
  BY <1>3, ConcatProperties
<1>. HIDE DEF left, right
<1>. DEFINE m == Len(s)
            k == Len(t)
<1>6. /\ m \in Nat /\ k \in Nat /\ n \in Nat /\ n <= m
      /\ Len(left) = m + k - n /\ Len(right) = m + k - n
      /\ Len(rest) = m - n
  BY <1>1, <1>3, <1>4, <1>5
<1>7. /\ \A i \in 1 .. m + k : whole[i] = IF i <= m THEN s[i] ELSE t[i - m]
      /\ \A i \in 1 .. m - n : rest[i] = s[n + i]
      /\ \A i \in 1 .. m + k - n : left[i] = whole[n + i]
      /\ \A i \in 1 .. m + k - n : right[i] = IF i <= m - n THEN rest[i] ELSE t[i - (m - n)]
  <2>1. Len(rest) + Len(t) = m + k - n
    BY <1>6
  <2>. QED  BY <1>2, <1>3, <1>4, <1>5, <1>6, <2>1
<1>. HIDE DEF m, k
<1>8. ASSUME NEW i \in 1 .. m + k - n
      PROVE  left[i] = right[i]
  <2>1. n + i \in 1 .. m + k /\ left[i] = whole[n + i]
    BY <1>6, <1>7
  <2>2. CASE i <= m - n
    <3>1. i \in 1 .. m - n /\ n + i <= m
      BY <1>6, <2>2
    <3>2. whole[n + i] = s[n + i] /\ rest[i] = s[n + i] /\ right[i] = rest[i]
      BY <1>7, <2>1, <2>2, <3>1
    <3>. QED  BY <2>1, <3>2
  <2>3. CASE ~(i <= m - n)
    <3>1. ~(n + i <= m) /\ (n + i) - m = i - (m - n)
      BY <1>6, <2>3
    <3>2. whole[n + i] = t[(n + i) - m] /\ right[i] = t[i - (m - n)]
      BY <1>7, <2>1, <2>3, <3>1
    <3>. QED  BY <2>1, <3>1, <3>2
  <2>. QED  BY <2>2, <2>3
<1>9. left = right
  <2>1. left \in Seq(S) /\ right \in Seq(S) /\ Len(left) = Len(right)
        /\ \A i \in 1 .. Len(left) : left[i] = right[i]
    BY <1>4, <1>5, <1>6, <1>8
  <2>. QED  BY <2>1, SeqEqual
<1>. QED  BY <1>9 DEF left, right, whole, rest

LEMMA RestBegins ==
  ASSUME NEW S, NEW s \in Seq(S), NEW n \in 0 .. Len(s) - 1
  PROVE  SubSeq(s, n + 1, Len(s)) = <<s[n + 1]>> \o SubSeq(s, (n + 1) + 1, Len(s))
<1>. DEFINE m == Len(s)
            left == SubSeq(s, n + 1, m)
            rest == SubSeq(s, (n + 1) + 1, m)
            x == s[n + 1]
            right == <<x>> \o rest
<1>1. m \in Nat /\ n \in 0 .. m /\ n + 1 \in 0 .. m /\ n + 1 \in 1 .. m /\ n \in Nat
  BY LenProperties
<1>2. x \in S
  BY <1>1, ElementOfSeq
<1>3. /\ left \in Seq(S) /\ Len(left) = m - n
      /\ \A i \in 1 .. m - n : left[i] = s[n + i]
  BY <1>1, RestOfSequence
<1>4. /\ rest \in Seq(S) /\ Len(rest) = m - (n + 1)
      /\ \A i \in 1 .. m - (n + 1) : rest[i] = s[(n + 1) + i]
  BY <1>1, RestOfSequence
<1>. HIDE DEF left, rest, x
<1>5. <<x>> \in Seq(S) /\ Len(<<x>>) = 1 /\ <<x>>[1] = x
  BY <1>2
<1>. DEFINE one == <<x>>
<1>. HIDE DEF one
<1>6. /\ right \in Seq(S) /\ Len(right) = Len(one) + Len(rest)
      /\ \A i \in 1 .. Len(one) + Len(rest) :
           right[i] = IF i <= Len(one) THEN one[i] ELSE rest[i - Len(one)]
  BY <1>4, <1>5, ConcatProperties DEF one
<1>7. Len(one) = 1 /\ one[1] = x
  BY <1>5 DEF one
<1>. HIDE DEF right, m
<1>8. /\ Len(right) = m - n
      /\ \A i \in 1 .. m - n : right[i] = IF i <= 1 THEN one[i] ELSE rest[i - 1]
  <2>1. Len(one) + Len(rest) = m - n
    BY <1>1, <1>4, <1>7
  <2>. QED  BY <1>6, <1>7, <2>1
<1>9. ASSUME NEW i \in 1 .. m - n
      PROVE  left[i] = right[i]
  <2>1. CASE i = 1
    BY <1>3, <1>7, <1>8, <2>1 DEF x
  <2>2. CASE i # 1
    <3>1. i - 1 \in 1 .. m - (n + 1) /\ (n + 1) + (i - 1) = n + i /\ ~(i <= 1)
      BY <1>1, <2>2
    <3>2. rest[i - 1] = s[n + i]
      BY <1>4, <3>1
    <3>. QED  BY <1>3, <1>8, <3>1, <3>2
  <2>. QED  BY <2>1, <2>2
<1>10. left = right
  <2>1. left \in Seq(S) /\ right \in Seq(S) /\ Len(left) = Len(right)
        /\ \A i \in 1 .. Len(left) : left[i] = right[i]
    BY <1>3, <1>6, <1>8, <1>9
  <2>. QED  BY <2>1, SeqEqual
<1>. QED  BY <1>10 DEF left, right, rest, x, m

\* The events divide the order.
LogDivides ==
  /\ \A n \in 1 .. Len(log) : log[n].from = Upto(n - 1) /\ log[n].from <= log[n].upto
  /\ Upto(Len(log)) = Len(order)

\* The queue of c is what follows in the order.
Follows(c) ==
  /\ 0 <= Rendered(c)
  /\ \A i \in 1 .. Len(incomingActions[c]) :
       incomingActions[c][i] = order[Rendered(c) + i]

QueueInv == LogDivides /\ \A c \in Writer : Follows(c)

LEMMA UptoFacts ==
  ASSUME SharedInv, LogDivides
  PROVE  /\ Len(log) \in Nat /\ Len(order) \in Nat
         /\ \A n \in 0 .. Len(log) : Upto(n) \in Nat /\ Upto(n) <= Len(order)
<1>1. Len(order) \in Nat /\ Len(log) \in Nat
  BY LenProperties DEF SharedInv
<1>2. ASSUME NEW n \in 0 .. Len(log)
      PROVE  Upto(n) \in Nat /\ Upto(n) <= Len(order)
  <2>1. CASE n = 0
    BY <1>1, <2>1 DEF Upto
  <2>2. CASE n # 0
    <3>1. n \in 1 .. Len(log)
      BY <1>1, <2>2
    <3>2. log[n] \in Event /\ log[n].upto <= Len(order)
      BY <3>1, ElementOfSeq DEF SharedInv
    <3>. QED  BY <2>2, <3>2 DEF Upto, Event
  <2>. QED  BY <2>1, <2>2
<1>. QED  BY <1>1, <1>2

LEMMA RenderedFacts ==
  ASSUME SharedInv, QueueInv, NEW c \in Writer
  PROVE  /\ delivered[c] \in 0 .. Len(log) /\ Len(incomingActions[c]) \in Nat
         /\ Rendered(c) \in Nat
         /\ Rendered(c) + Len(incomingActions[c]) = Upto(delivered[c])
         /\ Rendered(c) + Len(incomingActions[c]) <= Len(order)
         /\ UnderWay(c) \in Seq(WireAction)
<1>1. /\ c \in Client /\ Len(order) \in Nat /\ Len(log) \in Nat
      /\ Len(incomingActions[c]) \in Nat
  BY LenProperties, WriterAssumption DEF SharedInv
<1>2. delivered[c] \in 0 .. Len(log)
  BY <1>1 DEF SharedInv
<1>3. Upto(delivered[c]) \in Nat /\ Upto(delivered[c]) <= Len(order)
  BY <1>2, UptoFacts DEF QueueInv
<1>4. /\ Rendered(c) \in Nat
      /\ Rendered(c) + Len(incomingActions[c]) = Upto(delivered[c])
      /\ Rendered(c) + Len(incomingActions[c]) <= Len(order)
  BY <1>1, <1>2, <1>3 DEF Rendered, QueueInv, Follows
<1>5. UnderWay(c) \in Seq(WireAction)
  <2>. DEFINE first == Rendered(c) + 1
  <2>1. first \in Int /\ first >= 1
    BY <1>4
  <2>. HIDE DEF first
  <2>2. \A i \in first .. Len(order) : order[i] \in WireAction
    <3>1. \A i \in first .. Len(order) : i \in 1 .. Len(order)
      BY <1>1, <2>1
    <3>. QED  BY <3>1, ElementOfSeq DEF SharedInv
  <2>3. SubSeq(order, first, Len(order)) \in Seq(WireAction)
    BY <1>1, <2>1, <2>2, SubSeqProperties
  <2>. QED  BY <2>3 DEF UnderWay, first
<1>. QED  BY <1>1, <1>2, <1>4, <1>5

\* A step that neither broadcasts nor receives nor renders.
LEMMA QueueStays ==
  ASSUME QueueInv, UNCHANGED <<order, log, delivered, incomingActions>>
  PROVE  QueueInv' /\ \A c \in Writer : UnderWay(c)' = UnderWay(c)
<1>1. \A n : Upto(n)' = Upto(n)
  BY DEF Upto
<1>2. \A c : Rendered(c)' = Rendered(c)
  BY <1>1 DEF Rendered
<1>. QED  BY <1>1, <1>2 DEF QueueInv, LogDivides, Follows, UnderWay

\* What is broadcast is on its way to everyone.
LEMMA QueueGrows ==
  ASSUME SharedInv, QueueInv, NEW c \in Client, NEW series \in Seq(Action),
         c \in Writer => series \in Seq(LocalEdit),
         Broadcast(c, series), UNCHANGED <<delivered, incomingActions>>
  PROVE  /\ QueueInv'
         /\ \A d \in Writer : UnderWay(d)' = UnderWay(d) \o OnTheWireAll(c, series)
<1>. DEFINE sent  == OnTheWireAll(c, series)
            event == [from |-> Len(order), upto |-> Len(order) + Len(series)]
<1>1. /\ order \in Seq(WireAction) /\ Len(order) \in Nat
      /\ log \in Seq(Event) /\ Len(log) \in Nat
      /\ Len(series) \in Nat
  BY LenProperties DEF SharedInv
<1>2. sent \in Seq(WireAction) /\ Len(sent) = Len(series)
  BY WireActions
<1>3. order' = order \o sent /\ log' = Append(log, event)
  BY DEF Broadcast
<1>4. /\ event \in Event /\ event.from = Len(order)
      /\ event.upto = Len(order) + Len(series)
  BY <1>1 DEF Event
<1>. HIDE DEF sent, event
<1>5. /\ Len(order') = Len(order) + Len(series)
      /\ \A i \in 1 .. Len(order) : order'[i] = order[i]
  <2>. DEFINE extended == order \o sent
  <2>1. /\ Len(extended) = Len(order) + Len(sent)
        /\ \A i \in 1 .. Len(order) + Len(sent) :
             extended[i] = IF i <= Len(order) THEN order[i] ELSE sent[i - Len(order)]
    BY <1>1, <1>2, ConcatProperties
  <2>. HIDE DEF extended
  <2>2. /\ Len(extended) = Len(order) + Len(series)
        /\ \A i \in 1 .. Len(order) : extended[i] = order[i]
    BY <1>1, <1>2, <2>1
  <2>3. order' = extended
    BY <1>3 DEF extended
  <2>. QED  BY <2>2, <2>3
<1>6. /\ Len(log') = Len(log) + 1
      /\ \A n \in 1 .. Len(log) : log'[n] = log[n]
      /\ log'[Len(log) + 1] = event
  BY <1>1, <1>3, <1>4, AppendProperties
<1>7. \A n \in 0 .. Len(log) : Upto(n)' = Upto(n)
  BY <1>1, <1>6 DEF Upto
<1>8. LogDivides'
  <2>1. ASSUME NEW n \in 1 .. Len(log) + 1
        PROVE  log'[n].from = Upto(n - 1)' /\ log'[n].from <= log'[n].upto
    <3>1. n - 1 \in 0 .. Len(log) /\ Upto(n - 1)' = Upto(n - 1)
      BY <1>1, <1>7
    <3>2. CASE n = Len(log) + 1
      <4>1. Upto(n - 1) = Len(order)
        BY <1>1, <3>2 DEF QueueInv, LogDivides
      <4>. QED  BY <1>1, <1>4, <1>6, <3>1, <3>2, <4>1
    <3>3. CASE n \in 1 .. Len(log)
      <4>1. log[n].from = Upto(n - 1) /\ log[n].from <= log[n].upto
        BY <3>3 DEF QueueInv, LogDivides
      <4>2. log'[n] = log[n]
        BY <1>6, <3>3
      <4>. QED  BY <3>1, <4>1, <4>2
    <3>. QED  BY <1>1, <3>2, <3>3
  <2>2. Upto(Len(log))' = Len(order')
    BY <1>1, <1>4, <1>5, <1>6 DEF Upto
  <2>. QED  BY <1>1, <1>6, <2>1, <2>2 DEF LogDivides
<1>9. ASSUME NEW d \in Writer
      PROVE  Follows(d)' /\ UnderWay(d)' = UnderWay(d) \o sent
  <2>. DEFINE queue == incomingActions[d]
              done == Rendered(d)
  <2>1. /\ delivered[d] \in 0 .. Len(log) /\ Len(queue) \in Nat
        /\ done \in Nat /\ done + Len(queue) <= Len(order)
    BY RenderedFacts
  <2>2. Rendered(d)' = done
    BY <1>7, <2>1 DEF Rendered
  <2>. HIDE DEF done
  <2>3. ASSUME NEW i \in 1 .. Len(queue)
        PROVE  queue[i] = order'[done + i]
    <3>1. queue[i] = order[done + i]
      BY DEF QueueInv, Follows, done
    <3>2. done + i \in 1 .. Len(order)
      BY <1>1, <2>1
    <3>. QED  BY <1>5, <3>1, <3>2
  <2>4. Follows(d)'
    BY <2>1, <2>2, <2>3 DEF Follows
  <2>5. SubSeq(order', done + 1, Len(order'))
          = SubSeq(order, done + 1, Len(order)) \o sent
    <3>1. done \in 0 .. Len(order)
      BY <1>1, <2>1
    <3>2. SubSeq(order \o sent, done + 1, Len(order \o sent))
            = SubSeq(order, done + 1, Len(order)) \o sent
      <4>1. order \in Seq(WireAction) /\ sent \in Seq(WireAction)
        BY <1>1, <1>2
      <4>. QED  BY <3>1, <4>1, RestOfConcat
    <3>. QED  BY <1>3, <3>2
  <2>. QED  BY <2>2, <2>4, <2>5 DEF UnderWay, done
<1>. QED  BY <1>8, <1>9 DEF QueueInv, sent

\* What has arrived waits in the queue.
LEMMA QueueReceives ==
  ASSUME SharedInv, QueueInv, NEW c \in Writer, ReceiveEvent(c)
  PROVE  QueueInv' /\ \A d \in Writer : UnderWay(d)' = UnderWay(d)
<1>. DEFINE event == log[delivered[c] + 1]
            more  == SubSeq(order, event.from + 1, event.upto)
            queue == incomingActions[c]
            whole == queue \o more
<1>1. /\ c \in Client
      /\ order \in Seq(WireAction) /\ Len(order) \in Nat
      /\ log \in Seq(Event) /\ Len(log) \in Nat
      /\ queue \in Seq(WireAction) /\ Len(queue) \in Nat
      /\ delivered \in [Client -> Nat]
      /\ incomingActions \in [Client -> Seq(WireAction)]
  <2>1. c \in Client
    BY WriterAssumption
  <2>. QED  BY <2>1, LenProperties DEF SharedInv
<1>2. delivered[c] \in 0 .. Len(log) - 1 /\ delivered[c] + 1 \in 1 .. Len(log)
  <2>1. delivered[c] \in Nat /\ delivered[c] < Len(log)
    BY <1>1 DEF ReceiveEvent
  <2>. QED  BY <1>1, <2>1
<1>3. event \in Event
  BY <1>1, <1>2, ElementOfSeq
<1>4. /\ event.from = Upto(delivered[c])
      /\ event.upto = Upto(delivered[c] + 1)
      /\ event.from \in Nat /\ event.upto \in Nat
      /\ event.from <= event.upto /\ event.upto <= Len(order)
  <2>1. event.from = Upto((delivered[c] + 1) - 1) /\ event.from <= event.upto
    BY <1>2 DEF QueueInv, LogDivides
  <2>2. (delivered[c] + 1) - 1 = delivered[c] /\ delivered[c] + 1 # 0
    BY <1>2
  <2>3. event.upto = Upto(delivered[c] + 1)
    BY <2>2 DEF Upto
  <2>4. delivered[c] + 1 \in 0 .. Len(log)
    BY <1>1, <1>2
  <2>5. event.upto <= Len(order)
    BY <2>3, <2>4, UptoFacts DEF QueueInv
  <2>. QED  BY <1>3, <2>1, <2>2, <2>3, <2>5 DEF Event
<1>. HIDE DEF event
<1>5. /\ more \in Seq(WireAction)
      /\ Len(more) = event.upto - event.from
      /\ \A i \in 1 .. event.upto - event.from : more[i] = order[event.from + i]
  <2>. DEFINE first == event.from + 1
  <2>1. first \in Int /\ event.upto \in Int
    BY <1>4
  <2>2. \A i \in first .. event.upto : order[i] \in WireAction
    <3>1. \A i \in first .. event.upto : i \in 1 .. Len(order)
      BY <1>1, <1>4
    <3>. QED  BY <1>1, <3>1, ElementOfSeq
  <2>. HIDE DEF first
  <2>3. /\ more \in Seq(WireAction)
        /\ Len(more) = IF first <= event.upto THEN event.upto - first + 1 ELSE 0
        /\ \A i \in 1 .. event.upto - first + 1 : more[i] = order[first + i - 1]
    <3>1. /\ SubSeq(order, first, event.upto) \in Seq(WireAction)
          /\ Len(SubSeq(order, first, event.upto))
               = IF first <= event.upto THEN event.upto - first + 1 ELSE 0
          /\ \A i \in 1 .. event.upto - first + 1 :
               SubSeq(order, first, event.upto)[i] = order[first + i - 1]
      BY <2>1, <2>2, SubSeqProperties
    <3>. QED  BY <3>1 DEF first
  <2>. HIDE DEF more
  <2>4. first = event.from + 1 /\ event.upto - first + 1 = event.upto - event.from
    BY <1>4 DEF first
  <2>5. Len(more) = event.upto - event.from
    BY <1>4, <2>3, <2>4
  <2>6. ASSUME NEW i \in 1 .. event.upto - event.from
        PROVE  more[i] = order[event.from + i]
    <3>1. more[i] = order[first + i - 1]
      BY <2>3, <2>4
    <3>2. first + i - 1 = event.from + i
      BY <1>4, <2>4
    <3>. QED  BY <3>1, <3>2
  <2>. QED  BY <2>3, <2>5, <2>6
<1>. HIDE DEF more, queue
<1>6. /\ incomingActions' = [incomingActions EXCEPT ![c] = whole]
      /\ delivered' = [delivered EXCEPT ![c] = delivered[c] + 1]
      /\ order' = order /\ log' = log
  BY DEF ReceiveEvent, NextEvent, Enqueue, ActionsOf, serverVars, queue, more, event
<1>7. /\ Len(whole) = Len(queue) + Len(more)
      /\ \A i \in 1 .. Len(queue) + Len(more) :
           whole[i] = IF i <= Len(queue) THEN queue[i] ELSE more[i - Len(queue)]
  BY <1>1, <1>5, ConcatProperties
<1>. HIDE DEF whole
<1>8. \A n : Upto(n)' = Upto(n)
  BY <1>6 DEF Upto
<1>9. /\ delivered'[c] = delivered[c] + 1
      /\ incomingActions'[c] = whole
      /\ \A d \in Client : d # c => /\ delivered'[d] = delivered[d]
                                    /\ incomingActions'[d] = incomingActions[d]
  BY <1>1, <1>6
<1>10. Rendered(c) \in Nat /\ Rendered(c) + Len(queue) = event.from
  BY <1>4, RenderedFacts DEF queue
<1>11. Rendered(c)' = Rendered(c)
  <2>1. Rendered(c)' = Upto(delivered[c] + 1) - Len(whole)
    BY <1>8, <1>9 DEF Rendered
  <2>2. Len(whole) = Len(queue) + (event.upto - event.from)
    BY <1>5, <1>7
  <2>. DEFINE q == Len(queue)
              f == event.from
              t == event.upto
              r == Rendered(c)
              w == Len(whole)
  <2>3. q \in Nat /\ f \in Nat /\ t \in Nat /\ r \in Nat /\ r + q = f /\ w = q + (t - f)
    BY <1>1, <1>4, <1>10, <2>2
  <2>. HIDE DEF q, f, t, r, w
  <2>4. t - w = r
    BY <2>3
  <2>5. event.upto - Len(whole) = Rendered(c)
    BY <2>4 DEF t, w, r
  <2>. QED  BY <1>4, <2>1, <2>5
<1>12. Follows(c)'
  <2>1. ASSUME NEW i \in 1 .. Len(queue) + Len(more)
        PROVE  whole[i] = order[Rendered(c) + i]
    <3>1. i \in 1 .. Len(queue) + Len(more) /\ Len(more) \in Nat
      BY <1>4, <1>5
    <3>2. CASE i <= Len(queue)
      <4>1. i \in 1 .. Len(queue)
        BY <1>1, <3>1, <3>2
      <4>2. queue[i] = order[Rendered(c) + i]
        BY <4>1 DEF QueueInv, Follows, queue
      <4>. QED  BY <1>7, <3>1, <3>2, <4>2
    <3>3. CASE ~(i <= Len(queue))
      <4>1. i - Len(queue) \in 1 .. event.upto - event.from
        BY <1>1, <1>4, <1>5, <3>1, <3>3
      <4>2. more[i - Len(queue)] = order[event.from + (i - Len(queue))]
        BY <1>5, <4>1
      <4>3. event.from + (i - Len(queue)) = Rendered(c) + i
        BY <1>1, <1>4, <1>10, <3>1
      <4>4. whole[i] = more[i - Len(queue)]
        BY <1>7, <3>1, <3>3
      <4>. QED  BY <4>2, <4>3, <4>4
    <3>. QED  BY <3>2, <3>3
  <2>. QED  BY <1>6, <1>7, <1>9, <1>10, <1>11, <2>1 DEF Follows
<1>13. ASSUME NEW d \in Writer, d # c
       PROVE  Follows(d)' /\ Rendered(d)' = Rendered(d)
  <2>1. delivered'[d] = delivered[d] /\ incomingActions'[d] = incomingActions[d]
    BY <1>9, <1>13, WriterAssumption
  <2>2. Rendered(d)' = Rendered(d)
    BY <1>8, <2>1 DEF Rendered
  <2>. QED  BY <1>6, <2>1, <2>2 DEF QueueInv, Follows
<1>14. \A d \in Writer : Follows(d)' /\ Rendered(d)' = Rendered(d)
  BY <1>11, <1>12, <1>13
<1>. QED  BY <1>6, <1>8, <1>14 DEF QueueInv, LogDivides, UnderWay

\* What is rendered comes out of the queue, in the order.
LEMMA QueueShrinks ==
  ASSUME SharedInv, QueueInv, NEW c \in Writer, RenderNext(c) \/ StacksRaise(c)
  PROVE  /\ QueueInv'
         /\ Head(incomingActions[c]) = order[Rendered(c) + 1]
         /\ Rendered(c) + 1 \in 1 .. Len(order)
         /\ UnderWay(c) = <<Head(incomingActions[c])>> \o UnderWay(c)'
         /\ UnderWay(c)' \in Seq(WireAction)
         /\ \A d \in Writer : d # c => UnderWay(d)' = UnderWay(d)
<1>. DEFINE queue == incomingActions[c]
            rest  == Tail(queue)
            done  == Rendered(c)
<1>1. /\ c \in Client
      /\ order \in Seq(WireAction) /\ Len(order) \in Nat
      /\ queue \in Seq(WireAction) /\ Len(queue) \in Nat
      /\ incomingActions \in [Client -> Seq(WireAction)]
  <2>1. c \in Client
    BY WriterAssumption
  <2>. QED  BY <2>1, LenProperties DEF SharedInv
<1>2. queue # <<>>
  BY DEF RenderNext, StacksRaise
<1>3. /\ Len(queue) # 0
      /\ Head(queue) = queue[1]
      /\ Len(rest) = Len(queue) - 1
      /\ \A i \in 1 .. Len(rest) : rest[i] = queue[i + 1]
  BY <1>1, <1>2, EmptySeq, HeadTailProperties
<1>4. /\ done \in Nat
      /\ done + Len(queue) = Upto(delivered[c])
      /\ done + Len(queue) <= Len(order)
  BY RenderedFacts
<1>5. /\ incomingActions' = [incomingActions EXCEPT ![c] = rest]
      /\ order' = order /\ log' = log /\ delivered' = delivered
  BY DEF RenderNext, StacksRaise, serverVars
<1>6. \A i \in 1 .. Len(queue) : queue[i] = order[done + i]
  BY DEF QueueInv, Follows
<1>7. \A n : Upto(n)' = Upto(n)
  BY <1>5 DEF Upto
<1>8. /\ incomingActions'[c] = rest
      /\ \A d \in Client : d # c => incomingActions'[d] = incomingActions[d]
  BY <1>1, <1>5
<1>9. Rendered(c)' = Upto(delivered[c]) - Len(rest)
  BY <1>5, <1>7, <1>8 DEF Rendered
<1>. HIDE DEF queue, rest, done
<1>10. Rendered(c)' = done + 1
  BY <1>1, <1>3, <1>4, <1>9
<1>11. Follows(c)'
  <2>1. ASSUME NEW i \in 1 .. Len(queue) - 1
        PROVE  rest[i] = order[(done + 1) + i]
    <3>1. i + 1 \in 1 .. Len(queue) /\ rest[i] = queue[i + 1]
      BY <1>1, <1>3
    <3>2. queue[i + 1] = order[done + (i + 1)]
      BY <1>6, <3>1
    <3>3. done + (i + 1) = (done + 1) + i
      BY <1>4
    <3>. QED  BY <3>1, <3>2, <3>3
  <2>2. 0 <= done + 1
    BY <1>4
  <2>. QED  BY <1>3, <1>5, <1>8, <1>10, <2>1, <2>2 DEF Follows
<1>12. ASSUME NEW d \in Writer, d # c
       PROVE  Follows(d)' /\ Rendered(d)' = Rendered(d)
  <2>1. delivered'[d] = delivered[d] /\ incomingActions'[d] = incomingActions[d]
    BY <1>5, <1>8, <1>12, WriterAssumption
  <2>2. Rendered(d)' = Rendered(d)
    BY <1>7, <2>1 DEF Rendered
  <2>. QED  BY <1>5, <2>1, <2>2 DEF QueueInv, Follows
<1>13. LogDivides'
  BY <1>5, <1>7 DEF QueueInv, LogDivides
<1>14. /\ Head(queue) = order[done + 1] /\ done + 1 \in 1 .. Len(order)
       /\ UnderWay(c) = <<Head(queue)>> \o UnderWay(c)'
       /\ UnderWay(c)' \in Seq(WireAction)
  <2>1. done \in 0 .. Len(order) - 1
    BY <1>1, <1>3, <1>4
  <2>2. SubSeq(order, done + 1, Len(order))
          = <<order[done + 1]>> \o SubSeq(order, (done + 1) + 1, Len(order))
    BY <1>1, <2>1, RestBegins
  <2>3. Head(queue) = order[done + 1]
    <3>1. 1 \in 1 .. Len(queue)
      BY <1>1, <1>3
    <3>. QED  BY <1>3, <1>6, <3>1
  <2>4. UnderWay(c) = SubSeq(order, done + 1, Len(order))
    BY DEF UnderWay, done
  <2>5. UnderWay(c)' = SubSeq(order, (done + 1) + 1, Len(order))
    BY <1>5, <1>10 DEF UnderWay
  <2>6. done + 1 \in 0 .. Len(order) /\ done + 1 \in 1 .. Len(order)
    BY <1>1, <2>1
  <2>7. SubSeq(order, (done + 1) + 1, Len(order)) \in Seq(WireAction)
    BY <1>1, <2>6, RestOfSequence
  <2>. QED  BY <2>2, <2>3, <2>4, <2>5, <2>6, <2>7
<1>. QED  BY <1>5, <1>11, <1>12, <1>13, <1>14 DEF QueueInv, UnderWay, queue, done

LEMMA NothingIsQueued ==
  ASSUME WInit
  PROVE  QueueInv
<1>1. order = <<>> /\ log = <<>> /\ Len(<<>>) = 0
  BY DEF WInit, Init
<1>2. \A c \in Writer : incomingActions[c] = <<>> /\ delivered[c] = 0
  BY WriterAssumption DEF WInit, Init
<1>3. LogDivides
  <2>1. \A n \in 1 .. Len(log) : FALSE
    BY <1>1
  <2>. QED  BY <1>1, <2>1 DEF LogDivides, Upto
<1>4. ASSUME NEW c \in Writer
      PROVE  Follows(c)
  <2>1. Rendered(c) = 0
    BY <1>1, <1>2 DEF Rendered, Upto
  <2>2. \A i \in 1 .. Len(incomingActions[c]) : FALSE
    BY <1>1, <1>2
  <2>. QED  BY <2>1, <2>2 DEF Follows
<1>. QED  BY <1>3, <1>4 DEF QueueInv

----------------------------------------------------------------------------
(***************************************************************************)
(* The balance of a writer.  While it is in a session that is open, has    *)
(* erased nothing and has not crashed, nothing that it typed is missing.   *)
(***************************************************************************)

Going(c) ==
  CanBroadcast(c) /\ membership[c] = "in" /\ ~erased[c] /\ ~ui[c].crashed

Kept(c) ==
  Going(c) =>
    /\ Unerased(ui[c])
    /\ order \in Seq(Harmless(c))
    /\ typed[c] = KeysOf(globalTruthText[c]) + OwnKeys(c, UnderWay(c)) + Waiting(ui[c])

KeptInv ==
  /\ QueueInv
  /\ typed \in [Writer -> Nat]
  /\ erased \in [Writer -> BOOLEAN]
  /\ \A c \in Writer : Kept(c)

\* The delegate has the same edits.
SameEdits(u, v) ==
  /\ v.currentEdit = u.currentEdit /\ v.syncBuffer = u.syncBuffer
  /\ v.selectedLength = u.selectedLength /\ v.crashed = u.crashed

LEMMA SameEditsWait ==
  ASSUME NEW u, NEW v, SameEdits(u, v)
  PROVE  /\ Waiting(v) = Waiting(u) /\ (Unerased(v) <=> Unerased(u))
BY DEF SameEdits, Waiting, Unerased

LEMMA BalanceTypes ==
  ASSUME WInv, QueueInv, NEW c \in Writer
  PROVE  /\ KeysOf(globalTruthText[c]) \in Nat
         /\ UnderWay(c) \in Seq(Action) /\ OwnKeys(c, UnderWay(c)) \in Nat
         /\ Unerased(ui[c]) => Waiting(ui[c]) \in Nat
<1>1. globalTruthText[c] \in Text
  BY WriterAssumption DEF WInv, SharedInv
<1>2. KeysOf(globalTruthText[c]) \in Nat
  BY <1>1, KeysOfConcat
<1>3. UnderWay(c) \in Seq(Action)
  <2>1. WireAction \subseteq Action
    BY DEF WireAction, SentAction
  <2>2. UnderWay(c) \in Seq(WireAction)
    BY RenderedFacts DEF WInv
  <2>. QED  BY <2>1, <2>2
<1>4. OwnKeys(c, UnderWay(c)) \in Nat
  BY <1>3, OwnKeysConcat
<1>. QED  BY <1>2, <1>3, <1>4, WaitingType

\* A step that neither renders nor types nor broadcasts, or ends the session.
LEMMA BalanceStays ==
  ASSUME NEW c \in Writer, Kept(c), UnderWay(c)' = UnderWay(c), order' = order,
         Going(c)' => /\ Going(c) /\ typed'[c] = typed[c]
                      /\ globalTruthText'[c] = globalTruthText[c]
                      /\ SameEdits(ui[c], ui'[c])
  PROVE  Kept(c)'
<1>. SUFFICES ASSUME Going(c)'
              PROVE  /\ Unerased(ui'[c])
                     /\ order' \in Seq(Harmless(c))
                     /\ typed'[c] = KeysOf(globalTruthText'[c])
                                      + OwnKeys(c, UnderWay(c)') + Waiting(ui'[c])
  BY DEF Kept
<1>1. /\ Unerased(ui[c]) /\ order \in Seq(Harmless(c))
      /\ typed[c] = KeysOf(globalTruthText[c]) + OwnKeys(c, UnderWay(c)) + Waiting(ui[c])
  BY DEF Kept
<1>2. Waiting(ui'[c]) = Waiting(ui[c]) /\ Unerased(ui'[c])
  BY <1>1, SameEditsWait
<1>. QED  BY <1>1, <1>2

\* What is broadcast is on its way to a writer, behind what was before.
LEMMA BalanceOfSending ==
  ASSUME WInv, QueueInv, NEW c \in Writer, order \in Seq(Harmless(c)),
         NEW sent \in Seq(Harmless(c)), order' = order \o sent,
         UnderWay(c)' = UnderWay(c) \o sent
  PROVE  /\ order' \in Seq(Harmless(c))
         /\ OwnKeys(c, sent) \in Nat
         /\ OwnKeys(c, UnderWay(c)') = OwnKeys(c, UnderWay(c)) + OwnKeys(c, sent)
<1>1. order \o sent \in Seq(Harmless(c))
  BY ConcatProperties
<1>2. sent \in Seq(Action)
  <2>1. Harmless(c) \subseteq Action
    BY DEF Harmless, WireAction, SentAction
  <2>. QED  BY <2>1
<1>3. UnderWay(c) \in Seq(Action)
  BY BalanceTypes
<1>4. /\ OwnKeys(c, sent) \in Nat
      /\ OwnKeys(c, UnderWay(c) \o sent) = OwnKeys(c, UnderWay(c)) + OwnKeys(c, sent)
  BY <1>2, <1>3, OwnKeysConcat
<1>. QED  BY <1>1, <1>4

\* A turn of the main thread that leaves the delegate as u: what it sends is put
\* in the order, because a writer that goes on can broadcast.
LEMMA TurnKeepsBalance ==
  ASSUME ~FaultyNetwork, WInv, QueueInv, NEW c \in Writer, ~ui[c].crashed,
         Kept(c), typed[c] \in Nat,
         NEW u, IsTextView(u), IsSent(u.sent), NEW n \in Nat,
         SameEdits(u, ui'[c]),
         ~erased'[c] => /\ ~erased[c] /\ typed'[c] = typed[c] + n
                        /\ Going(c) => u.crashed \/ Accounts(ui[c], u, n),
         \/ (u.crashed \/ u.sent = <<>>) /\ UNCHANGED <<order, log>>
         \/ u.sent # <<>> /\ SendActions(c, u.sent[1]),
         UNCHANGED <<membership, delivered, incomingActions, globalTruthText>>
  PROVE  QueueInv' /\ Kept(c)'
<1>. DEFINE series == u.sent[1]
            keys == KeysOf(globalTruthText[c])
            under == OwnKeys(c, UnderWay(c))
<1>1. keys \in Nat /\ under \in Nat
  BY BalanceTypes
<1>2. Going(c)' => /\ Going(c) /\ ~u.crashed /\ CanBroadcast(c)
                   /\ typed'[c] = typed[c] + n /\ Accounts(ui[c], u, n)
  <2>. SUFFICES ASSUME Going(c)'
                PROVE  /\ Going(c) /\ ~u.crashed /\ CanBroadcast(c)
                       /\ typed'[c] = typed[c] + n /\ Accounts(ui[c], u, n)
    OBVIOUS
  <2>1. ~erased'[c] /\ ~ui'[c].crashed /\ membership'[c] = "in" /\ CanBroadcast(c)'
    BY DEF Going
  <2>2. ~u.crashed /\ membership[c] = "in" /\ CanBroadcast(c)
    BY <2>1 DEF SameEdits, CanBroadcast, SessionOpen
  <2>3. Going(c)
    BY <2>1, <2>2 DEF Going
  <2>. QED  BY <2>1, <2>2, <2>3
<1>3. Going(c) =>
        /\ Unerased(ui[c]) /\ order \in Seq(Harmless(c))
        /\ typed[c] = keys + under + Waiting(ui[c]) /\ Waiting(ui[c]) \in Nat
  BY BalanceTypes DEF Kept
<1>4. Waiting(ui'[c]) = Waiting(u) /\ (Unerased(ui'[c]) <=> Unerased(u))
  BY SameEditsWait
<1>5. KeysOf(globalTruthText'[c]) = keys
  OBVIOUS
<1>. HIDE DEF keys
<1>6. CASE UNCHANGED <<order, log>> /\ (u.crashed \/ u.sent = <<>>)
  <2>1. QueueInv' /\ UnderWay(c)' = UnderWay(c)
    BY <1>6, QueueStays
  <2>2. ASSUME Going(c)'
        PROVE  /\ Unerased(ui'[c]) /\ order' \in Seq(Harmless(c))
               /\ typed'[c] = keys + OwnKeys(c, UnderWay(c)') + Waiting(ui'[c])
    <3>1. u.sent = <<>> /\ Unerased(u) /\ Waiting(u) = Waiting(ui[c]) + n
      <4>1. Accounts(ui[c], u, n) /\ u.sent = <<>>
        BY <1>2, <1>6, <2>2
      <4>2. \A s : <<>> # <<s>>
        OBVIOUS
      <4>. QED  BY <4>1, <4>2 DEF Accounts
    <3>2. OwnKeys(c, UnderWay(c)') = under
      BY <2>1
    <3>3. typed'[c] = typed[c] + n /\ Going(c)
      BY <1>2, <2>2
    <3>4. order' \in Seq(Harmless(c)) /\ Unerased(ui'[c])
      BY <1>3, <1>4, <1>6, <3>1, <3>3
    <3>. HIDE DEF under
    <3>5. typed'[c] = keys + under + Waiting(u)
      BY <1>1, <1>3, <3>1, <3>3
    <3>. QED  BY <1>4, <3>2, <3>4, <3>5
  <2>. QED  BY <1>5, <2>1, <2>2 DEF Kept
<1>7. CASE u.sent # <<>> /\ SendActions(c, series)
  <2>1. series \in Seq(LocalEdit) /\ series \in Seq(Action) /\ c \in Client
    BY <1>7, SentSeries, WriterAssumption
  <2>. DEFINE sent == OnTheWireAll(c, series)
  <2>2. CASE Broadcast(c, series)
    <3>1. QueueInv' /\ UnderWay(c)' = UnderWay(c) \o sent
      BY <2>1, <2>2, QueueGrows DEF WInv
    <3>2. order' = order \o sent
      BY <2>2 DEF Broadcast
    <3>3. ASSUME Going(c)'
          PROVE  /\ Unerased(ui'[c]) /\ order' \in Seq(Harmless(c))
                 /\ typed'[c] = keys + OwnKeys(c, UnderWay(c)') + Waiting(ui'[c])
      <4>1. /\ Accounts(ui[c], u, n) /\ Going(c) /\ typed'[c] = typed[c] + n
        BY <1>2, <3>3
      <4>2. PICK s \in Seq(Additions) :
              u.sent = <<s>> /\ Waiting(u) + KeysInserted(s) = Waiting(ui[c]) + n
        BY <1>7, <4>1 DEF Accounts
      <4>3. series = s /\ Unerased(u)
        BY <4>1, <4>2 DEF Accounts
      <4>4. sent \in Seq(Harmless(c)) /\ OwnKeys(c, sent) = KeysInserted(s)
        BY <4>3, OwnSeriesIsHarmless
      <4>. HIDE DEF sent
      <4>5. /\ order' \in Seq(Harmless(c)) /\ OwnKeys(c, sent) \in Nat
            /\ OwnKeys(c, UnderWay(c)') = under + OwnKeys(c, sent)
        BY <1>3, <3>1, <3>2, <4>1, <4>4, BalanceOfSending
      <4>6. Waiting(u) \in Nat /\ KeysInserted(s) \in Nat
        BY <4>3, <4>4, <4>5, WaitingType
      <4>. HIDE DEF under
      <4>7. typed'[c] = keys + (under + KeysInserted(s)) + Waiting(u)
        <5>. DEFINE t == typed[c]
                    w == Waiting(ui[c])
                    x == Waiting(u)
                    k == KeysInserted(s)
        <5>1. /\ t = keys + under + w /\ w \in Nat /\ x + k = w + n
              /\ x \in Nat /\ k \in Nat /\ keys \in Nat /\ under \in Nat
          BY <1>1, <1>3, <4>1, <4>2, <4>6
        <5>2. typed'[c] = t + n
          BY <4>1
        <5>. HIDE DEF t, w, x, k
        <5>3. t + n = keys + (under + k) + x
          <6>1. t + n = keys + under + (w + n)
            BY <5>1
          <6>2. keys + under + (x + k) = keys + (under + k) + x
            BY <5>1
          <6>. QED  BY <5>1, <6>1, <6>2
        <5>. QED  BY <5>2, <5>3 DEF x, k
      <4>. QED  BY <1>4, <4>3, <4>4, <4>5, <4>7
    <3>. QED  BY <1>5, <3>1, <3>3 DEF Kept
  <2>3. CASE BroadcastFails(c)
    <3>1. ~CanBroadcast(c) /\ UNCHANGED <<order, log>>
      BY <2>3 DEF BroadcastFails, serverVars
    <3>2. QueueInv'
      BY <3>1, QueueStays
    <3>3. ~Going(c)'
      BY <1>2, <3>1
    <3>. QED  BY <3>2, <3>3 DEF Kept
  <2>. QED  BY <1>7, <2>2, <2>3 DEF SendActions
<1>. QED  BY <1>6, <1>7

\* What an input does to the balance: n characters are typed, if any, and nothing
\* is erased unless that is noted.
LEMMA InputKeepsBalance ==
  ASSUME ~FaultyNetwork, WInv, KeptInv, NEW c \in Writer, ~ui[c].crashed,
         NEW u, Recorded(ui[c], u), Input(c, u), NEW n \in Nat,
         ~erased'[c] => /\ ~erased[c] /\ typed'[c] = typed[c] + n
                        /\ Going(c) => u.crashed \/ Accounts(ui[c], u, n)
  PROVE  QueueInv' /\ Kept(c)'
<1>1. IsTextView(u) /\ IsSent(u.sent)
  BY DEF Recorded
<1>2. SameEdits(u, ui'[c])
  <2>. DEFINE v == [u EXCEPT !.sent = <<>>]
  <2>1. SameEdits(u, v)
    BY <1>1 DEF SameEdits, IsTextView, Fields
  <2>2. ui'[c] = v
    BY DEF Input, Turn, WInv, DeviceInv
  <2>. QED  BY <2>1, <2>2
<1>3. UNCHANGED <<membership, delivered, incomingActions, globalTruthText>>
  BY DEF Input, Quiet, StartsTimer, Edit, Flushes, FlushSends, vars, documentVars
<1>4. \/ u.sent = <<>> /\ UNCHANGED <<order, log>>
      \/ u.sent # <<>> /\ SendActions(c, u.sent[1])
  BY DEF Input, Quiet, StartsTimer, Edit, Flushes, FlushSends, vars, serverVars
<1>5. QueueInv /\ Kept(c) /\ typed[c] \in Nat
  BY DEF KeptInv
<1>. QED  BY <1>1, <1>2, <1>3, <1>4, <1>5, TurnKeepsBalance

LEMMA PressingKeepsBalance ==
  ASSUME ~FaultyNetwork, WInv, KeptInv, NEW c \in Writer, ~ui[c].crashed,
         TypeKey(c) \/ PressBackspace(c) \/ Tap(c)
  PROVE  QueueInv' /\ Kept(c)'
<1>1. IsTextView(ui[c]) /\ ui[c].sent = <<>>
  BY DEF WInv, DeviceInv, DeviceAt
<1>2. typed \in [Writer -> Nat] /\ erased \in [Writer -> BOOLEAN]
  BY DEF KeptInv
<1>3. Going(c) => Unerased(ui[c])
  BY DEF KeptInv, Kept
<1>4. CASE TypeKey(c)
  <2>1. PICK key \in Key : /\ Input(c, TypeText(ui[c], <<key>>))
                           /\ typed' = [typed EXCEPT ![c] = typed[c] + 1]
                           /\ erased' = erased
    BY <1>4 DEF TypeKey
  <2>. DEFINE u == TypeText(ui[c], <<key>>)
  <2>2. u \in Inputs(ui[c])
    <3>1. <<key>> \in Text
      BY KeyAssumption DEF Text
    <3>. QED  BY <3>1 DEF Inputs
  <2>3. Recorded(ui[c], u)
    BY <1>1, <2>2, InputRecords
  <2>4. Going(c) => Accounts(ui[c], u, 1)
    BY <1>1, <1>3, TypingKeepsKeys
  <2>. HIDE DEF u
  <2>5. typed'[c] = typed[c] + 1 /\ erased'[c] = erased[c] /\ 1 \in Nat
    BY <1>2, <2>1
  <2>6. Input(c, u)
    BY <2>1 DEF u
  <2>. QED  BY <2>3, <2>4, <2>5, <2>6, InputKeepsBalance
<1>5. CASE PressBackspace(c)
  <2>. DEFINE u == Backspace(ui[c])
  <2>1. Input(c, u) /\ erased' = [erased EXCEPT ![c] = TRUE]
    BY <1>5 DEF PressBackspace
  <2>2. Recorded(ui[c], u)
    BY <1>1, InputRecords DEF Inputs
  <2>. HIDE DEF u
  <2>3. erased'[c] = TRUE /\ 0 \in Nat
    BY <1>2, <2>1
  <2>. QED  BY <2>1, <2>2, <2>3, InputKeepsBalance
<1>6. CASE Tap(c)
  <2>1. PICK location \in 0 .. Len(ui[c].text) :
          Input(c, Select(ui[c], location, 0)) /\ typed' = typed /\ erased' = erased
    BY <1>6 DEF Tap
  <2>. DEFINE u == Select(ui[c], location, 0)
  <2>2. Recorded(ui[c], u)
    BY <1>1, InputRecords DEF Inputs
  <2>3. location \in Nat /\ InRange(ui[c].text, location, 0)
    <3>1. Len(ui[c].text) \in Nat
      BY <1>1, LenProperties DEF IsTextView, Text
    <3>. QED  BY <3>1 DEF InRange
  <2>4. Going(c) => Accounts(ui[c], u, 0)
    BY <1>1, <1>3, <2>3, TappingKeepsKeys
  <2>. HIDE DEF u
  <2>5. typed'[c] = typed[c] + 0 /\ erased'[c] = erased[c] /\ 0 \in Nat
    BY <1>2, <2>1
  <2>6. Input(c, u)
    BY <2>1 DEF u
  <2>. QED  BY <2>2, <2>4, <2>5, <2>6, InputKeepsBalance
<1>. QED  BY <1>4, <1>5, <1>6

LEMMA TimerKeepsBalance ==
  ASSUME ~FaultyNetwork, WInv, KeptInv, NEW c \in Writer, ~ui[c].crashed,
         TimerExpires(c)
  PROVE  QueueInv' /\ Kept(c)'
<1>. DEFINE u == TimerFired(ui[c])
<1>1. IsTextView(ui[c]) /\ ui[c].sent = <<>> /\ ui[c].currentEdit # <<>>
  BY DEF WInv, DeviceInv, DeviceAt, TimerExpires
<1>2. IsTextView(u) /\ IsSent(u.sent) /\ (u.crashed \/ u.sent # <<>>)
  BY <1>1, TimerSendsAll
<1>3. /\ Turn(c, u)
      /\ IF u.crashed THEN UNCHANGED vars ELSE TimerSends(c, u.sent[1])
      /\ typed' = typed /\ erased' = erased
  BY DEF TimerExpires
<1>4. Going(c) => Accounts(ui[c], u, 0)
  <2>1. Going(c) => Unerased(ui[c])
    BY DEF KeptInv, Kept
  <2>. QED  BY <1>1, <2>1, TimerSendsKeys
<1>. HIDE DEF u
<1>5. SameEdits(u, ui'[c])
  <2>. DEFINE v == [u EXCEPT !.sent = <<>>]
  <2>1. SameEdits(u, v)
    BY <1>2 DEF SameEdits, IsTextView, Fields
  <2>2. ui'[c] = v
    BY <1>3 DEF Turn, WInv, DeviceInv
  <2>. QED  BY <2>1, <2>2
<1>6. UNCHANGED <<membership, delivered, incomingActions, globalTruthText>>
  BY <1>3 DEF TimerSends, vars, documentVars
<1>7. \/ u.crashed /\ UNCHANGED <<order, log>>
      \/ u.sent # <<>> /\ SendActions(c, u.sent[1])
  BY <1>2, <1>3 DEF TimerSends, vars
<1>8. QueueInv /\ Kept(c) /\ typed[c] \in Nat
  BY DEF KeptInv
<1>9. 0 \in Nat /\ typed'[c] = typed[c] + 0 /\ erased'[c] = erased[c]
  BY <1>3, <1>8
<1>. QED  BY <1>2, <1>4, <1>5, <1>6, <1>7, <1>8, <1>9, TurnKeepsBalance

LEMMA BlockKeepsBalance ==
  ASSUME ~FaultyNetwork, WInv, KeptInv, NEW c \in Writer, ~ui[c].crashed, RunBlock(c)
  PROVE  QueueInv' /\ Kept(c)'
<1>. DEFINE d == Doc(c)
            u == ShowDocument(ui[c], d, c)
<1>1. IsTextView(ui[c]) /\ ui[c].sent = <<>> /\ c \in Client
  BY WriterAssumption DEF WInv, DeviceInv, DeviceAt
<1>2. IsTextView(u) /\ u.sent = <<>>
  BY BlockShows
<1>3. d \in Document /\ d.cursors = userCursors[c]
  BY <1>1 DEF Doc, Document, WInv, SharedInv
<1>4. d.cursors[c] = NoCursor \/ d.cursors[c] >= 0
  BY <1>1, <1>3 DEF WInv, SharedInv, InText
<1>5. /\ ui'[c] = u
      /\ UNCHANGED <<order, log, membership, delivered, incomingActions, globalTruthText>>
      /\ typed' = typed /\ erased' = erased
  BY DEF RunBlock, vars, WInv, DeviceInv
<1>. HIDE DEF d
<1>6. Going(c) => u.crashed \/ Accounts(ui[c], u, 0)
  <2>1. Going(c) => Unerased(ui[c])
    BY DEF KeptInv, Kept
  <2>. QED  BY <1>1, <1>3, <1>4, <2>1, ShowingKeepsKeys
<1>. HIDE DEF u
<1>7. SameEdits(u, ui'[c])
  BY <1>5 DEF SameEdits
<1>8. QueueInv /\ Kept(c) /\ typed[c] \in Nat
  BY DEF KeptInv
<1>9. 0 \in Nat /\ typed'[c] = typed[c] + 0 /\ erased'[c] = erased[c] /\ IsSent(u.sent)
  BY <1>2, <1>5, <1>8 DEF IsSent
<1>. QED  BY <1>2, <1>5, <1>6, <1>7, <1>8, <1>9, TurnKeepsBalance

\* A rendered insertion moves from what is under way into the document; one that
\* raises makes the client leave.
LEMMA RenderingKeepsBalance ==
  ASSUME WInv, KeptInv, NEW c \in Writer, ~ui[c].crashed, RenderOne(c), RenderNext(c)
  PROVE  QueueInv' /\ Kept(c)'
<1>. DEFINE action == Head(incomingActions[c])
            rest == UnderWay(c)'
            raised == Raises(Doc(c), action)
            after == Render(Doc(c), action).text
<1>1. c \in Client /\ RenderNext(c)
  BY WriterAssumption
<1>2. /\ QueueInv'
      /\ action = order[Rendered(c) + 1] /\ Rendered(c) + 1 \in 1 .. Len(order)
      /\ UnderWay(c) = <<action>> \o rest /\ rest \in Seq(WireAction)
  BY <1>1, QueueShrinks DEF WInv, KeptInv
<1>3. /\ globalTruthText'[c] = after
      /\ membership'[c] = IF raised /\ membership[c] = "in" THEN "leaving" ELSE membership[c]
      /\ order' = order /\ typed' = typed /\ erased' = erased
  BY <1>1 DEF RenderOne, RenderNext, serverVars, ghostVars, WInv, SharedInv
<1>4. SameEdits(ui[c], ui'[c])
  <2>1. PICK syncing : ui' = [ui EXCEPT ![c].isSyncing = syncing]
    BY DEF RenderOne
  <2>2. ui'[c] = [ui[c] EXCEPT !.isSyncing = syncing]
    BY <2>1 DEF WInv, DeviceInv
  <2>3. IsTextView(ui[c])
    BY DEF WInv, DeviceInv, DeviceAt
  <2>. QED  BY <2>2, <2>3 DEF SameEdits, IsTextView, Fields
<1>5. Doc(c) \in Document /\ Doc(c).text = globalTruthText[c]
  BY <1>1 DEF Doc, Document, WInv, SharedInv
<1>6. SessionOpen' => SessionOpen
  <2>1. \A x : membership'[x] = "out" \/ membership'[Owner] # "out" \/ TRUE
    OBVIOUS
  <2>2. membership' = [membership EXCEPT ![c] = membership'[c]]
    BY <1>1, <1>3 DEF RenderNext, WInv, SharedInv
  <2>3. membership[Owner] = "out" => membership'[Owner] = "out"
    BY <1>3, <2>2, OwnerAssumption DEF WInv, SharedInv
  <2>. QED  BY <2>3 DEF SessionOpen
<1>. HIDE DEF action, rest, after
<1>7. SUFFICES ASSUME Going(c)'
               PROVE  /\ Unerased(ui'[c])
                      /\ order' \in Seq(Harmless(c))
                      /\ typed'[c] = KeysOf(globalTruthText'[c])
                                       + OwnKeys(c, rest) + Waiting(ui'[c])
  BY <1>2 DEF Kept, rest
<1>8. Going(c) /\ ~raised
  <2>1. membership'[c] = "in" /\ ~erased'[c] /\ SessionOpen' /\ ~ui'[c].crashed
    BY <1>7 DEF Going, CanBroadcast
  <2>2. membership[c] = "in" /\ ~raised
    BY <1>3, <2>1
  <2>. QED  BY <1>3, <1>6, <2>1, <2>2 DEF Going, CanBroadcast
<1>9. /\ Unerased(ui[c]) /\ order \in Seq(Harmless(c))
      /\ typed[c] = KeysOf(globalTruthText[c]) + OwnKeys(c, UnderWay(c)) + Waiting(ui[c])
      /\ Waiting(ui[c]) \in Nat /\ KeysOf(globalTruthText[c]) \in Nat
  BY <1>8, BalanceTypes DEF KeptInv, Kept
<1>10. action \in Harmless(c)
  BY <1>2, <1>9, ElementOfSeq
<1>11. /\ action \in SentAction /\ action \in Action
       /\ action.type = "REMOVE" => KeysOf(action.text) = 0
       /\ action.user # c => Weight(action) = 0
  BY <1>10 DEF Harmless, WireAction, SentAction
<1>12. KeysOf(after) = KeysOf(globalTruthText[c]) + Weight(action)
  BY <1>5, <1>8, <1>11, RenderingKeys DEF after
<1>13. /\ OwnKeys(c, UnderWay(c)) = Weight(action) + OwnKeys(c, rest)
       /\ OwnKeys(c, rest) \in Nat /\ Weight(action) \in Nat
  <2>1. rest \in Seq(Action) /\ <<action>> \in Seq(Action)
    <3>1. WireAction \subseteq Action
      BY DEF WireAction, SentAction
    <3>. QED  BY <1>2, <1>11, <3>1
  <2>2. OwnKeys(c, <<action>> \o rest) = OwnKeys(c, <<action>>) + OwnKeys(c, rest)
    BY <2>1, OwnKeysConcat
  <2>3. OwnKeys(c, <<action>>) = Weight(action)
    BY <1>11, OwnKeysOne
  <2>4. OwnKeys(c, rest) \in Nat /\ Weight(action) \in Nat
    BY <1>11, <2>1, OwnKeysConcat, WeightType
  <2>. QED  BY <1>2, <2>2, <2>3, <2>4
<1>14. Unerased(ui'[c]) /\ Waiting(ui'[c]) = Waiting(ui[c])
  BY <1>4, <1>9, SameEditsWait
<1>15. typed'[c] = KeysOf(after) + OwnKeys(c, rest) + Waiting(ui[c])
  <2>. DEFINE t == typed[c]
              k == KeysOf(globalTruthText[c])
              r == OwnKeys(c, rest)
              w == Waiting(ui[c])
              x == Weight(action)
  <2>1. /\ t = k + (x + r) + w /\ k \in Nat /\ r \in Nat /\ w \in Nat /\ x \in Nat
        /\ KeysOf(after) = k + x /\ typed'[c] = t
    BY <1>3, <1>9, <1>12, <1>13
  <2>. HIDE DEF t, k, r, w, x
  <2>2. t = (k + x) + r + w
    BY <2>1
  <2>. QED  BY <2>1, <2>2 DEF r, w
<1>. QED  BY <1>3, <1>9, <1>14, <1>15

LEMMA FrameworkKeepsBalance ==
  ASSUME WInv, KeptInv, NEW c \in Writer, ~ui[c].crashed, WriterFrameworkThread(c)
  PROVE  QueueInv' /\ Kept(c)'
<1>1. c \in Client /\ QueueInv /\ Kept(c) /\ IsTextView(ui[c])
  BY WriterAssumption DEF KeptInv, WInv, DeviceInv, DeviceAt
<1>2. CASE EventStep(c)
  <2>1. /\ order' = order /\ UNCHANGED <<localVars, ghostVars>>
        /\ globalTruthText' = globalTruthText
    BY <1>2 DEF EventStep, ReceiveEvent, DeferRender, BeginRender, LeaveCompletes,
                serverVars, documentVars
  <2>2. QueueInv' /\ UnderWay(c)' = UnderWay(c)
    <3>1. CASE ReceiveEvent(c)
      BY <1>1, <3>1, QueueReceives DEF WInv
    <3>2. CASE DeferRender(c) \/ BeginRender(c) \/ LeaveCompletes(c)
      <4>1. UNCHANGED <<order, log, delivered, incomingActions>>
        BY <3>2 DEF DeferRender, BeginRender, LeaveCompletes, serverVars
      <4>. QED  BY <1>1, <4>1, QueueStays
    <3>. QED  BY <1>2, <3>1, <3>2 DEF EventStep
  <2>3. membership' = membership \/ membership'[c] = "out"
    BY <1>1, <1>2 DEF EventStep, ReceiveEvent, DeferRender, BeginRender, LeaveCompletes,
                      WInv, SharedInv
  <2>4. Going(c)' => Going(c)
    BY <2>1, <2>3 DEF Going, CanBroadcast, SessionOpen, localVars, ghostVars
  <2>5. SameEdits(ui[c], ui'[c]) /\ typed' = typed
    BY <2>1 DEF SameEdits, localVars, ghostVars
  <2>. QED  BY <1>1, <2>1, <2>2, <2>4, <2>5, BalanceStays
<1>3. CASE HoldInput(c)
  <2>1. /\ UNCHANGED <<order, log, delivered, incomingActions, globalTruthText, membership,
                       typed, erased>>
        /\ ui'[c] = [ui[c] EXCEPT !.isSyncing = TRUE]
    BY <1>3 DEF HoldInput, vars, ghostVars, WInv, DeviceInv
  <2>2. SameEdits(ui[c], ui'[c])
    BY <1>1, <2>1 DEF SameEdits, IsTextView, Fields
  <2>3. QueueInv' /\ UnderWay(c)' = UnderWay(c)
    BY <1>1, <2>1, QueueStays
  <2>4. Going(c)' => Going(c)
    BY <2>1, <2>2 DEF Going, CanBroadcast, SessionOpen, SameEdits
  <2>. QED  BY <1>1, <2>1, <2>2, <2>3, <2>4, BalanceStays
<1>4. CASE RenderOne(c)
  <2>1. CASE RenderNext(c)
    BY <1>4, <2>1, RenderingKeepsBalance
  <2>2. CASE StacksRaise(c)
    <3>1. QueueInv'
      BY <2>2, QueueShrinks DEF WInv, KeptInv
    <3>2. membership'[c] # "in"
      BY <1>1, <2>2 DEF StacksRaise, WInv, SharedInv
    <3>. QED  BY <3>1, <3>2 DEF Kept, Going
  <2>. QED  BY <1>4, <2>1, <2>2 DEF RenderOne
<1>5. CASE DispatchBlock(c)
  <2>1. UNCHANGED <<order, log, delivered, incomingActions, globalTruthText, membership,
                    ui, typed, erased>>
    BY <1>5 DEF DispatchBlock, FinishRender, serverVars, documentVars, ghostVars
  <2>2. QueueInv' /\ UnderWay(c)' = UnderWay(c)
    BY <1>1, <2>1, QueueStays
  <2>3. Going(c)' => Going(c)
    BY <2>1 DEF Going, CanBroadcast, SessionOpen
  <2>4. SameEdits(ui[c], ui'[c])
    BY <2>1 DEF SameEdits
  <2>. QED  BY <1>1, <2>1, <2>2, <2>3, <2>4, BalanceStays
<1>. QED  BY <1>2, <1>3, <1>4, <1>5 DEF WriterFrameworkThread

\* A text view opens, a writer leaves.
LEMMA OpeningKeepsBalance ==
  ASSUME QueueInv, NEW c \in Writer, Kept(c), NEW d \in Client, ShowTextView(d),
         UNCHANGED <<localVars, ghostVars>>
  PROVE  QueueInv' /\ Kept(c)'
<1>1. UNCHANGED <<order, log, delivered, incomingActions, globalTruthText, membership,
                  ui, typed, erased>>
  BY DEF ShowTextView, serverVars, documentVars, localVars, ghostVars
<1>2. QueueInv' /\ UnderWay(c)' = UnderWay(c)
  BY <1>1, QueueStays
<1>3. (Going(c)' => Going(c)) /\ SameEdits(ui[c], ui'[c])
  BY <1>1 DEF Going, CanBroadcast, SessionOpen, SameEdits
<1>. QED  BY <1>1, <1>2, <1>3, BalanceStays

LEMMA ExitKeepsBalance ==
  ASSUME WInv, QueueInv, NEW c \in Writer, Kept(c), ExitButton(c)
  PROVE  QueueInv' /\ Kept(c)'
<1>1. UNCHANGED <<order, log, delivered, incomingActions>>
  BY DEF ExitButton, Exit, serverVars
<1>2. QueueInv'
  BY <1>1, QueueStays
<1>3. membership'[c] # "in"
  BY WriterAssumption DEF ExitButton, Exit, WInv, SharedInv
<1>. QED  BY <1>2, <1>3 DEF Kept, Going

LEMMA OthersKeepQueue ==
  ASSUME WInv, QueueInv, OthersSend
  PROVE  QueueInv'
<1>1. PICK d \in Client \ Writer :
        \/ ShowTextView(d)
        \/ HasRoom(Cardinality(TimersRunning) + 1) /\ UndoOrRedo(d)
  BY DEF OthersSend
<1>2. CASE ShowTextView(d)
  <2>1. UNCHANGED <<order, log, delivered, incomingActions>>
    BY <1>2 DEF ShowTextView, serverVars
  <2>. QED  BY <2>1, QueueStays
<1>3. CASE UndoOrRedo(d)
  <2>1. PICK series \in Series : ButtonSends(d, series)
    BY <1>3 DEF UndoOrRedo
  <2>2. series \in Seq(Action) /\ d \in Client /\ d \notin Writer
    BY SeriesAssumption
  <2>3. UNCHANGED <<delivered, incomingActions>> /\ SendActions(d, series)
    BY <2>1 DEF ButtonSends
  <2>4. CASE Broadcast(d, series)
    BY <2>2, <2>3, <2>4, QueueGrows DEF WInv
  <2>5. CASE BroadcastFails(d)
    <3>1. UNCHANGED <<order, log>>
      BY <2>5 DEF BroadcastFails, serverVars
    <3>. QED  BY <2>3, <3>1, QueueStays
  <2>. QED  BY <2>3, <2>4, <2>5 DEF SendActions
<1>. QED  BY <1>1, <1>2, <1>3

\* What the others broadcast neither adds nor takes.
LEMMA OthersKeepBalance ==
  ASSUME OthersTypeNoKeys, WInv, QueueInv, NEW c \in Writer, Kept(c), OthersSend
  PROVE  QueueInv' /\ Kept(c)'
<1>1. PICK d \in Client \ Writer :
        \/ ShowTextView(d)
        \/ HasRoom(Cardinality(TimersRunning) + 1) /\ UndoOrRedo(d)
  BY DEF OthersSend
<1>2. UNCHANGED <<localVars, ghostVars>>
  BY DEF OthersSend
<1>3. CASE ShowTextView(d)
  BY <1>2, <1>3, OpeningKeepsBalance
<1>4. CASE UndoOrRedo(d)
  <2>1. PICK series \in Series : ButtonSends(d, series)
    BY <1>4 DEF UndoOrRedo
  <2>. DEFINE sent == OnTheWireAll(d, series)
  <2>2. series \in Seq(Action) /\ d \in Client /\ d \notin Writer
    BY SeriesAssumption
  <2>3. UNCHANGED <<delivered, incomingActions, globalTruthText, membership, ui, typed,
                    erased>>
    BY <1>2, <2>1 DEF ButtonSends, documentVars, localVars, ghostVars
  <2>4. (Going(c)' => Going(c)) /\ SameEdits(ui[c], ui'[c])
    BY <2>3 DEF Going, CanBroadcast, SessionOpen, SameEdits
  <2>5. CASE Broadcast(d, series)
    <3>1. QueueInv' /\ UnderWay(c)' = UnderWay(c) \o sent
      BY <2>2, <2>3, <2>5, QueueGrows DEF WInv
    <3>2. order' = order \o sent
      BY <2>5 DEF Broadcast
    <3>3. sent \in Seq(Harmless(c)) /\ OwnKeys(c, sent) = 0
      BY SeriesOfOthersIsHarmless
    <3>. HIDE DEF sent
    <3>4. ASSUME Going(c)'
          PROVE  /\ Unerased(ui'[c]) /\ order' \in Seq(Harmless(c))
                 /\ typed'[c] = KeysOf(globalTruthText'[c])
                                  + OwnKeys(c, UnderWay(c)') + Waiting(ui'[c])
      <4>1. /\ Unerased(ui[c]) /\ order \in Seq(Harmless(c))
            /\ typed[c] = KeysOf(globalTruthText[c]) + OwnKeys(c, UnderWay(c))
                            + Waiting(ui[c])
        BY <2>4, <3>4 DEF Kept
      <4>2. /\ order' \in Seq(Harmless(c))
            /\ OwnKeys(c, UnderWay(c)') = OwnKeys(c, UnderWay(c)) + OwnKeys(c, sent)
        BY <3>1, <3>2, <3>3, <4>1, BalanceOfSending
      <4>3. OwnKeys(c, UnderWay(c)') = OwnKeys(c, UnderWay(c))
        <5>1. OwnKeys(c, UnderWay(c)) \in Nat
          BY BalanceTypes
        <5>. QED  BY <3>3, <4>2, <5>1
      <4>4. ui'[c] = ui[c] /\ typed'[c] = typed[c] /\ globalTruthText'[c] = globalTruthText[c]
        BY <2>3
      <4>. QED  BY <4>1, <4>2, <4>3, <4>4
    <3>. QED  BY <3>1, <3>4 DEF Kept
  <2>6. CASE BroadcastFails(d)
    <3>1. UNCHANGED <<order, log>>
      BY <2>6 DEF BroadcastFails, serverVars
    <3>2. QueueInv' /\ UnderWay(c)' = UnderWay(c)
      BY <2>3, <3>1, QueueStays
    <3>. QED  BY <2>3, <2>4, <3>1, <3>2, BalanceStays
  <2>. QED  BY <2>1, <2>5, <2>6 DEF ButtonSends, SendActions
<1>. QED  BY <1>1, <1>3, <1>4

LEMMA StepKeepsBalance ==
  ASSUME ~FaultyNetwork, \A c, d \in Writer : c = d, OthersTypeNoKeys,
         WInv, KeptInv, [WNext]_writeVars
  PROVE  KeptInv'
<1>1. typed \in [Writer -> Nat] /\ erased \in [Writer -> BOOLEAN] /\ QueueInv
      /\ \A c \in Writer : Kept(c)
  BY DEF KeptInv
<1>2. CASE UNCHANGED writeVars
  <2>1. UNCHANGED <<order, log, delivered, incomingActions, globalTruthText, membership,
                    ui, typed, erased>>
    BY <1>2 DEF writeVars, vars, localVars, ghostVars
  <2>2. QueueInv' /\ \A c \in Writer : UnderWay(c)' = UnderWay(c)
    BY <1>1, <2>1, QueueStays
  <2>3. ASSUME NEW c \in Writer
        PROVE  Kept(c)'
    <3>1. (Going(c)' => Going(c)) /\ SameEdits(ui[c], ui'[c])
      BY <2>1 DEF Going, CanBroadcast, SessionOpen, SameEdits
    <3>. QED  BY <1>1, <2>1, <2>2, <3>1, BalanceStays
  <2>. QED  BY <1>1, <2>1, <2>2, <2>3 DEF KeptInv
<1>3. CASE WNext
  <2>1. typed' \in [Writer -> Nat] /\ erased' \in [Writer -> BOOLEAN]
    <3>1. \/ typed' = typed
          \/ \E c \in Writer : typed' = [typed EXCEPT ![c] = typed[c] + 1]
      BY <1>3 DEF WNext, WriterMainThread, WriterFrameworkThread, OthersSend, OpensTextView,
                  TypeKey, PressBackspace, Tap, TimerExpires, RunBlock, ExitButton,
                  EventStep, HoldInput, RenderOne, DispatchBlock, ghostVars
    <3>2. \/ erased' = erased
          \/ \E c \in Writer : erased' = [erased EXCEPT ![c] = TRUE]
      BY <1>3 DEF WNext, WriterMainThread, WriterFrameworkThread, OthersSend, OpensTextView,
                  TypeKey, PressBackspace, Tap, TimerExpires, RunBlock, ExitButton,
                  EventStep, HoldInput, RenderOne, DispatchBlock, ghostVars
    <3>3. typed' \in [Writer -> Nat]
      BY <1>1, <3>1
    <3>4. erased' \in [Writer -> BOOLEAN]
      BY <1>1, <3>2
    <3>. QED  BY <3>3, <3>4
  <2>2. ASSUME NEW c \in Writer, ~ui[c].crashed,
               WriterMainThread(c) \/ WriterFrameworkThread(c)
        PROVE  QueueInv' /\ Kept(c)'
    <3>1. CASE TypeKey(c) \/ PressBackspace(c) \/ Tap(c)
      BY <2>2, <3>1, PressingKeepsBalance
    <3>2. CASE TimerExpires(c)
      BY <2>2, <3>2, TimerKeepsBalance
    <3>3. CASE RunBlock(c)
      BY <2>2, <3>3, BlockKeepsBalance
    <3>4. CASE OpensTextView(c)
      BY <1>1, <3>4, WriterAssumption, OpeningKeepsBalance DEF OpensTextView
    <3>5. CASE ExitButton(c)
      BY <1>1, <3>5, ExitKeepsBalance
    <3>6. CASE WriterFrameworkThread(c)
      BY <2>2, <3>6, FrameworkKeepsBalance
    <3>. QED  BY <2>2, <3>1, <3>2, <3>3, <3>4, <3>5, <3>6 DEF WriterMainThread
  <2>3. CASE \E c \in Writer :
               ~ui[c].crashed /\ (WriterMainThread(c) \/ WriterFrameworkThread(c))
    <3>1. PICK c \in Writer :
            ~ui[c].crashed /\ (WriterMainThread(c) \/ WriterFrameworkThread(c))
      BY <2>3
    <3>2. QueueInv' /\ Kept(c)'
      BY <2>2, <3>1
    <3>3. \A d \in Writer : Kept(d)'
      <4>1. ASSUME NEW d \in Writer PROVE Kept(d)'
        <5>1. d = c
          OBVIOUS
        <5>. QED  BY <3>2, <5>1
      <4>. QED  BY <4>1
    <3>. QED  BY <2>1, <3>2, <3>3 DEF KeptInv
  <2>4. CASE OthersSend
    <3>1. ASSUME NEW c \in Writer
          PROVE  Kept(c)'
      BY <1>1, <2>4, OthersKeepBalance
    <3>2. QueueInv'
      BY <1>1, <2>4, OthersKeepQueue
    <3>. QED  BY <2>1, <3>1, <3>2 DEF KeptInv
  <2>. QED  BY <1>3, <2>3, <2>4 DEF WNext
<1>. QED  BY <1>2, <1>3

LEMMA InitBalances ==
  ASSUME WInit
  PROVE  KeptInv
<1>1. QueueInv
  BY NothingIsQueued
<1>2. typed \in [Writer -> Nat] /\ erased \in [Writer -> BOOLEAN]
  BY DEF WInit
<1>3. ASSUME NEW c \in Writer
      PROVE  Kept(c)
  <2>1. /\ order = <<>> /\ log = <<>> /\ delivered[c] = 0 /\ incomingActions[c] = <<>>
        /\ globalTruthText[c] = <<>> /\ ui[c] = FreshTextView /\ typed[c] = 0
    BY <1>1, WriterAssumption DEF WInit, Init, EmptyDocument
  <2>2. Len(<<>>) = 0 /\ <<>> \in Seq(Harmless(c)) /\ <<>> \in Seq(Additions)
        /\ <<>> \in Seq(Held)
    BY EmptySeq
  <2>3. UnderWay(c) = <<>>
    <3>1. Upto(delivered[c]) = 0 /\ Len(incomingActions[c]) = 0
      BY <2>1, <2>2 DEF Upto
    <3>2. Rendered(c) = 0
      BY <3>1 DEF Rendered
    <3>. QED  BY <2>1, <2>2, <3>2 DEF UnderWay
  <2>4. Unerased(ui[c]) /\ Waiting(ui[c]) = 0
    <3>1. FreshTextView.selectedLength = 0 /\ FreshTextView.currentEdit = <<>>
          /\ FreshTextView.syncBuffer = <<>>
      BY DEF FreshTextView
    <3>2. KeysInserted(<<>>) = 0
      BY KeysInsertedOne
    <3>. QED  BY <2>1, <2>2, <3>1, <3>2 DEF Unerased, Waiting
  <2>5. KeysOf(<<>>) = 0 /\ OwnKeys(c, <<>>) = 0

    <3>1. <<>> \in Seq({e \in Action : e.user # c})
      BY EmptySeq
    <3>2. OwnKeys(c, <<>>) = 0
      BY <3>1, OwnKeysOfOthers
    <3>. QED  BY <3>2, KeysOfNothing
  <2>. QED  BY <2>1, <2>2, <2>3, <2>4, <2>5 DEF Kept
<1>. QED  BY <1>1, <1>2, <1>3 DEF KeptInv

\* Every character that a writer typed is in its document, on its way there, in the
\* edit that waits for the timer, or held back in syncBuffer, exactly once: whether
\* it was typed while the timer ran, while a rendering was under way or between the
\* two, however its edits were merged and resolved, and wherever renderings and
\* blocks fell in between (textView:shouldChangeTextInRange:, mergeCurrentEdit,
\* sendActions, renderIncomingEdits, applyBufferedEdits).  For one writer in a
\* session of any size, because characters are counted whoever typed them, next to
\* participants who broadcast anything but those characters, with broadcasts that
\* succeed: what sendActions drops is lost.
THEOREM NoCharacterIsLost ==
  ~FaultyNetwork /\ (\A c, d \in Writer : c = d) /\ OthersTypeNoKeys
    => (WSpec => []TypedIsNeverLost)
<1>. SUFFICES ASSUME ~FaultyNetwork, \A c, d \in Writer : c = d, OthersTypeNoKeys
              PROVE  WSpec => []TypedIsNeverLost
  OBVIOUS
<1>1. WInit => KeptInv
  BY InitBalances
<1>2. WInv /\ KeptInv /\ [WNext]_writeVars => KeptInv'
  BY StepKeepsBalance
<1>3. WInv /\ KeptInv => TypedIsNeverLost
  <2>. SUFFICES ASSUME WInv, KeptInv, NEW c \in Writer, Going(c)
                PROVE  typed[c] = KeysOf(globalTruthText[c]) + KeysUnderWay(c)
                         + KeysInserted(ui[c].currentEdit) + KeysInserted(ui[c].syncBuffer)
    BY DEF TypedIsNeverLost, Going
  <2>. DEFINE k == KeysOf(globalTruthText[c])
              r == OwnKeys(c, UnderWay(c))
              x == KeysInserted(ui[c].currentEdit)
              y == KeysInserted(ui[c].syncBuffer)
  <2>1. /\ Unerased(ui[c])
        /\ typed[c] = k + r + Waiting(ui[c])
    BY DEF KeptInv, Kept
  <2>2. k \in Nat /\ r \in Nat
    BY BalanceTypes DEF KeptInv
  <2>3. Waiting(ui[c]) = x + y /\ x \in Nat /\ y \in Nat
    BY <2>1, WaitingType DEF Waiting
  <2>4. KeysUnderWay(c) = r
    BY DEF KeysUnderWay, OwnKeys
  <2>. HIDE DEF k, r, x, y
  <2>5. typed[c] = k + r + x + y
    BY <2>1, <2>2, <2>3
  <2>. QED  BY <2>4, <2>5 DEF k, x, y
<1>. QED  BY <1>1, <1>2, <1>3, InvAlways, PTL DEF WSpec


=============================================================================
