-------------------------- MODULE ReplicationProofs --------------------------
(***************************************************************************)
(* What TLAPS proves of the replication of the document and of the cursors *)
(* in it, for every number of clients, every set of edit series and every  *)
(* bound on the events.                                                    *)
(***************************************************************************)
EXTENDS ReplicationHistory, DocumentProofs

(***************************************************************************)
(* The inductive invariant.  Convergence is not inductive: that two        *)
(* clients with the same number of rendered actions have the same document *)
(* says nothing of what they will render next.  It becomes so when what a  *)
(* client has rendered, and its queue, are tied to the order of the        *)
(* actions, and the document to the history of versions.                   *)
(***************************************************************************)

\* The events divide the order into consecutive stretches.
LogDividesOrder ==
  /\ \A n \in 1 .. Len(log) :
       /\ log[n].from = Upto(n - 1)
       /\ log[n].from <= log[n].upto
       /\ log[n].upto <= Len(order)
  /\ Upto(Len(log)) = Len(order)

\* EachActionOnceInOrder, element by element: what waits in a queue ...
QueueFollowsOrder ==
  \A c \in Client :
    /\ delivered[c] <= Len(log)
    /\ 0 <= Rendered(c)
    /\ \A i \in 1 .. Len(incomingActions[c]) :
         incomingActions[c][i] = order[Rendered(c) + i]

\* ... and what was taken out of it.
RenderedFollowsOrder ==
  \A c \in Client :
    /\ Len(rendered[c]) = Rendered(c)
    /\ \A i \in 1 .. Len(rendered[c]) : rendered[c][i] = order[i]

\* Each version is the previous one after the action between them.
VersionsReplayOrder ==
  /\ Len(versions) \in 1 .. Len(order) + 1
  /\ \A k \in 1 .. Len(versions) - 1 :
       versions[k + 1] = Render(versions[k], order[k])

\* A client whose stacks have raised has begun to leave, and does not come back.
StrayedHaveLeft == \A c \in Client : strayed[c] => membership[c] # "in"

IInv ==
  /\ HTypeOK
  /\ LogDividesOrder
  /\ QueueFollowsOrder
  /\ RenderedFollowsOrder
  /\ VersionsReplayOrder
  /\ ShowsItsVersion
  /\ StrayedHaveLeft

\* A step in which no client takes an action, or comes back.
NobodyMoves ==
  /\ \A c \in Client : Rendered(c)' = Rendered(c)
  /\ \A c \in Client : membership'[c] = "in" => membership[c] = "in"

\* A step in which c, and only c, takes an action.
OnlyMoves(c) ==
  /\ Rendered(c)' = Rendered(c) + 1
  /\ \A d \in Client : d # c => /\ Rendered(d)' = Rendered(d)
                                /\ Doc(d)' = Doc(d)
                                /\ membership'[d] = membership[d]
                                /\ strayed'[d] = strayed[d]
  /\ membership'[c] = "in" => membership[c] = "in"

----------------------------------------------------------------------------
(***************************************************************************)
(* Lemmas                                                                  *)
(***************************************************************************)

\* How far the events reach into the order.
LEMMA UptoType ==
  ASSUME TypeOK, LogDividesOrder, NEW n \in 0 .. Len(log)
  PROVE  /\ Upto(n) \in Nat
         /\ Upto(n) <= Len(order)
<1>1. Len(order) \in Nat /\ Len(log) \in Nat
  BY LenProperties DEF TypeOK
<1>2. CASE n = 0
  BY <1>1, <1>2 DEF Upto
<1>3. CASE n # 0
  <2>1. n \in 1 .. Len(log)
    BY <1>1, <1>3
  <2>2. log[n] \in Event
    BY <2>1, ElementOfSeq DEF TypeOK
  <2>. QED  BY <1>3, <2>1, <2>2 DEF Upto, Event, LogDividesOrder
<1>. QED  BY <1>2, <1>3

\* Where a client is in the order, and that the rest of its queue is there.
LEMMA RenderedType ==
  ASSUME TypeOK, LogDividesOrder, QueueFollowsOrder, NEW c \in Client
  PROVE  /\ delivered[c] \in 0 .. Len(log)
         /\ Rendered(c) \in Nat
         /\ Rendered(c) + Len(incomingActions[c]) = Upto(delivered[c])
         /\ Rendered(c) + Len(incomingActions[c]) <= Len(order)
<1>1. Len(incomingActions[c]) \in Nat /\ Len(order) \in Nat /\ Len(log) \in Nat
  BY LenProperties DEF TypeOK
<1>2. delivered[c] \in 0 .. Len(log)
  BY <1>1 DEF TypeOK, QueueFollowsOrder
<1>3. Upto(delivered[c]) \in Nat /\ Upto(delivered[c]) <= Len(order)
  BY <1>2, UptoType
<1>. QED  BY <1>1, <1>2, <1>3 DEF Rendered, QueueFollowsOrder

\* The document of a client is a document.
LEMMA DocType ==
  ASSUME TypeOK, NEW c \in Client
  PROVE  Doc(c) \in Document
BY DEF TypeOK, Doc, Document

\* The position of a client in the history follows its position in the order.
LEMMA PositionOfRendered ==
  ASSUME RenderedFollowsOrder, NEW c \in Client
  PROVE  Position[c] = Rendered(c) + 1
BY DEF Position, RenderedFollowsOrder

----------------------------------------------------------------------------
(***************************************************************************)
(* IInv is inductive: the initial states, then one lemma for each kind of  *)
(* step.                                                                   *)
(***************************************************************************)

LEMMA InitEstablishesIInv == HInit => IInv
<1>. SUFFICES ASSUME HInit PROVE IInv
  OBVIOUS
<1>1. <<>> \in Text /\ <<>> \in Seq(SentAction) /\ <<>> \in Seq(Event)
      /\ Len(<<>>) = 0
  BY EmptySeq DEF Text
<1>2. EmptyDocument \in Document
  BY <1>1 DEF EmptyDocument, Document, CursorMap
<1>3. TypeOK
  BY <1>1, <1>2 DEF HInit, Init, TypeOK, EmptyDocument, Document
<1>4. /\ versions \in Seq(Document)
      /\ Len(versions) = 1
      /\ DOMAIN versions = 1 .. 1
      /\ versions[1] = EmptyDocument
  BY <1>2 DEF HInit
<1>5. Len(log) = 0 /\ Len(order) = 0
  BY <1>1 DEF HInit, Init
<1>6. ASSUME NEW c \in Client
      PROVE  /\ delivered[c] = 0
             /\ Len(incomingActions[c]) = 0
             /\ Rendered(c) = 0
             /\ Doc(c) = EmptyDocument
  <2>1. delivered[c] = 0
    BY DEF HInit, Init
  <2>2. Len(incomingActions[c]) = 0
    BY <1>1 DEF HInit, Init
  <2>3. Rendered(c) = 0
    BY <2>1, <2>2 DEF Rendered, Upto
  <2>4. Doc(c) = EmptyDocument
    BY DEF HInit, Init, Doc, EmptyDocument
  <2>. QED  BY <2>1, <2>2, <2>3, <2>4
<1>7. LogDividesOrder
  BY <1>5 DEF LogDividesOrder, Upto
<1>8. QueueFollowsOrder
  <2>1. ASSUME NEW c \in Client
        PROVE  /\ delivered[c] <= Len(log)
               /\ 0 <= Rendered(c)
               /\ \A i \in 1 .. Len(incomingActions[c]) :
                    incomingActions[c][i] = order[Rendered(c) + i]
    <3>1. delivered[c] = 0 /\ Rendered(c) = 0 /\ Len(incomingActions[c]) = 0
      BY <1>6
    <3>. QED  BY <1>5, <3>1
  <2>. QED  BY <2>1 DEF QueueFollowsOrder
<1>9. VersionsReplayOrder
  BY <1>4, <1>5 DEF VersionsReplayOrder
<1>11. \A c \in Client : Len(rendered[c]) = 0
  BY <1>1 DEF HInit
<1>12. RenderedFollowsOrder
  <2>1. ASSUME NEW c \in Client
        PROVE  /\ Len(rendered[c]) = Rendered(c)
               /\ \A i \in 1 .. Len(rendered[c]) : rendered[c][i] = order[i]
    <3>1. Rendered(c) = 0 /\ Len(rendered[c]) = 0
      BY <1>6, <1>11
    <3>. QED  BY <3>1
  <2>. QED  BY <2>1 DEF RenderedFollowsOrder
<1>13. /\ rendered \in [Client -> Seq(SentAction)]
       /\ strayed \in [Client -> BOOLEAN]
       /\ StrayedHaveLeft
  BY <1>1 DEF HInit, StrayedHaveLeft
<1>10. ShowsItsVersion
  <2>1. ASSUME NEW c \in Client
        PROVE  Position[c] = 1 /\ Doc(c) = EmptyDocument
    <3>1. Rendered(c) = 0 /\ Doc(c) = EmptyDocument
      BY <1>6
    <3>. QED  BY <1>12, <3>1, PositionOfRendered
  <2>2. 1 \in DOMAIN versions /\ versions[1] = EmptyDocument
    BY <1>4
  <2>. QED  BY <2>1, <2>2 DEF ShowsItsVersion
<1>. QED
  BY <1>3, <1>4, <1>7, <1>8, <1>9, <1>10, <1>12, <1>13 DEF IInv, HTypeOK

\* Steps that change only what a client is doing: the view appears or goes, the
\* timer starts, a rendering is put off, begun or ended, the client leaves.
LEMMA QuietStepKeepsIInv ==
  ASSUME IInv, TypeOK',
         \A c \in Client : membership'[c] = "in" => membership[c] = "in",
         UNCHANGED <<order, log, delivered, incomingActions, globalTruthText,
                     userCursors, versions, rendered, strayed>>
  PROVE  IInv' /\ NobodyMoves
<1>1. \A n : Upto(n)' = Upto(n)
  BY DEF Upto
<1>2. \A c : Rendered(c)' = Rendered(c) /\ Doc(c)' = Doc(c)
  BY <1>1 DEF Rendered, Doc
<1>3. LogDividesOrder' /\ QueueFollowsOrder' /\ VersionsReplayOrder'
  BY <1>1, <1>2 DEF IInv, LogDividesOrder, QueueFollowsOrder, VersionsReplayOrder
<1>4. RenderedFollowsOrder' /\ StrayedHaveLeft'
  BY <1>2 DEF IInv, RenderedFollowsOrder, StrayedHaveLeft
<1>5. ShowsItsVersion'
  BY <1>2 DEF IInv, ShowsItsVersion, Position
<1>. QED  BY <1>2, <1>3, <1>4, <1>5 DEF IInv, HTypeOK, NobodyMoves

\* A broadcast appends an event to the log and its actions to the order; what
\* has been delivered and rendered lies before them.
LEMMA BroadcastKeepsIInv ==
  ASSUME IInv, NEW c \in Client, NEW series \in Series,
         Broadcast(c, series),
         timerValid' \in [Client -> BOOLEAN],
         UNCHANGED <<membership, delivered, incomingActions, rendering, observing,
                     globalTruthText, userCursors, versions, rendered, strayed>>
  PROVE  IInv' /\ NobodyMoves
<1>. DEFINE sent  == OnTheWireAll(c, series)
            event == [from |-> Len(order), upto |-> Len(order) + Len(series)]
<1>1. /\ order \in Seq(SentAction) /\ Len(order) \in Nat
      /\ log \in Seq(Event) /\ Len(log) \in Nat
  BY LenProperties DEF IInv, HTypeOK, TypeOK
<1>2. series \in Seq(Action) /\ Len(series) \in Nat
  BY SeriesAssumption, LenProperties
<1>3. sent \in Seq(SentAction) /\ Len(sent) = Len(series)
  BY <1>2, OnTheWireAllType
<1>4. /\ order' \in Seq(SentAction)
      /\ Len(order') = Len(order) + Len(series)
      /\ \A i \in 1 .. Len(order) : order'[i] = order[i]
  <2>1. order' = order \o sent
    BY DEF Broadcast
  <2>. HIDE DEF sent
  <2>. QED  BY <1>1, <1>2, <1>3, <2>1, ConcatProperties
<1>5. /\ log' \in Seq(Event)
      /\ Len(log') = Len(log) + 1
      /\ \A n \in 1 .. Len(log) : log'[n] = log[n]
      /\ log'[Len(log) + 1] = event
  <2>1. event \in Event
    BY <1>1, <1>2 DEF Event
  <2>2. log' = Append(log, event)
    BY DEF Broadcast
  <2>. QED  BY <1>1, <2>1, <2>2
<1>6. \A n \in 0 .. Len(log) : Upto(n)' = Upto(n)
  BY <1>1, <1>5 DEF Upto
<1>7. TypeOK'
  BY <1>4, <1>5 DEF IInv, HTypeOK, TypeOK
<1>8. LogDividesOrder'
  <2>1. ASSUME NEW n \in 1 .. Len(log) + 1
        PROVE  /\ log'[n].from = Upto(n - 1)'
               /\ log'[n].from <= log'[n].upto
               /\ log'[n].upto <= Len(order')
    <3>1. n - 1 \in 0 .. Len(log) /\ Upto(n - 1)' = Upto(n - 1)
      BY <1>1, <1>6
    <3>2. CASE n = Len(log) + 1
      <4>1. Upto(n - 1) = Len(order)
        BY <1>1, <3>2 DEF IInv, LogDividesOrder
      <4>. QED  BY <1>1, <1>2, <1>4, <1>5, <3>1, <3>2, <4>1
    <3>3. CASE n \in 1 .. Len(log)
      <4>1. log[n] \in Event
        BY <1>1, <3>3, ElementOfSeq
      <4>2. log[n].from = Upto(n - 1) /\ log[n].from <= log[n].upto
            /\ log[n].upto <= Len(order)
        BY <3>3 DEF IInv, LogDividesOrder
      <4>3. log'[n] = log[n]
        BY <1>5, <3>3
      <4>. QED  BY <1>1, <1>2, <1>4, <3>1, <4>1, <4>2, <4>3 DEF Event
    <3>. QED  BY <1>1, <3>2, <3>3
  <2>2. Upto(Len(log))' = Len(order')
    BY <1>1, <1>4, <1>5 DEF Upto
  <2>. QED  BY <1>1, <1>5, <2>1, <2>2 DEF LogDividesOrder
<1>9. ASSUME NEW d \in Client
      PROVE  /\ delivered[d] \in 0 .. Len(log)
             /\ Rendered(d) \in Nat
             /\ Rendered(d) + Len(incomingActions[d]) <= Len(order)
             /\ Rendered(d)' = Rendered(d)
             /\ Doc(d)' = Doc(d)
  <2>1. /\ delivered[d] \in 0 .. Len(log)
        /\ Rendered(d) \in Nat
        /\ Rendered(d) + Len(incomingActions[d]) <= Len(order)
    BY RenderedType DEF IInv, HTypeOK
  <2>. QED  BY <1>6, <2>1 DEF Rendered, Doc
<1>10. QueueFollowsOrder'
  <2>1. ASSUME NEW d \in Client
        PROVE  /\ delivered[d] <= Len(log')
               /\ 0 <= Rendered(d)'
               /\ \A i \in 1 .. Len(incomingActions[d]) :
                    incomingActions[d][i] = order'[Rendered(d) + i]
    <3>1. Len(incomingActions[d]) \in Nat
      BY LenProperties DEF IInv, HTypeOK, TypeOK
    <3>2. ASSUME NEW i \in 1 .. Len(incomingActions[d])
          PROVE  incomingActions[d][i] = order'[Rendered(d) + i]
      <4>1. incomingActions[d][i] = order[Rendered(d) + i]
        BY DEF IInv, QueueFollowsOrder
      <4>2. Rendered(d) + i \in 1 .. Len(order)
        BY <1>1, <1>9, <3>1
      <4>. QED  BY <1>4, <4>1, <4>2
    <3>. QED  BY <1>1, <1>5, <1>9, <3>2
  <2>. QED  BY <1>9, <2>1 DEF QueueFollowsOrder
<1>11. VersionsReplayOrder'
  <2>1. Len(versions) \in Nat
    BY LenProperties DEF IInv, HTypeOK
  <2>2. Len(versions) \in 1 .. Len(order) + 1
    BY DEF IInv, VersionsReplayOrder
  <2>3. ASSUME NEW k \in 1 .. Len(versions) - 1
        PROVE  versions[k + 1] = Render(versions[k], order'[k])
    <3>1. versions[k + 1] = Render(versions[k], order[k])
      BY DEF IInv, VersionsReplayOrder
    <3>2. order'[k] = order[k]
      BY <1>1, <1>4, <2>1, <2>2
    <3>. QED  BY <3>1, <3>2
  <2>4. Len(versions) \in 1 .. Len(order') + 1
    BY <1>1, <1>2, <1>4, <2>2
  <2>. QED  BY <2>3, <2>4 DEF VersionsReplayOrder
<1>12. ShowsItsVersion' /\ StrayedHaveLeft'
  BY <1>9 DEF IInv, ShowsItsVersion, Position, StrayedHaveLeft
<1>13. RenderedFollowsOrder'
  <2>1. ASSUME NEW d \in Client, NEW i \in 1 .. Len(rendered[d])
        PROVE  rendered[d][i] = order'[i]
    <3>1. Len(rendered[d]) = Rendered(d) /\ rendered[d][i] = order[i]
      BY DEF IInv, RenderedFollowsOrder
    <3>2. Len(incomingActions[d]) \in Nat
      BY LenProperties DEF IInv, HTypeOK, TypeOK
    <3>3. i \in 1 .. Len(order)
      BY <1>1, <1>9, <3>1, <3>2
    <3>. QED  BY <1>4, <3>1, <3>3
  <2>. QED  BY <1>9, <2>1 DEF IInv, RenderedFollowsOrder
<1>. QED
  BY <1>7, <1>8, <1>9, <1>10, <1>11, <1>12, <1>13 DEF IInv, HTypeOK, NobodyMoves

\* Delivery moves the actions of the next event from the order to the end of
\* the queue; the client has rendered no more than before.
LEMMA ReceiveEventKeepsIInv ==
  ASSUME IInv, NEW c \in Client, ReceiveEvent(c),
         UNCHANGED <<versions, rendered, strayed>>
  PROVE  IInv' /\ NobodyMoves
<1>. DEFINE event == log[delivered[c] + 1]
            more  == SubSeq(order, event.from + 1, event.upto)
            queue == incomingActions[c]
<1>1. /\ order \in Seq(SentAction) /\ Len(order) \in Nat
      /\ log \in Seq(Event) /\ Len(log) \in Nat
      /\ queue \in Seq(SentAction) /\ Len(queue) \in Nat
  BY LenProperties DEF IInv, HTypeOK, TypeOK
<1>2. /\ delivered[c] \in 0 .. Len(log) - 1
      /\ delivered[c] + 1 \in 1 .. Len(log)
  <2>1. delivered[c] \in Nat /\ delivered[c] < Len(log)
    BY DEF ReceiveEvent, IInv, HTypeOK, TypeOK
  <2>. QED  BY <1>1, <2>1
<1>3. event \in Event
  BY <1>1, <1>2, ElementOfSeq
<1>4. /\ event.from = Upto(delivered[c])
      /\ event.upto = Upto(delivered[c] + 1)
      /\ event.from \in Nat /\ event.upto \in Nat
      /\ event.from <= event.upto /\ event.upto <= Len(order)
  <2>1. event.from = Upto((delivered[c] + 1) - 1)
        /\ event.from <= event.upto /\ event.upto <= Len(order)
    BY <1>2 DEF IInv, LogDividesOrder
  <2>2. (delivered[c] + 1) - 1 = delivered[c] /\ delivered[c] + 1 # 0
    BY <1>2
  <2>. QED  BY <1>3, <2>1, <2>2 DEF Upto, Event
<1>5. /\ more \in Seq(SentAction)
      /\ Len(more) = event.upto - event.from
      /\ \A i \in 1 .. Len(more) : more[i] = order[event.from + i]
  <2>1. \A i \in event.from + 1 .. event.upto : order[i] \in SentAction
    <3>1. \A i \in event.from + 1 .. event.upto : i \in 1 .. Len(order)
      BY <1>1, <1>4
    <3>. QED  BY <1>1, <3>1, ElementOfSeq
  <2>2. event.from + 1 \in Int /\ event.upto \in Int
    BY <1>4
  <2>3. /\ more \in Seq(SentAction)
        /\ Len(more) = IF event.from + 1 <= event.upto
                       THEN event.upto - (event.from + 1) + 1 ELSE 0
        /\ \A i \in 1 .. event.upto - (event.from + 1) + 1 :
             more[i] = order[(event.from + 1) + i - 1]
    BY <2>1, <2>2, SubSeqProperties
  <2>4. Len(more) = event.upto - event.from
    BY <1>4, <2>3
  <2>5. \A i \in 1 .. Len(more) : (event.from + 1) + i - 1 = event.from + i
                                  /\ i \in 1 .. event.upto - (event.from + 1) + 1
    BY <1>4, <2>4
  <2>. QED  BY <2>3, <2>4, <2>5
<1>6. /\ incomingActions' = [incomingActions EXCEPT ![c] = queue \o more]
      /\ delivered' = [delivered EXCEPT ![c] = delivered[c] + 1]
      /\ order' = order /\ log' = log
      /\ globalTruthText' = globalTruthText /\ userCursors' = userCursors
      /\ versions' = versions /\ rendered' = rendered /\ strayed' = strayed
      /\ membership' = membership
  BY DEF ReceiveEvent, NextEvent, Enqueue, ActionsOf, serverVars, documentVars
<1>7. /\ queue \o more \in Seq(SentAction)
      /\ Len(queue \o more) = Len(queue) + Len(more)
      /\ \A i \in 1 .. Len(queue) + Len(more) :
           (queue \o more)[i] = IF i <= Len(queue) THEN queue[i]
                                                   ELSE more[i - Len(queue)]
  BY <1>1, <1>5, ConcatProperties
<1>8. TypeOK'
  <2>1. incomingActions' \in [Client -> Seq(SentAction)]
    BY <1>6, <1>7 DEF IInv, HTypeOK, TypeOK
  <2>2. delivered' \in [Client -> Nat]
    BY <1>2, <1>6 DEF IInv, HTypeOK, TypeOK
  <2>3. rendering' \in [Client -> {"idle", "notified", "rendering"}]
    BY DEF ReceiveEvent, IInv, HTypeOK, TypeOK
  <2>. QED
    BY <1>6, <2>1, <2>2, <2>3 DEF ReceiveEvent, IInv, HTypeOK, TypeOK
<1>9. \A n : Upto(n)' = Upto(n)
  BY <1>6 DEF Upto
<1>10. /\ delivered'[c] = delivered[c] + 1
       /\ incomingActions'[c] = queue \o more
       /\ \A d \in Client : d # c => /\ delivered'[d] = delivered[d]
                                     /\ incomingActions'[d] = incomingActions[d]
  BY <1>6 DEF IInv, HTypeOK, TypeOK
<1>11. Rendered(c) \in Nat /\ Rendered(c) + Len(queue) = event.from
  BY <1>4, RenderedType DEF IInv, HTypeOK
<1>12. Rendered(c)' = Rendered(c)
  <2>1. Rendered(c)' = Upto(delivered[c] + 1) - Len(queue \o more)
    BY <1>9, <1>10 DEF Rendered
  <2>. QED  BY <1>1, <1>4, <1>5, <1>7, <1>11, <2>1
<1>13. \A d \in Client : Rendered(d)' = Rendered(d) /\ Doc(d)' = Doc(d)
  <2>1. \A d \in Client : Doc(d)' = Doc(d)
    BY <1>6 DEF Doc
  <2>2. \A d \in Client : d # c => Rendered(d)' = Rendered(d)
    BY <1>9, <1>10 DEF Rendered
  <2>. QED  BY <1>12, <2>1, <2>2
<1>14. LogDividesOrder'
  BY <1>6, <1>9 DEF IInv, LogDividesOrder
<1>15. QueueFollowsOrder'
  <2>1. delivered'[c] <= Len(log') /\ 0 <= Rendered(c)'
    BY <1>1, <1>2, <1>6, <1>10, <1>11, <1>12
  <2>2. ASSUME NEW i \in 1 .. Len(queue) + Len(more)
        PROVE  incomingActions'[c][i] = order'[Rendered(c)' + i]
    <3>1. i \in 1 .. Len(queue) + Len(more) /\ Len(more) \in Nat
      BY <1>4, <1>5
    <3>2. CASE i <= Len(queue)
      <4>1. queue[i] = order[Rendered(c) + i]
        BY <1>1, <3>1, <3>2 DEF IInv, QueueFollowsOrder
      <4>. QED  BY <1>6, <1>7, <1>10, <1>12, <3>1, <3>2, <4>1
    <3>3. CASE ~(i <= Len(queue))
      <4>. HIDE DEF more, queue
      <4>1. i - Len(queue) \in 1 .. Len(more)
        BY <1>1, <3>1, <3>3
      <4>2. more[i - Len(queue)] = order[event.from + (i - Len(queue))]
        BY <1>5, <4>1
      <4>3. event.from + (i - Len(queue)) = Rendered(c) + i
        BY <1>1, <1>4, <1>11, <3>1
      <4>4. (queue \o more)[i] = more[i - Len(queue)]
        BY <1>7, <3>1, <3>3
      <4>. QED  BY <1>6, <1>10, <1>12, <4>2, <4>3, <4>4
    <3>. QED  BY <3>2, <3>3
  <2>3. ASSUME NEW d \in Client, d # c
        PROVE  /\ delivered'[d] <= Len(log')
               /\ 0 <= Rendered(d)'
               /\ \A i \in 1 .. Len(incomingActions'[d]) :
                    incomingActions'[d][i] = order'[Rendered(d)' + i]
    BY <1>6, <1>10, <1>13, <2>3 DEF IInv, QueueFollowsOrder
  <2>4. Len(incomingActions'[c]) = Len(queue) + Len(more)
    BY <1>7, <1>10
  <2>. QED  BY <2>1, <2>2, <2>3, <2>4 DEF QueueFollowsOrder
<1>16. VersionsReplayOrder'
  BY <1>6 DEF IInv, VersionsReplayOrder
<1>17. ShowsItsVersion' /\ StrayedHaveLeft'
  BY <1>6, <1>13 DEF IInv, ShowsItsVersion, Position, StrayedHaveLeft
<1>18. RenderedFollowsOrder'
  BY <1>6, <1>13 DEF IInv, RenderedFollowsOrder
<1>. QED
  BY <1>6, <1>8, <1>13, <1>14, <1>15, <1>16, <1>17, <1>18
  DEF IInv, HTypeOK, NobodyMoves

\* The next action of a queue that is not empty.
LEMMA NextAction ==
  ASSUME IInv, NEW c \in Client, incomingActions[c] # <<>>
  PROVE  /\ Head(incomingActions[c]) \in SentAction
         /\ Head(incomingActions[c]) = order[Rendered(c) + 1]
         /\ Rendered(c) + 1 \in 1 .. Len(order)
         /\ Tail(incomingActions[c]) \in Seq(SentAction)
         /\ Len(Tail(incomingActions[c])) = Len(incomingActions[c]) - 1
         /\ \A i \in 1 .. Len(Tail(incomingActions[c])) :
              Tail(incomingActions[c])[i] = incomingActions[c][i + 1]
<1>. DEFINE queue == incomingActions[c]
<1>1. queue \in Seq(SentAction) /\ Len(queue) \in Nat /\ Len(order) \in Nat
  BY LenProperties DEF IInv, HTypeOK, TypeOK
<1>2. /\ Len(queue) # 0
      /\ Head(queue) \in SentAction
      /\ Head(queue) = queue[1]
      /\ Tail(queue) \in Seq(SentAction)
      /\ Len(Tail(queue)) = Len(queue) - 1
      /\ \A i \in 1 .. Len(Tail(queue)) : Tail(queue)[i] = queue[i + 1]
  BY <1>1, EmptySeq, HeadTailProperties
<1>3. Rendered(c) \in Nat /\ Rendered(c) + Len(queue) <= Len(order)
  BY RenderedType DEF IInv, HTypeOK
<1>4. queue[1] = order[Rendered(c) + 1]
  BY <1>1, <1>2 DEF IInv, QueueFollowsOrder
<1>5. Rendered(c) + 1 \in 1 .. Len(order)
  BY <1>1, <1>2, <1>3
<1>. QED  BY <1>2, <1>4, <1>5

\* A client that takes the next action out of its queue goes on in the order, and
\* its queue still follows.
LEMMA TakingKeepsOrder ==
  ASSUME IInv, NEW c \in Client, incomingActions[c] # <<>>, Takes(c),
         incomingActions' = [incomingActions EXCEPT ![c] = Tail(@)],
         UNCHANGED <<order, log, delivered>>
  PROVE  /\ incomingActions' \in [Client -> Seq(SentAction)]
         /\ rendered' \in [Client -> Seq(SentAction)]
         /\ LogDividesOrder' /\ QueueFollowsOrder' /\ RenderedFollowsOrder'
         /\ Rendered(c)' = Rendered(c) + 1
         /\ \A d \in Client : d # c => /\ Rendered(d)' = Rendered(d)
                                       /\ Position'[d] = Position[d]
<1>. DEFINE queue == incomingActions[c]
            here  == Rendered(c) + 1
<1>1. /\ queue \in Seq(SentAction) /\ Len(queue) \in Nat
      /\ rendered[c] \in Seq(SentAction) /\ Len(rendered[c]) \in Nat
  BY LenProperties DEF IInv, HTypeOK, TypeOK
<1>2. /\ Head(queue) \in SentAction
      /\ Head(queue) = order[here]
      /\ Tail(queue) \in Seq(SentAction)
      /\ Len(Tail(queue)) = Len(queue) - 1
      /\ \A i \in 1 .. Len(Tail(queue)) : Tail(queue)[i] = queue[i + 1]
  BY NextAction
<1>3. incomingActions' \in [Client -> Seq(SentAction)]
  BY <1>2 DEF IInv, HTypeOK, TypeOK
<1>4. /\ incomingActions'[c] = Tail(queue)
      /\ \A d \in Client : d # c => incomingActions'[d] = incomingActions[d]
  BY DEF IInv, HTypeOK, TypeOK
<1>5. /\ Rendered(c) \in Nat
      /\ Rendered(c) + Len(queue) = Upto(delivered[c])
  BY RenderedType DEF IInv, HTypeOK
<1>6. \A n : Upto(n)' = Upto(n)
  BY DEF Upto
<1>7. Rendered(c)' = here
  <2>1. Rendered(c)' = Upto(delivered[c]) - Len(Tail(queue))
    BY <1>4, <1>6 DEF Rendered
  <2>. QED  BY <1>1, <1>2, <1>5, <2>1
<1>8. \A d \in Client : d # c => Rendered(d)' = Rendered(d)
  BY <1>4, <1>6 DEF Rendered
<1>9. LogDividesOrder'
  BY <1>6 DEF IInv, LogDividesOrder
<1>10. QueueFollowsOrder'
  <2>1. delivered'[c] <= Len(log') /\ 0 <= Rendered(c)'
    BY <1>5, <1>7 DEF IInv, QueueFollowsOrder
  <2>2. ASSUME NEW i \in 1 .. Len(queue) - 1
        PROVE  Tail(queue)[i] = order[here + i]
    <3>1. i + 1 \in 1 .. Len(queue) /\ Tail(queue)[i] = queue[i + 1]
      BY <1>1, <1>2
    <3>2. queue[i + 1] = order[Rendered(c) + (i + 1)]
      BY <3>1 DEF IInv, QueueFollowsOrder
    <3>3. Rendered(c) + (i + 1) = here + i
      BY <1>5
    <3>. QED  BY <3>1, <3>2, <3>3
  <2>3. \A i \in 1 .. Len(incomingActions'[c]) :
          incomingActions'[c][i] = order'[Rendered(c)' + i]
    BY <1>2, <1>4, <1>7, <2>2
  <2>4. ASSUME NEW d \in Client, d # c
        PROVE  /\ delivered'[d] <= Len(log')
               /\ 0 <= Rendered(d)'
               /\ \A i \in 1 .. Len(incomingActions'[d]) :
                    incomingActions'[d][i] = order'[Rendered(d)' + i]
    BY <1>4, <1>8, <2>4 DEF IInv, QueueFollowsOrder
  <2>. QED  BY <2>1, <2>3, <2>4 DEF QueueFollowsOrder
<1>11. /\ rendered' \in [Client -> Seq(SentAction)]
       /\ rendered'[c] = Append(rendered[c], Head(queue))
       /\ \A d \in Client : d # c => rendered'[d] = rendered[d]
  <2>. DEFINE taken == Append(rendered[c], Head(queue))
  <2>1. taken \in Seq(SentAction)
    BY <1>1, <1>2, AppendProperties
  <2>2. rendered' = [rendered EXCEPT ![c] = taken]
    BY DEF Takes
  <2>. HIDE DEF taken
  <2>3. rendered \in [Client -> Seq(SentAction)]
    BY DEF IInv, HTypeOK
  <2>4. rendered'[c] = taken
    BY <2>2, <2>3
  <2>. QED  BY <2>1, <2>2, <2>3, <2>4 DEF taken
<1>12. RenderedFollowsOrder'
  <2>1. Len(rendered[c]) = Rendered(c)
        /\ \A i \in 1 .. Len(rendered[c]) : rendered[c][i] = order[i]
    BY DEF IInv, RenderedFollowsOrder
  <2>2. /\ Len(rendered'[c]) = Len(rendered[c]) + 1
        /\ rendered'[c][Len(rendered[c]) + 1] = Head(queue)
        /\ \A i \in 1 .. Len(rendered[c]) : rendered'[c][i] = rendered[c][i]
    BY <1>1, <1>2, <1>11, AppendProperties
  <2>3. ASSUME NEW i \in 1 .. Len(rendered'[c]) PROVE rendered'[c][i] = order[i]
    <3>1. CASE i = Len(rendered[c]) + 1
      BY <1>2, <2>1, <2>2, <3>1
    <3>2. CASE i # Len(rendered[c]) + 1
      <4>1. i \in 1 .. Len(rendered[c])
        BY <1>1, <2>2, <3>2
      <4>. QED  BY <2>1, <2>2, <4>1
    <3>. QED  BY <3>1, <3>2
  <2>4. ASSUME NEW d \in Client, d # c
        PROVE  /\ Len(rendered'[d]) = Rendered(d)'
               /\ \A i \in 1 .. Len(rendered'[d]) : rendered'[d][i] = order'[i]
    BY <1>8, <1>11, <2>4 DEF IInv, RenderedFollowsOrder
  <2>5. Len(rendered'[c]) = Rendered(c)'
    BY <1>7, <2>1, <2>2
  <2>. QED  BY <2>3, <2>4, <2>5 DEF RenderedFollowsOrder
<1>13. \A d \in Client : d # c => Position'[d] = Position[d]
  BY <1>11 DEF Position
<1>. QED  BY <1>3, <1>7, <1>8, <1>9, <1>10, <1>11, <1>12, <1>13

\* A rendering that the stacks interrupt takes the action too, and nothing changes
\* but that the client goes its own way from now on.
LEMMA StacksRaiseKeepsIInv ==
  ASSUME IInv, NEW c \in Client, HStacksRaise(c)
  PROVE  IInv' /\ OnlyMoves(c) /\ UNCHANGED <<documentVars, versions>>
<1>1. /\ incomingActions[c] # <<>> /\ Takes(c)
      /\ incomingActions' = [incomingActions EXCEPT ![c] = Tail(@)]
      /\ UNCHANGED <<order, log, delivered>>
      /\ UNCHANGED <<observing, timerValid, globalTruthText, userCursors, versions>>
      /\ strayed' = [strayed EXCEPT ![c] = TRUE]
      /\ membership' = [membership EXCEPT ![c] = IF @ = "in" THEN "leaving" ELSE @]
      /\ rendering' = [rendering EXCEPT ![c] = "idle"]
  BY DEF HStacksRaise, StacksRaise, serverVars, documentVars
<1>2. /\ incomingActions' \in [Client -> Seq(SentAction)]
      /\ rendered' \in [Client -> Seq(SentAction)]
      /\ LogDividesOrder' /\ QueueFollowsOrder' /\ RenderedFollowsOrder'
      /\ Rendered(c)' = Rendered(c) + 1
      /\ \A d \in Client : d # c => /\ Rendered(d)' = Rendered(d)
                                    /\ Position'[d] = Position[d]
  BY <1>1, TakingKeepsOrder
<1>3. HTypeOK'
  <2>1. rendering' \in [Client -> {"idle", "notified", "rendering"}]
    BY <1>1 DEF IInv, HTypeOK, TypeOK
  <2>2. membership' \in [Client -> {"in", "leaving", "out"}]
    BY <1>1 DEF IInv, HTypeOK, TypeOK
  <2>3. strayed' \in [Client -> BOOLEAN]
    BY <1>1 DEF IInv, HTypeOK
  <2>. QED  BY <1>1, <1>2, <2>1, <2>2, <2>3 DEF IInv, HTypeOK, TypeOK
<1>4. /\ membership'[c] # "in" /\ strayed'[c]
      /\ \A d \in Client : d # c => /\ membership'[d] = membership[d]
                                    /\ strayed'[d] = strayed[d]
  BY <1>1 DEF IInv, HTypeOK, TypeOK
<1>5. \A d \in Client : Doc(d)' = Doc(d)
  BY <1>1 DEF Doc
<1>6. VersionsReplayOrder'
  BY <1>1 DEF IInv, VersionsReplayOrder
<1>7. ShowsItsVersion'
  BY <1>1, <1>2, <1>4, <1>5 DEF IInv, ShowsItsVersion
<1>8. StrayedHaveLeft'
  BY <1>4 DEF IInv, StrayedHaveLeft
<1>9. OnlyMoves(c)
  BY <1>2, <1>4, <1>5 DEF OnlyMoves
<1>. QED  BY <1>1, <1>2, <1>3, <1>6, <1>7, <1>8, <1>9 DEF IInv, documentVars

\* The client that is furthest ahead adds the version that results; for a client
\* behind it that version is there already, because rendering is a function.
LEMMA RenderNextKeepsIInv ==
  ASSUME IInv, NEW c \in Client, HRenderNext(c)
  PROVE  IInv' /\ OnlyMoves(c)
<1>. DEFINE queue  == incomingActions[c]
            action == Head(queue)
            after  == Render(Doc(c), action)
            here   == Rendered(c) + 1
<1>1. /\ order \in Seq(SentAction) /\ Len(order) \in Nat
      /\ versions \in Seq(Document) /\ Len(versions) \in Nat
      /\ DOMAIN versions = 1 .. Len(versions)
  BY LenProperties DEF IInv, HTypeOK, TypeOK
<1>2. /\ queue # <<>> /\ Takes(c)
      /\ incomingActions' = [incomingActions EXCEPT ![c] = Tail(@)]
      /\ UNCHANGED <<order, log, delivered>>
      /\ UNCHANGED <<observing, timerValid, strayed>>
      /\ globalTruthText' = [globalTruthText EXCEPT ![c] = after.text]
      /\ userCursors' = [userCursors EXCEPT ![c] = after.cursors]
  BY DEF HRenderNext, RenderNext, serverVars
<1>3. /\ action \in SentAction
      /\ action = order[here]
      /\ here \in 1 .. Len(order)
  BY <1>2, NextAction
<1>4. /\ incomingActions' \in [Client -> Seq(SentAction)]
      /\ rendered' \in [Client -> Seq(SentAction)]
      /\ LogDividesOrder' /\ QueueFollowsOrder' /\ RenderedFollowsOrder'
      /\ Rendered(c)' = here
      /\ \A d \in Client : d # c => /\ Rendered(d)' = Rendered(d)
                                    /\ Position'[d] = Position[d]
  BY <1>2, TakingKeepsOrder
<1>5. /\ after \in Document
      /\ after = [text |-> after.text, cursors |-> after.cursors]
      /\ after.text \in Text /\ after.cursors \in CursorMap
  <2>1. Doc(c) \in Document
    BY DocType DEF IInv, HTypeOK
  <2>. QED  BY <1>3, <2>1, RenderType DEF Document
<1>6. /\ membership' \in [Client -> {"in", "leaving", "out"}]
      /\ membership'[c] = "in" => membership[c] = "in"
      /\ \A d \in Client : d # c => membership'[d] = membership[d]
  <2>1. PICK m \in {"in", "leaving", "out"} :
          /\ membership' = [membership EXCEPT ![c] = m]
          /\ m = "in" => membership[c] = "in"
    <3>1. membership[c] \in {"in", "leaving", "out"}
      BY DEF IInv, HTypeOK, TypeOK
    <3>. QED  BY <3>1 DEF HRenderNext, RenderNext
  <2>. QED  BY <2>1 DEF IInv, HTypeOK, TypeOK
<1>7. TypeOK'
  <2>1. globalTruthText' \in [Client -> Text] /\ userCursors' \in [Client -> CursorMap]
    BY <1>2, <1>5 DEF IInv, HTypeOK, TypeOK
  <2>2. rendering' \in [Client -> {"idle", "notified", "rendering"}]
    BY DEF HRenderNext, RenderNext, IInv, HTypeOK, TypeOK
  <2>. QED  BY <1>2, <1>4, <1>6, <2>1, <2>2 DEF IInv, HTypeOK, TypeOK
<1>8. /\ Doc(c)' = after
      /\ \A d \in Client : d # c => Doc(d)' = Doc(d)
  <2>1. globalTruthText'[c] = after.text /\ userCursors'[c] = after.cursors
    BY <1>2 DEF IInv, HTypeOK, TypeOK
  <2>2. \A d \in Client : d # c => Doc(d)' = Doc(d)
    BY <1>2 DEF Doc, IInv, HTypeOK, TypeOK
  <2>. QED  BY <1>5, <2>1, <2>2 DEF Doc
<1>9. Position[c] = here
  BY PositionOfRendered DEF IInv
<1>10. ~strayed[c] => here \in 1 .. Len(versions) /\ Doc(c) = versions[here]
  BY <1>1, <1>9 DEF IInv, ShowsItsVersion
<1>11. Len(versions) \in 1 .. Len(order) + 1
       /\ \A k \in 1 .. Len(versions) - 1 :
            versions[k + 1] = Render(versions[k], order[k])
  BY DEF IInv, VersionsReplayOrder
<1>. HIDE DEF here, after
<1>12. /\ versions' \in Seq(Document)
       /\ Len(versions') \in Len(versions) .. Len(order) + 1
       /\ ~strayed[c] => here + 1 \in 1 .. Len(versions') /\ versions'[here + 1] = after
       /\ \A k \in 1 .. Len(versions) : versions'[k] = versions[k]
       /\ \A k \in 1 .. Len(versions') - 1 :
            versions'[k + 1] = Render(versions'[k], order[k])
  <2>1. CASE IsFirstToRender(c)
    <3>1. versions' = Append(versions, after) /\ here = Len(versions) /\ ~strayed[c]
      BY <1>9, <2>1 DEF HRenderNext, IsFirstToRender, Position, after
    <3>2. /\ versions' \in Seq(Document)
          /\ Len(versions') = Len(versions) + 1
          /\ versions'[Len(versions) + 1] = after
          /\ \A k \in 1 .. Len(versions) : versions'[k] = versions[k]
      BY <1>1, <1>5, <3>1
    <3>3. ASSUME NEW k \in 1 .. Len(versions)
          PROVE  versions'[k + 1] = Render(versions'[k], order[k])
      <4>1. CASE k = Len(versions)
        <5>1. after = Render(versions[here], order[here])
          BY <1>3, <1>10, <3>1 DEF after
        <5>. QED  BY <3>1, <3>2, <4>1, <5>1
      <4>2. CASE k # Len(versions)
        <5>1. Len(versions) \in Nat /\ k \in Int /\ 1 <= k /\ k <= Len(versions)
          BY <1>1
        <5>2. k \in 1 .. Len(versions) - 1 /\ k + 1 \in 1 .. Len(versions)
          BY <4>2, <5>1
        <5>. QED  BY <1>11, <3>2, <5>2
      <4>. QED  BY <4>1, <4>2
    <3>. QED  BY <1>1, <1>3, <3>1, <3>2, <3>3
  <2>2. CASE ~IsFirstToRender(c)
    <3>1. versions' = versions /\ (~strayed[c] => here # Len(versions))
      BY <1>9, <2>2 DEF HRenderNext, IsFirstToRender, Position
    <3>2. ASSUME ~strayed[c]
          PROVE  here + 1 \in 1 .. Len(versions) /\ versions[here + 1] = after
      <4>1. here \in 1 .. Len(versions) - 1
        BY <1>1, <1>10, <3>1, <3>2
      <4>2. versions[here + 1] = Render(versions[here], order[here])
        BY <1>11, <4>1
      <4>3. after = Render(versions[here], order[here])
        BY <1>3, <1>10, <3>2 DEF after
      <4>. QED  BY <1>1, <4>1, <4>2, <4>3
    <3>. QED  BY <1>1, <1>11, <3>1, <3>2
  <2>. QED  BY <2>1, <2>2
<1>13. VersionsReplayOrder'
  <2>1. Len(versions') \in 1 .. Len(order') + 1
    BY <1>1, <1>2, <1>11, <1>12
  <2>. QED  BY <1>2, <1>12, <2>1 DEF VersionsReplayOrder
<1>14. ShowsItsVersion'
  <2>1. DOMAIN versions' = 1 .. Len(versions')
    BY <1>12, LenProperties
  <2>2. Position'[c] = here + 1
    <3>1. Position'[c] = Rendered(c)' + 1
      BY <1>4 DEF Position, RenderedFollowsOrder
    <3>. QED  BY <1>4, <3>1
  <2>3. ASSUME NEW d \in Client, ~strayed[d], d # c
        PROVE  /\ Position[d] \in DOMAIN versions'
               /\ Doc(d) = versions'[Position[d]]
    <3>1. Position[d] \in 1 .. Len(versions) /\ Doc(d) = versions[Position[d]]
      BY <1>1, <2>3 DEF IInv, ShowsItsVersion
    <3>. QED  BY <1>1, <1>12, <2>1, <3>1
  <2>4. ASSUME NEW d \in Client, ~strayed'[d]
        PROVE  /\ Position'[d] \in DOMAIN versions'
               /\ Doc(d)' = versions'[Position'[d]]
    <3>1. ~strayed[d]
      BY <1>2, <2>4
    <3>2. CASE d = c
      BY <1>8, <1>12, <2>1, <2>2, <3>1, <3>2
    <3>3. CASE d # c
      BY <1>4, <1>8, <2>3, <3>1, <3>3
    <3>. QED  BY <3>2, <3>3
  <2>. QED  BY <2>4 DEF ShowsItsVersion
<1>15. StrayedHaveLeft'
  <2>1. \A d \in Client : membership'[d] = "in" => membership[d] = "in"
    BY <1>6
  <2>. QED  BY <1>2, <2>1 DEF IInv, StrayedHaveLeft
<1>16. OnlyMoves(c)
  BY <1>2, <1>4, <1>6, <1>8 DEF OnlyMoves, here
<1>17. HTypeOK'
  BY <1>2, <1>4, <1>7, <1>12 DEF IInv, HTypeOK
<1>. QED  BY <1>4, <1>13, <1>14, <1>15, <1>16, <1>17 DEF IInv

\* The user's edits: a broadcast, or one that fails and changes nothing shared.
LEMMA SendingKeepsIInv ==
  ASSUME IInv, NEW c \in Client, NEW series \in Series,
         SendActions(c, series),
         timerValid' \in [Client -> BOOLEAN],
         UNCHANGED <<membership, delivered, incomingActions, rendering,
                     observing, documentVars, versions, rendered, strayed>>
  PROVE  IInv' /\ NobodyMoves
<1>1. CASE Broadcast(c, series)
  BY <1>1, BroadcastKeepsIInv DEF documentVars
<1>2. CASE BroadcastFails(c)
  <2>1. TypeOK'
    BY <1>2 DEF BroadcastFails, serverVars, documentVars, IInv, HTypeOK, TypeOK
  <2>. QED
    BY <1>2, <2>1, QuietStepKeepsIInv DEF BroadcastFails, serverVars, documentVars
<1>. QED  BY <1>1, <1>2 DEF SendActions

\* Every step but the rendering of an action.
LEMMA OtherStepKeepsIInv ==
  ASSUME IInv, [HNext]_historyVars,
         ~ \E c \in Client : HRenderNext(c) \/ HStacksRaise(c)
  PROVE  IInv' /\ NobodyMoves /\ UNCHANGED <<documentVars, versions, rendered, strayed>>
<1>. USE DEF serverVars, documentVars
<1>. DEFINE Kept == <<versions, rendered, strayed>>
<1>1. TypeOK
  BY DEF IInv, HTypeOK
<1>2. ASSUME NEW c \in Client, ReceiveEvent(c), UNCHANGED Kept PROVE IInv' /\ NobodyMoves
  BY <1>2, ReceiveEventKeepsIInv
<1>3. ASSUME NEW c \in Client, MainThread(c), UNCHANGED Kept PROVE IInv' /\ NobodyMoves
  <2>1. CASE ShowTextView(c)
    <3>1. TypeOK'
      BY <1>1, <2>1 DEF ShowTextView, TypeOK
    <3>. QED  BY <1>3, <2>1, <3>1, QuietStepKeepsIInv DEF ShowTextView
  <2>2. CASE Exit(c)
    <3>1. TypeOK'
      BY <1>1, <2>2 DEF Exit, TypeOK
    <3>2. \A d \in Client : membership'[d] = "in" => membership[d] = "in"
      BY <1>1, <2>2 DEF Exit, TypeOK
    <3>. QED  BY <1>3, <2>2, <3>1, <3>2, QuietStepKeepsIInv DEF Exit
  <2>3. CASE Edit(c)
    <3>1. TypeOK'
      BY <1>1, <2>3 DEF Edit, TypeOK
    <3>. QED  BY <1>3, <2>3, <3>1, QuietStepKeepsIInv DEF Edit
  <2>4. CASE TimerFires(c)
    <3>1. timerValid' \in [Client -> BOOLEAN]
      BY <1>1, <2>4 DEF TimerFires, TimerSends, TypeOK
    <3>2. PICK series \in Series : SendActions(c, series)
      BY <2>4 DEF TimerFires, TimerSends
    <3>. QED  BY <1>3, <2>4, <3>1, <3>2, SendingKeepsIInv DEF TimerFires, TimerSends
  <2>5. CASE FlushAndEdit(c)
    <3>1. timerValid' \in [Client -> BOOLEAN]
      BY <1>1, <2>5 DEF FlushAndEdit, FlushSends, TypeOK
    <3>2. PICK series \in Series : SendActions(c, series)
      BY <2>5 DEF FlushAndEdit, FlushSends
    <3>. QED  BY <1>3, <2>5, <3>1, <3>2, SendingKeepsIInv DEF FlushAndEdit, FlushSends
  <2>6. CASE UndoOrRedo(c)
    <3>1. timerValid' \in [Client -> BOOLEAN]
      BY <1>1, <2>6 DEF UndoOrRedo, ButtonSends, TypeOK
    <3>2. PICK series \in Series : SendActions(c, series)
      BY <2>6 DEF UndoOrRedo, ButtonSends
    <3>. QED  BY <1>3, <2>6, <3>1, <3>2, SendingKeepsIInv DEF UndoOrRedo, ButtonSends
  <2>. QED
    BY <1>3, <2>1, <2>2, <2>3, <2>4, <2>5, <2>6 DEF MainThread
<1>4. ASSUME NEW c \in Client, DeferRender(c), UNCHANGED Kept PROVE IInv' /\ NobodyMoves
  <2>1. TypeOK'
    BY <1>1, <1>4 DEF DeferRender, TypeOK
  <2>. QED  BY <1>4, <2>1, QuietStepKeepsIInv DEF DeferRender
<1>5. ASSUME NEW c \in Client, BeginRender(c), UNCHANGED Kept PROVE IInv' /\ NobodyMoves
  <2>1. TypeOK'
    BY <1>1, <1>5 DEF BeginRender, TypeOK
  <2>. QED  BY <1>5, <2>1, QuietStepKeepsIInv DEF BeginRender
<1>6. ASSUME NEW c \in Client, FinishRender(c), UNCHANGED Kept PROVE IInv' /\ NobodyMoves
  <2>1. TypeOK'
    BY <1>1, <1>6 DEF FinishRender, TypeOK
  <2>. QED  BY <1>6, <2>1, QuietStepKeepsIInv DEF FinishRender
<1>7. ASSUME NEW c \in Client, LeaveCompletes(c), UNCHANGED Kept PROVE IInv' /\ NobodyMoves
  <2>1. TypeOK'
    BY <1>1, <1>7 DEF LeaveCompletes, TypeOK
  <2>2. \A d \in Client : membership'[d] = "in" => membership[d] = "in"
    BY <1>1, <1>7 DEF LeaveCompletes, TypeOK
  <2>. QED  BY <1>7, <2>1, <2>2, QuietStepKeepsIInv DEF LeaveCompletes
<1>8. CASE UNCHANGED historyVars
  <2>1. TypeOK'
    BY <1>1, <1>8 DEF historyVars, vars, TypeOK
  <2>. QED  BY <1>8, <2>1, QuietStepKeepsIInv DEF historyVars, vars
<1>9. IInv' /\ NobodyMoves
  BY <1>2, <1>3, <1>4, <1>5, <1>6, <1>7, <1>8 DEF HNext
<1>10. UNCHANGED <<documentVars, versions, rendered, strayed>>
  BY DEF HNext, historyVars, vars, MainThread, ShowTextView, Exit, Edit, TimerFires, TimerSends,
     FlushAndEdit, FlushSends, UndoOrRedo, ButtonSends, ReceiveEvent, DeferRender, BeginRender, FinishRender,
     LeaveCompletes
<1>. QED  BY <1>9, <1>10

\* What a step that renders nothing does to who is in the session.
LEMMA NextMembership ==
  ASSUME IInv, [HNext]_historyVars,
         ~ \E c \in Client : HRenderNext(c) \/ HStacksRaise(c)
  PROVE  \/ membership' = membership
         \/ \E c \in Client : membership' = [membership EXCEPT ![c] = "leaving"]
         \/ \E c \in Client : /\ membership[c] = "leaving"
                              /\ membership' = [membership EXCEPT ![c] = "out"]
<1>1. ASSUME NEW c \in Client, Exit(c)
      PROVE  membership' = membership
             \/ membership' = [membership EXCEPT ![c] = "leaving"]
  BY <1>1 DEF Exit, IInv, HTypeOK, TypeOK
<1>2. ASSUME NEW c \in Client, LeaveCompletes(c)
      PROVE  membership[c] = "leaving" /\ membership' = [membership EXCEPT ![c] = "out"]
  BY <1>2 DEF LeaveCompletes
<1>3. ASSUME NEW c \in Client,
             ShowTextView(c) \/ Edit(c) \/ TimerFires(c) \/ FlushAndEdit(c)
             \/ UndoOrRedo(c) \/ ReceiveEvent(c) \/ DeferRender(c)
             \/ BeginRender(c) \/ FinishRender(c)
      PROVE  membership' = membership
  BY <1>3 DEF ShowTextView, Edit, TimerFires, TimerSends, FlushAndEdit, FlushSends,
              UndoOrRedo, ButtonSends, ReceiveEvent, DeferRender, BeginRender, FinishRender
<1>4. CASE UNCHANGED historyVars
  BY <1>4 DEF historyVars, vars
<1>. QED  BY <1>1, <1>2, <1>3, <1>4 DEF HNext, MainThread

LEMMA StepKeepsIInv == IInv /\ [HNext]_historyVars => IInv'
BY RenderNextKeepsIInv, StacksRaiseKeepsIInv, OtherStepKeepsIInv

----------------------------------------------------------------------------
(***************************************************************************)
(* The theorems                                                            *)
(***************************************************************************)

\* The inductive invariant holds in every reachable state.
THEOREM InductiveInvariant == HSpec => []IInv
<1>. QED  BY InitEstablishesIInv, StepKeepsIInv, PTL DEF HSpec

\* Type correctness: in particular rendering keeps the copies of the document
\* documents, whatever the clients broadcast.
THEOREM TypeCorrect == HSpec => []HTypeOK
<1>1. IInv => HTypeOK
  BY DEF IInv
<1>. QED  BY <1>1, InductiveInvariant, PTL

\* Clients that have rendered equally much of the order have equal documents,
\* unless an update of the stacks has thrown one of them out of the session.
THEOREM ConvergenceHolds == HSpec => []Convergence
<1>1. IInv => Convergence
  <2>. SUFFICES ASSUME IInv, NEW c \in Client, NEW d \in Client,
                       Reliable(c), Reliable(d),
                       Len(rendered[c]) = Len(rendered[d])
                PROVE  Doc(c) = Doc(d)
    BY DEF Convergence
  <2>0. ~strayed[c] /\ ~strayed[d]
    BY DEF IInv, StrayedHaveLeft, Reliable
  <2>1. Doc(c) = versions[Position[c]] /\ Doc(d) = versions[Position[d]]
    BY <2>0 DEF IInv, ShowsItsVersion
  <2>2. Position[c] = Position[d]
    BY DEF Position
  <2>. QED  BY <2>1, <2>2
<1>. QED  BY <1>1, InductiveInvariant, PTL

\* What a client has rendered and what waits for it are together what was broadcast
\* up to the last event that arrived: no action is lost, repeated or reordered.
THEOREM ActionsInOrder == HSpec => []EachActionOnceInOrder
<1>1. IInv => EachActionOnceInOrder
  <2>. SUFFICES ASSUME IInv, NEW c \in Client
                PROVE  /\ delivered[c] <= Len(log)
                       /\ rendered[c] \o incomingActions[c]
                            = SubSeq(order, 1, Upto(delivered[c]))
    BY DEF EachActionOnceInOrder
  <2>. DEFINE done  == rendered[c]
              queue == incomingActions[c]
              upto  == Upto(delivered[c])
              both  == done \o queue
              whole == SubSeq(order, 1, upto)
  <2>1. /\ delivered[c] \in 0 .. Len(log)
        /\ Rendered(c) \in Nat
        /\ Rendered(c) + Len(queue) = upto
        /\ upto <= Len(order)
    BY RenderedType DEF IInv, HTypeOK
  <2>2. /\ order \in Seq(SentAction) /\ Len(order) \in Nat /\ Len(log) \in Nat
        /\ queue \in Seq(SentAction) /\ Len(queue) \in Nat
        /\ done \in Seq(SentAction) /\ Len(done) \in Nat
    BY LenProperties DEF IInv, HTypeOK, TypeOK
  <2>3. Len(done) = Rendered(c) /\ \A i \in 1 .. Len(done) : done[i] = order[i]
    BY DEF IInv, RenderedFollowsOrder
  <2>4. \A i \in 1 .. Len(queue) : queue[i] = order[Rendered(c) + i]
    BY DEF IInv, QueueFollowsOrder
  <2>. HIDE DEF done, queue, upto
  <2>5. /\ both \in Seq(SentAction)
        /\ Len(both) = upto
        /\ \A i \in 1 .. upto : both[i] = IF i <= Len(done) THEN done[i]
                                          ELSE queue[i - Len(done)]
    BY <2>1, <2>2, <2>3, ConcatProperties
  <2>6. /\ whole \in Seq(SentAction)
        /\ Len(whole) = upto
        /\ \A i \in 1 .. upto : whole[i] = order[i]
    <3>1. upto \in Nat
      BY <2>1, <2>2
    <3>2. \A i \in 1 .. upto : order[i] \in SentAction
      <4>1. \A i \in 1 .. upto : i \in 1 .. Len(order)
        BY <2>1, <2>2, <3>1
      <4>. QED  BY <2>2, <4>1, ElementOfSeq
    <3>3. /\ whole \in Seq(SentAction)
          /\ Len(whole) = IF 1 <= upto THEN upto - 1 + 1 ELSE 0
          /\ \A i \in 1 .. upto - 1 + 1 : whole[i] = order[1 + i - 1]
      BY <3>1, <3>2, SubSeqProperties
    <3>4. \A i \in 1 .. upto : i \in 1 .. upto - 1 + 1 /\ 1 + i - 1 = i
      BY <3>1
    <3>. QED  BY <3>1, <3>3, <3>4
  <2>7. ASSUME NEW i \in 1 .. upto PROVE both[i] = order[i]
    <3>1. CASE i <= Len(done)
      <4>1. i \in 1 .. Len(done)
        BY <2>1, <2>2, <3>1
      <4>. QED  BY <2>3, <2>5, <3>1, <4>1
    <3>2. CASE ~(i <= Len(done))
      <4>1. i - Len(done) \in 1 .. Len(queue)
            /\ Rendered(c) + (i - Len(done)) = i
        BY <2>1, <2>2, <2>3, <3>2
      <4>2. queue[i - Len(done)] = order[i]
        BY <2>4, <4>1
      <4>. QED  BY <2>5, <3>2, <4>2
    <3>. QED  BY <3>1, <3>2
  <2>. HIDE DEF both, whole
  <2>8. both = whole
    BY <2>5, <2>6, <2>7, SeqEqual
  <2>. QED  BY <2>1, <2>2, <2>8 DEF both, whole, done, queue, upto
<1>. QED  BY <1>1, InductiveInvariant, PTL

\* A session is one history of the document along which every client walks: the
\* replication implements ReplicatedDocument.
THEOREM ImplementsReplicatedDocument == HSpec => OneHistory
<1>. DEFINE placeOf(c) == IF strayed[c] THEN 0 ELSE Position[c]
            shownBy(c) == IF strayed[c] THEN EmptyDocument ELSE Doc(c)
            places     == [c \in Client |-> placeOf(c)]
            shownAll   == [c \in Client |-> shownBy(c)]
            present    == {c \in Client : membership[c] = "in"}
<1>1. HInit => Abstract!Init
  <2>. SUFFICES ASSUME HInit PROVE Abstract!Init
    OBVIOUS
  <2>1. ASSUME NEW c \in Client PROVE placeOf(c) = 1 /\ shownBy(c) = EmptyDocument
    <3>1. Len(rendered[c]) = 0 /\ ~strayed[c]
      BY EmptySeq DEF HInit
    <3>. QED  BY <3>1 DEF HInit, Init, Doc, EmptyDocument, Position
  <2>2. places = [c \in Client |-> 1]
    BY <2>1
  <2>3. shownAll = [c \in Client |-> EmptyDocument]
    BY <2>1
  <2>4. Abstract!EmptyDocument = EmptyDocument
    BY DEF Abstract!EmptyDocument, EmptyDocument
  <2>5. present = Client
    BY DEF HInit, Init
  <2>. QED  BY <2>2, <2>3, <2>4, <2>5 DEF Abstract!Init, HInit
<1>2. IInv /\ IInv' /\ [HNext]_historyVars => [Abstract!Next]_(Abstract!vars)
  <2>. SUFFICES ASSUME IInv, IInv', [HNext]_historyVars
                PROVE  Abstract!Next \/ UNCHANGED Abstract!vars
    OBVIOUS
  <2>1. ASSUME NEW c \in Client, OnlyMoves(c), strayed'[c] = strayed[c]
        PROVE  present' = present \/ present' = present \ {c}
    BY <2>1 DEF OnlyMoves
  <2>2. ASSUME NEW c \in Client, HRenderNext(c), ~strayed[c] PROVE Abstract!Next
    <3>1. OnlyMoves(c) /\ strayed' = strayed
      BY <2>2, RenderNextKeepsIInv DEF HRenderNext
    <3>2. /\ Position'[c] = Position[c] + 1
          /\ \A d \in Client : d # c => Position'[d] = Position[d]
      <4>1. \A d \in Client : /\ Position[d] = Rendered(d) + 1
                              /\ Position'[d] = Rendered(d)' + 1
        BY DEF IInv, RenderedFollowsOrder, Position
      <4>. QED  BY <3>1, <4>1 DEF OnlyMoves
    <3>3. places[c] = Position[c] /\ places'[c] = Position'[c]
      BY <2>2, <3>1
    <3>4. places' = [places EXCEPT ![c] = places[c] + 1]
      BY <2>2, <3>1, <3>2, <3>3
    <3>5. /\ Position[c] \in 1 .. Len(versions)
          /\ versions \in Seq(Document) /\ Len(versions) \in Nat
          /\ DOMAIN versions = 1 .. Len(versions)
      BY <2>2, LenProperties DEF IInv, HTypeOK, ShowsItsVersion
    <3>6. Doc(c)' = versions'[Position'[c]]
      BY <2>2, <3>1 DEF IInv, ShowsItsVersion
    <3>7. shownAll' = [shownAll EXCEPT ![c] = versions'[places'[c]]]
      <4>1. ASSUME NEW d \in Client, d # c PROVE shownBy(d)' = shownBy(d)
        BY <3>1, <4>1 DEF OnlyMoves
      <4>2. shownBy(c)' = versions'[places'[c]]
        BY <2>2, <3>1, <3>3, <3>6
      <4>. QED  BY <4>1, <4>2
    <3>8. \/ Position[c] < Len(versions) /\ UNCHANGED versions
          \/ Position[c] = Len(versions) /\ Abstract!NewVersion
      <4>1. CASE IsFirstToRender(c)
        <5>1. Position[c] = Len(versions)
          BY <4>1 DEF IsFirstToRender, Position
        <5>2. \E v \in Document : versions' = Append(versions, v)
          <6>1. incomingActions[c] # <<>>
            BY <2>2 DEF HRenderNext, RenderNext
          <6>2. Doc(c) \in Document /\ Head(incomingActions[c]) \in SentAction
            BY <6>1, NextAction, DocType DEF IInv, HTypeOK
          <6>3. Render(Doc(c), Head(incomingActions[c])) \in Document
            BY <6>2, RenderType
          <6>. QED  BY <2>2, <4>1, <6>3 DEF HRenderNext
        <5>3. Len(versions') = Len(versions) + 1
              /\ \A i \in 1 .. Len(versions) : versions'[i] = versions[i]
          BY <3>5, <5>2
        <5>4. Abstract!NewVersion
          BY <3>5, <5>3 DEF Abstract!NewVersion
        <5>. QED  BY <5>1, <5>4
      <4>2. CASE ~IsFirstToRender(c)
        <5>1. UNCHANGED versions /\ Position[c] # Len(versions)
          BY <2>2, <4>2 DEF IsFirstToRender, HRenderNext, Position
        <5>. QED  BY <3>5, <5>1
      <4>. QED  BY <4>1, <4>2
    <3>9. places[c] # 0
      BY <3>3, <3>5
    <3>10. present' = present \/ present' = present \ {c}
      BY <2>1, <3>1
    <3>. HIDE DEF placeOf, shownBy
    <3>11. Abstract!Advance(c)
      BY <3>3, <3>4, <3>7, <3>8, <3>9, <3>10
      DEF Abstract!Advance, Abstract!MayQuit, placeOf, shownBy
    <3>. QED  BY <3>11 DEF Abstract!Next
  <2>3. ASSUME NEW c \in Client, HStacksRaise(c), ~strayed[c] PROVE Abstract!Next
    <3>1. OnlyMoves(c) /\ UNCHANGED <<documentVars, versions>>
      BY <2>3, StacksRaiseKeepsIInv
    <3>2. strayed' = [strayed EXCEPT ![c] = TRUE]
      BY <2>3 DEF HStacksRaise
    <3>3. strayed'[c] = TRUE /\ \A d \in Client : d # c => strayed'[d] = strayed[d]
      BY <3>2 DEF IInv, HTypeOK
    <3>4. \A d \in Client : d # c => Position'[d] = Position[d]
      <4>1. \A d \in Client : /\ Position[d] = Rendered(d) + 1
                              /\ Position'[d] = Rendered(d)' + 1
        BY DEF IInv, RenderedFollowsOrder, Position
      <4>. QED  BY <3>1, <4>1 DEF OnlyMoves
    <3>5. places' = [places EXCEPT ![c] = 0]
      BY <3>3, <3>4
    <3>6. shownAll' = [shownAll EXCEPT ![c] = EmptyDocument]
      <4>1. ASSUME NEW d \in Client, d # c PROVE shownBy(d)' = shownBy(d)
        BY <3>1, <3>3, <4>1 DEF OnlyMoves
      <4>. QED  BY <3>3, <4>1
    <3>7. places[c] # 0
      <4>1. Position[c] = Rendered(c) + 1 /\ Rendered(c) \in Nat
        BY PositionOfRendered, RenderedType DEF IInv, HTypeOK
      <4>. QED  BY <2>3, <4>1
    <3>8. present' = present \ {c}
      <4>1. membership'[c] # "in"
        BY <3>3 DEF IInv, StrayedHaveLeft
      <4>. QED  BY <3>1, <4>1 DEF OnlyMoves
    <3>9. Abstract!EmptyDocument = EmptyDocument
      BY DEF Abstract!EmptyDocument, EmptyDocument
    <3>. HIDE DEF placeOf, shownBy
    <3>10. Abstract!LeaveHistory(c)
      BY <3>1, <3>5, <3>6, <3>7, <3>8, <3>9
      DEF Abstract!LeaveHistory, placeOf, shownBy
    <3>. QED  BY <3>10 DEF Abstract!Next
  <2>4. ASSUME NEW c \in Client, HRenderNext(c) \/ HStacksRaise(c), strayed[c]
        PROVE  UNCHANGED Abstract!vars
    <3>1. OnlyMoves(c)
      BY <2>4, RenderNextKeepsIInv, StacksRaiseKeepsIInv
    <3>2. strayed' = strayed /\ versions' = versions
      BY <2>4 DEF HRenderNext, HStacksRaise, IsFirstToRender, IInv, HTypeOK
    <3>3. \A d \in Client : d # c => Position'[d] = Position[d]
      <4>1. \A d \in Client : /\ Position[d] = Rendered(d) + 1
                              /\ Position'[d] = Rendered(d)' + 1
        BY DEF IInv, RenderedFollowsOrder, Position
      <4>. QED  BY <3>1, <4>1 DEF OnlyMoves
    <3>4. places' = places
      BY <2>4, <3>2, <3>3
    <3>5. shownAll' = shownAll
      <4>1. ASSUME NEW d \in Client PROVE shownBy(d)' = shownBy(d)
        <5>1. CASE d = c
          BY <2>4, <3>2, <5>1
        <5>2. CASE d # c
          BY <3>1, <3>2, <5>2 DEF OnlyMoves
        <5>. QED  BY <5>1, <5>2
      <4>. QED  BY <4>1
    <3>6. present' = present
      <4>1. membership[c] # "in" /\ membership'[c] # "in"
        BY <2>4, <3>2 DEF IInv, StrayedHaveLeft
      <4>. QED  BY <3>1, <4>1 DEF OnlyMoves
    <3>. QED  BY <3>2, <3>4, <3>5, <3>6 DEF Abstract!vars
  <2>5. CASE ~ \E c \in Client : HRenderNext(c) \/ HStacksRaise(c)
    <3>1. UNCHANGED <<documentVars, versions, rendered, strayed>>
      BY <2>5, OtherStepKeepsIInv
    <3>2. Position' = Position
      BY <3>1 DEF Position
    <3>3. places' = places
      BY <3>1, <3>2
    <3>4. shownAll' = shownAll
      BY <3>1 DEF Doc, documentVars
    <3>5. \/ present' = present
          \/ \E c \in Client : present' = present \ {c}
      <4>1. \/ membership' = membership
            \/ \E c \in Client : membership' = [membership EXCEPT ![c] = "leaving"]
            \/ \E c \in Client : membership[c] = "leaving"
                                 /\ membership' = [membership EXCEPT ![c] = "out"]
        BY <2>5, NextMembership
      <4>2. membership \in [Client -> {"in", "leaving", "out"}]
        BY DEF IInv, HTypeOK, TypeOK
      <4>3. CASE membership' = membership
        BY <4>3
      <4>4. ASSUME NEW c \in Client, membership' = [membership EXCEPT ![c] = "leaving"]
            PROVE  present' = present \ {c}
        BY <4>2, <4>4
      <4>5. ASSUME NEW c \in Client, membership[c] = "leaving",
                   membership' = [membership EXCEPT ![c] = "out"]
            PROVE  present' = present
        BY <4>2, <4>5
      <4>. QED  BY <4>1, <4>3, <4>4, <4>5
    <3>6. CASE present' = present
      BY <3>1, <3>3, <3>4, <3>6 DEF Abstract!vars
    <3>7. ASSUME NEW c \in Client, present' = present \ {c}
          PROVE  Abstract!Next
      <4>1. Abstract!Quit(c)
        BY <3>1, <3>3, <3>4, <3>7 DEF Abstract!Quit
      <4>. QED  BY <4>1 DEF Abstract!Next
    <3>. QED  BY <3>5, <3>6, <3>7
  <2>. QED  BY <2>2, <2>3, <2>4, <2>5
<1>. QED
  BY <1>1, <1>2, InductiveInvariant, PTL DEF HSpec, OneHistory, Abstract!Spec

----------------------------------------------------------------------------
(***************************************************************************)
(* Lemmas about texts                                                      *)
(***************************************************************************)

\* A stretch of a text, and its elements.
LEMMA StretchElements ==
  ASSUME NEW text \in Text, NEW from \in 1 .. Len(text) + 1,
         NEW upto \in from - 1 .. Len(text)
  PROVE  /\ SubSeq(text, from, upto) \in Seq(Char)
         /\ Len(SubSeq(text, from, upto)) = upto - from + 1
         /\ \A i \in 1 .. upto - from + 1 :
              SubSeq(text, from, upto)[i] = text[from + i - 1]
<1>1. text \in Seq(Char) /\ Len(text) \in Nat
  BY LenProperties DEF Text
<1>2. \A i \in from .. upto : text[i] \in Char
  BY <1>1, ElementOfSeq
<1>3. /\ SubSeq(text, from, upto) \in Seq(Char)
      /\ Len(SubSeq(text, from, upto))
           = IF from <= upto THEN upto - from + 1 ELSE 0
      /\ \A i \in 1 .. upto - from + 1 :
           SubSeq(text, from, upto)[i] = text[from + i - 1]
  BY <1>1, <1>2, SubSeqProperties
<1>. QED  BY <1>1, <1>3

\* A stretch from the beginning.
LEMMA PrefixElements ==
  ASSUME NEW text \in Text, NEW n \in 0 .. Len(text)
  PROVE  /\ SubSeq(text, 1, n) \in Seq(Char)
         /\ Len(SubSeq(text, 1, n)) = n
         /\ \A i \in 1 .. n : SubSeq(text, 1, n)[i] = text[i]
<1>1. Len(text) \in Nat
  BY LenProperties DEF Text
<1>2. 1 \in 1 .. Len(text) + 1 /\ n \in 1 - 1 .. Len(text)
  BY <1>1
<1>. QED  BY <1>1, <1>2, StretchElements

\* What is left of the replaced range stays as it is.
LEMMA SpliceKeepsPrefix ==
  ASSUME NEW text \in Text, NEW location \in Int, NEW length \in Int,
         InRange(text, location, length), NEW replacement \in Text,
         NEW n \in 0 .. location
  PROVE  SubSeq(Splice(text, location, length, replacement), 1, n)
           = SubSeq(text, 1, n)
<1>. DEFINE spliced == Splice(text, location, length, replacement)
<1>1. Len(text) \in Nat /\ Len(replacement) \in Nat
      /\ 0 <= location /\ 0 <= length /\ location + length <= Len(text)
  BY LenProperties DEF Text, InRange
<1>2. spliced \in Text /\ Len(spliced) = Len(text) - length + Len(replacement)
  BY SpliceType
<1>3. \A i \in 1 .. n : spliced[i] = text[i]
  <2>. SUFFICES ASSUME NEW i \in 1 .. n PROVE spliced[i] = text[i]
    OBVIOUS
  <2>1. i \in 1 .. Len(text) - length + Len(replacement) /\ i <= location
    BY <1>1
  <2>. QED  BY <2>1, SpliceElements
<1>. HIDE DEF spliced
<1>4. /\ SubSeq(spliced, 1, n) \in Seq(Char) /\ Len(SubSeq(spliced, 1, n)) = n
      /\ \A i \in 1 .. n : SubSeq(spliced, 1, n)[i] = spliced[i]
  <2>1. n \in 0 .. Len(spliced)
    BY <1>1, <1>2
  <2>. QED  BY <1>2, <2>1, PrefixElements
<1>5. /\ SubSeq(text, 1, n) \in Seq(Char) /\ Len(SubSeq(text, 1, n)) = n
      /\ \A i \in 1 .. n : SubSeq(text, 1, n)[i] = text[i]
  <2>1. n \in 0 .. Len(text)
    BY <1>1
  <2>. QED  BY <2>1, PrefixElements
<1>6. SubSeq(spliced, 1, n) = SubSeq(text, 1, n)
  BY <1>3, <1>4, <1>5, SeqEqual
<1>. QED  BY <1>6 DEF spliced

\* The text from position x to the end.
TextAfter(text, x) == SubSeq(text, x + 1, Len(text))

\* What is right of the replaced range stays as it is, and moves as a whole.
LEMMA SpliceKeepsSuffix ==
  ASSUME NEW text \in Text, NEW location \in Int, NEW length \in Int,
         InRange(text, location, length), NEW replacement \in Text,
         NEW x \in location + length .. Len(text),
         NEW y \in Int, y = x - length + Len(replacement)
  PROVE  TextAfter(Splice(text, location, length, replacement), y) = TextAfter(text, x)
<1>. DEFINE spliced == Splice(text, location, length, replacement)
<1>1. Len(text) \in Nat /\ Len(replacement) \in Nat
      /\ 0 <= location /\ 0 <= length /\ location + length <= Len(text)
  BY LenProperties DEF Text, InRange
<1>2. spliced \in Text /\ Len(spliced) = Len(text) - length + Len(replacement)
  BY SpliceType
<1>. DEFINE rest == Len(text) - x
<1>3. \A i \in 1 .. rest : spliced[y + i] = text[x + i]
  <2>. SUFFICES ASSUME NEW i \in 1 .. rest PROVE spliced[y + i] = text[x + i]
    OBVIOUS
  <2>1. /\ y + i \in 1 .. Len(text) - length + Len(replacement)
        /\ ~ (y + i <= location) /\ ~ (y + i <= location + Len(replacement))
        /\ y + i + length - Len(replacement) = x + i
    BY <1>1
  <2>2. spliced[y + i] = text[y + i + length - Len(replacement)]
    BY <2>1, SpliceElements
  <2>. QED  BY <2>1, <2>2
<1>4. y + 1 \in 1 .. Len(spliced) + 1 /\ Len(spliced) \in (y + 1) - 1 .. Len(spliced)
      /\ Len(spliced) - (y + 1) + 1 = rest /\ y \in Int
  BY <1>1, <1>2
<1>. HIDE DEF spliced
<1>. DEFINE after == SubSeq(spliced, y + 1, Len(spliced))
            tail  == SubSeq(text, x + 1, Len(text))
<1>5. /\ after \in Seq(Char) /\ Len(after) = rest
      /\ \A i \in 1 .. rest : after[i] = spliced[y + i]
  <2>1. /\ after \in Seq(Char) /\ Len(after) = Len(spliced) - (y + 1) + 1
        /\ \A i \in 1 .. Len(spliced) - (y + 1) + 1 : after[i] = spliced[(y + 1) + i - 1]
    BY <1>2, <1>4, StretchElements
  <2>2. \A i \in 1 .. rest : (y + 1) + i - 1 = y + i
    BY <1>1, <1>4
  <2>. QED  BY <1>4, <2>1, <2>2
<1>6. /\ tail \in Seq(Char) /\ Len(tail) = rest
      /\ \A i \in 1 .. rest : tail[i] = text[x + i]
  <2>1. x + 1 \in 1 .. Len(text) + 1 /\ Len(text) \in (x + 1) - 1 .. Len(text)
        /\ Len(text) - (x + 1) + 1 = rest /\ x \in Int
    BY <1>1
  <2>2. /\ tail \in Seq(Char) /\ Len(tail) = Len(text) - (x + 1) + 1
        /\ \A i \in 1 .. Len(text) - (x + 1) + 1 : tail[i] = text[(x + 1) + i - 1]
    BY <2>1, StretchElements
  <2>3. \A i \in 1 .. rest : (x + 1) + i - 1 = x + i
    BY <1>1, <2>1
  <2>. QED  BY <2>1, <2>2, <2>3
<1>. HIDE DEF after, tail
<1>7. after = tail
  BY <1>3, <1>5, <1>6, SeqEqual
<1>. QED  BY <1>7 DEF TextAfter, after, tail, spliced

\* The shorter of two stretches from the beginning of a text is a prefix of the
\* longer one.
LEMMA PrefixOfPrefix ==
  ASSUME NEW text \in Text, NEW n \in 0 .. Len(text), NEW m \in 0 .. n
  PROVE  IsPrefix(SubSeq(text, 1, m), SubSeq(text, 1, n))
<1>. DEFINE short == SubSeq(text, 1, m)
            long  == SubSeq(text, 1, n)
<1>1. Len(text) \in Nat
  BY LenProperties DEF Text
<1>2. m \in 0 .. Len(text)
  BY <1>1
<1>3. /\ short \in Seq(Char) /\ Len(short) = m
      /\ \A i \in 1 .. m : short[i] = text[i]
  BY <1>1, <1>2, PrefixElements
<1>4. /\ long \in Seq(Char) /\ Len(long) = n
      /\ \A i \in 1 .. n : long[i] = text[i]
  BY <1>1, <1>2, PrefixElements
<1>. HIDE DEF short, long
<1>5. /\ SubSeq(short, 1, m) \in Seq(Char) /\ Len(SubSeq(short, 1, m)) = m
      /\ \A i \in 1 .. m : SubSeq(short, 1, m)[i] = short[i]
  BY <1>1, <1>3, PrefixElements DEF Text
<1>6. /\ SubSeq(long, 1, m) \in Seq(Char) /\ Len(SubSeq(long, 1, m)) = m
      /\ \A i \in 1 .. m : SubSeq(long, 1, m)[i] = long[i]
  BY <1>1, <1>4, PrefixElements DEF Text
<1>7. SubSeq(short, 1, m) = SubSeq(long, 1, m)
  BY <1>3, <1>4, <1>5, <1>6, SeqEqual
<1>. QED  BY <1>1, <1>3, <1>4, <1>7 DEF IsPrefix, short, long

\* The shorter of two stretches up to the end of a text is a suffix of the longer.
LEMMA SuffixOfSuffix ==
  ASSUME NEW text \in Text, NEW n \in 0 .. Len(text), NEW m \in n .. Len(text)
  PROVE  IsSuffix(TextAfter(text, m), TextAfter(text, n))
<1>. DEFINE short  == SubSeq(text, m + 1, Len(text))
            long   == SubSeq(text, n + 1, Len(text))
            size   == Len(text)
<1>1. size \in Nat
  BY LenProperties DEF Text
<1>2. /\ m + 1 \in 1 .. Len(text) + 1 /\ size \in (m + 1) - 1 .. Len(text)
      /\ n + 1 \in 1 .. Len(text) + 1 /\ size \in (n + 1) - 1 .. Len(text)
  BY <1>1
<1>3. /\ short \in Seq(Char) /\ Len(short) = size - m
      /\ \A i \in 1 .. size - m : short[i] = text[m + i]
  BY <1>1, <1>2, StretchElements
<1>4. /\ long \in Seq(Char) /\ Len(long) = size - n
      /\ \A i \in 1 .. size - n : long[i] = text[n + i]
  BY <1>1, <1>2, StretchElements
<1>. HIDE DEF short, long
<1>5. /\ Reverse(short) \in Text /\ Len(Reverse(short)) = size - m
      /\ \A i \in 1 .. size - m : Reverse(short)[i] = text[size - i + 1]
  <2>1. \A i \in 1 .. size - m : (size - m) - i + 1 \in 1 .. size - m
                                 /\ m + ((size - m) - i + 1) = size - i + 1
    BY <1>1
  <2>2. Reverse(short) = [i \in 1 .. size - m |-> short[((size - m) - i) + 1]]
    BY <1>3 DEF Reverse
  <2>3. \A i \in 1 .. size - m : short[i] \in Char
    BY <1>3, ElementOfSeq
  <2>4. size - m \in Nat
    BY <1>1
  <2>5. Reverse(short) \in Seq(Char) /\ Len(Reverse(short)) = size - m
    BY <2>1, <2>2, <2>3, <2>4, IsASeq
  <2>. QED  BY <1>3, <2>1, <2>2, <2>5 DEF Text
<1>6. /\ Reverse(long) \in Text /\ Len(Reverse(long)) = size - n
      /\ \A i \in 1 .. size - n : Reverse(long)[i] = text[size - i + 1]
  <2>1. \A i \in 1 .. size - n : (size - n) - i + 1 \in 1 .. size - n
                                 /\ n + ((size - n) - i + 1) = size - i + 1
    BY <1>1
  <2>2. Reverse(long) = [i \in 1 .. size - n |-> long[((size - n) - i) + 1]]
    BY <1>4 DEF Reverse
  <2>3. \A i \in 1 .. size - n : long[i] \in Char
    BY <1>4, ElementOfSeq
  <2>4. size - n \in Nat
    BY <1>1
  <2>5. Reverse(long) \in Seq(Char) /\ Len(Reverse(long)) = size - n
    BY <2>1, <2>2, <2>3, <2>4, IsASeq
  <2>. QED  BY <1>4, <2>1, <2>2, <2>5 DEF Text
<1>. DEFINE one == SubSeq(Reverse(short), 1, size - m)
            two == SubSeq(Reverse(long), 1, size - m)
<1>7. /\ one \in Seq(Char) /\ Len(one) = size - m
      /\ \A i \in 1 .. size - m : one[i] = Reverse(short)[i]
  <2>1. size - m \in 0 .. Len(Reverse(short))
    BY <1>1, <1>5
  <2>. QED  BY <1>5, <2>1, PrefixElements
<1>8. /\ two \in Seq(Char) /\ Len(two) = size - m
      /\ \A i \in 1 .. size - m : two[i] = Reverse(long)[i]
  <2>1. size - m \in 0 .. Len(Reverse(long))
    BY <1>1, <1>6
  <2>. QED  BY <1>6, <2>1, PrefixElements
<1>. HIDE DEF one, two
<1>9. one = two
  <2>1. \A i \in 1 .. size - m : i \in 1 .. size - n
    BY <1>1
  <2>2. \A i \in 1 .. size - m : one[i] = two[i]
    BY <1>5, <1>6, <1>7, <1>8, <2>1
  <2>. QED  BY <1>7, <1>8, <2>2, SeqEqual
<1>10. IsPrefix(Reverse(short), Reverse(long))
  BY <1>1, <1>5, <1>6, <1>9 DEF IsPrefix, one, two
<1>. QED  BY <1>10 DEF IsSuffix, TextAfter, short, long

----------------------------------------------------------------------------
(***************************************************************************)
(* Rendering                                                               *)
(***************************************************************************)

\* The text around position y of newText is the text around position x of text,
\* as far as it still exists.
KeepsItsPlace(text, x, newText, y) ==
  LET before    == SubSeq(text, 1, x)
      after     == TextAfter(text, x)
      newBefore == SubSeq(newText, 1, y)
      newAfter  == TextAfter(newText, y)
  IN \/ newBefore = before
     \/ newAfter = after
     \/ IsPrefix(newBefore, before) /\ IsSuffix(newAfter, after)

\* A cursor at or after an insertion moves with the text it was before.
LEMMA InsertionKeepsCursors ==
  ASSUME NEW text \in Text, NEW location \in Int, NEW length \in Int, length = 0,
         InRange(text, location, length), NEW inserted \in Text,
         NEW x \in 0 .. Len(text), NEW y \in Int,
         y = IF x >= location THEN x + Len(inserted) ELSE x
  PROVE  LET newText == Splice(text, location, length, inserted)
         IN y \in 0 .. Len(newText) /\ KeepsItsPlace(text, x, newText, y)
<1>. DEFINE newText == Splice(text, location, length, inserted)
<1>1. /\ Len(inserted) \in Nat /\ Len(text) \in Nat
      /\ 0 <= location /\ location <= Len(text)
  BY LenProperties DEF Text, InRange
<1>2. Len(newText) = Len(text) - length + Len(inserted)
  BY SpliceType
<1>3. y \in 0 .. Len(newText)
  BY <1>1, <1>2
<1>4. CASE x < location
  <2>1. y = x /\ x \in 0 .. location
    BY <1>1, <1>4
  <2>2. SubSeq(newText, 1, x) = SubSeq(text, 1, x)
    BY <2>1, SpliceKeepsPrefix
  <2>. QED  BY <1>3, <2>1, <2>2 DEF KeepsItsPlace
<1>5. CASE location <= x
  <2>1. y = x - length + Len(inserted) /\ x \in location + length .. Len(text)
    BY <1>1, <1>5
  <2>2. TextAfter(newText, y) = TextAfter(text, x)
    BY <2>1, SpliceKeepsSuffix
  <2>. QED  BY <1>3, <2>2 DEF KeepsItsPlace
<1>. QED  BY <1>1, <1>4, <1>5

\* A cursor after a removal moves with the text it was after, and one within it
\* goes to where the removed text was.
LEMMA RemovalKeepsCursors ==
  ASSUME NEW text \in Text, NEW left \in Int, NEW length \in Int,
         InRange(text, left, length), NEW nothing \in Text, Len(nothing) <= 0,
         NEW x \in 0 .. Len(text), NEW y \in Int,
         y = IF x > left + length THEN x - length ELSE IF left < x THEN left ELSE x
  PROVE  LET newText == Splice(text, left, length, nothing)
         IN y \in 0 .. Len(newText) /\ KeepsItsPlace(text, x, newText, y)
<1>. DEFINE newText == Splice(text, left, length, nothing)
            right   == left + length
<1>1. /\ Len(text) \in Nat
      /\ 0 <= left /\ 0 <= length /\ right <= Len(text)
      /\ Len(nothing) \in Nat
  BY LenProperties DEF Text, InRange
<1>2. Len(newText) = Len(text) - length + Len(nothing)
  BY SpliceType
<1>3. y \in 0 .. Len(newText)
  BY <1>1, <1>2
<1>4. \A n \in 0 .. left : SubSeq(newText, 1, n) = SubSeq(text, 1, n)
  BY SpliceKeepsPrefix
<1>5. ASSUME NEW n \in right .. Len(text), NEW m \in Int, m = n - length
      PROVE  TextAfter(newText, m) = TextAfter(text, n)
  <2>1. m = n - length + Len(nothing) /\ n \in left + length .. Len(text)
    BY <1>1, <1>5
  <2>2. TextAfter(Splice(text, left, length, nothing), m) = TextAfter(text, n)
    BY <2>1, SpliceKeepsSuffix
  <2>. QED  BY <2>2
<1>. HIDE DEF newText
<1>6. CASE x <= left
  <2>1. y = x /\ x \in 0 .. left
    BY <1>1, <1>6
  <2>2. SubSeq(newText, 1, x) = SubSeq(text, 1, x)
    BY <1>4, <2>1
  <2>3. KeepsItsPlace(text, x, newText, y)
    BY <2>1, <2>2 DEF KeepsItsPlace
  <2>. QED  BY <1>3, <2>3 DEF newText
<1>7. CASE left < x /\ x <= right
  <2>1. y = left
    BY <1>1, <1>7
  <2>2. SubSeq(newText, 1, left) = SubSeq(text, 1, left)
    BY <1>1, <1>4
  <2>3. TextAfter(newText, left) = TextAfter(text, right)
    <3>1. right \in right .. Len(text) /\ left = right - length
      BY <1>1
    <3>. QED  BY <1>5, <3>1
  <2>4. IsPrefix(SubSeq(text, 1, left), SubSeq(text, 1, x))
    <3>1. x \in 0 .. Len(text) /\ left \in 0 .. x
      BY <1>1, <1>7
    <3>. QED  BY <3>1, PrefixOfPrefix
  <2>5. IsSuffix(TextAfter(text, right), TextAfter(text, x))
    <3>1. x \in 0 .. Len(text) /\ right \in x .. Len(text)
      BY <1>1, <1>7
    <3>. QED  BY <3>1, SuffixOfSuffix
  <2>. HIDE DEF right
  <2>6. KeepsItsPlace(text, x, newText, y)
    BY <2>1, <2>2, <2>3, <2>4, <2>5 DEF KeepsItsPlace
  <2>. QED  BY <1>3, <2>6 DEF newText
<1>8. CASE right < x
  <2>1. y = x - length /\ x \in right .. Len(text)
    BY <1>1, <1>8
  <2>2. TextAfter(newText, y) = TextAfter(text, x)
    BY <1>5, <2>1
  <2>3. KeepsItsPlace(text, x, newText, y)
    BY <2>2 DEF KeepsItsPlace
  <2>. QED  BY <1>3, <2>3 DEF newText
<1>. QED  BY <1>1, <1>6, <1>7, <1>8

\* The same of rendering, which moves the cursors of all and not the author's only.
LEMMA RenderKeepsCursors ==
  ASSUME NEW d \in Document, NEW a \in SentAction, a.length = 0,
         NEW u \in Client, d.cursors[u] \in 0 .. Len(d.text),
         NEW e, e = Render(d, a), e.text # d.text
  PROVE  /\ e.cursors[u] # NoCursor
         /\ e.cursors[u] \in 0 .. Len(e.text)
         /\ KeepsItsPlace(d.text, d.cursors[u], e.text, e.cursors[u])
<1>. DEFINE p == Placed(d.cursors, a)
            x == d.cursors[u]
            text == d.text
<1>1. /\ text \in Text /\ d.cursors \in CursorMap /\ Len(text) \in Nat
      /\ x \in Int /\ x \in 0 .. Len(text)
  BY LenProperties DEF Document, Text
<1>2. ~IsCursor(a) /\ Outcome(d, a) = "accept" /\ e = RenderText(d, p)
  <2>1. CASE IsCursor(a)
    BY <2>1 DEF Render, Document
  <2>2. CASE ~IsCursor(a) /\ Outcome(d, a) # "accept"
    BY <2>2 DEF Render
  <2>3. CASE ~IsCursor(a) /\ Outcome(d, a) = "accept"
    BY <2>3 DEF Render
  <2>. QED  BY <2>1, <2>2, <2>3
<1>3. CanSplice(text, p) /\ e.text = EditedText(text, p)
      /\ e.cursors = UpdateCursors(d.cursors, p)
  BY <1>2 DEF RenderText
<1>4. /\ p \in SentAction /\ p.type = a.type /\ p.text = a.text /\ p.user = a.user
      /\ a.type = "REMOVE" => p.length = Len(p.text)
  BY <1>1, PlacedType
<1>5. a.type \in {"INSERT", "REMOVE"}
  BY <1>2 DEF IsCursor, SentAction, Action, EditType
<1>6. e.cursors[u] = MovedCursor(x, p)
  <2>1. x # NoCursor
    BY <1>1, NoCursorAssumption
  <2>. HIDE DEF p
  <2>2. [d.cursors EXCEPT ![p.user] = IF @ = NoCursor THEN LeftIndex(p) ELSE @][u] = x
    BY <1>1, <2>1 DEF CursorMap
  <2>. QED  BY <1>3, <2>1, <2>2 DEF UpdateCursors
<1>7. /\ p.text \in Text /\ Len(p.text) \in Nat /\ p.location \in Int
      /\ p.length \in Int /\ <<>> \in Text /\ Len(<<>>) = 0
  BY <1>4, LenProperties, EmptySeq DEF SentAction, Action, Text
<1>8. ASSUME a.type = "INSERT"
      PROVE  /\ e.cursors[u] \in 0 .. Len(e.text)
             /\ KeepsItsPlace(text, x, e.text, e.cursors[u])
  <2>1. p.length = 0
    BY <1>8 DEF Placed, SentAction, Action
  <2>. DEFINE none == p.length
  <2>. HIDE DEF p, x, text
  <2>2. InRange(text, p.location, none) /\ e.text = Splice(text, p.location, none, p.text)
    BY <1>3, <1>4, <1>8, <2>1 DEF CanSplice, EditedText
  <2>3. e.cursors[u] = IF x >= p.location THEN x + Len(p.text) ELSE x
    BY <1>4, <1>6, <1>7, <1>8, <2>1 DEF MovedCursor, LeftIndex
  <2>4. e.cursors[u] \in Int
    BY <1>1, <1>7, <2>3
  <2>. DEFINE newText == Splice(text, p.location, none, p.text)
  <2>5. /\ e.cursors[u] \in 0 .. Len(newText)
        /\ KeepsItsPlace(text, x, newText, e.cursors[u])
    BY <1>1, <1>7, <2>1, <2>2, <2>3, <2>4, InsertionKeepsCursors
  <2>6. e.text = newText
    BY <2>2
  <2>. HIDE DEF newText
  <2>. QED  BY <2>5, <2>6
<1>9. ASSUME a.type = "REMOVE"
      PROVE  /\ e.cursors[u] \in 0 .. Len(e.text)
             /\ KeepsItsPlace(text, x, e.text, e.cursors[u])
  <2>. DEFINE nothing == <<>>
              left    == LeftIndex(p)
  <2>1. /\ InRange(text, left, p.length)
        /\ e.text = Splice(text, left, p.length, nothing)
    BY <1>2, <1>3, <1>4, <1>9 DEF Outcome, VerifyEdit, EditedText
  <2>2. /\ left = p.location - p.length /\ left \in Int
        /\ RightIndex(p) = left + p.length
    BY <1>4, <1>7, <1>9 DEF LeftIndex, RightIndex
  <2>3. nothing \in Text /\ Len(nothing) <= 0
    BY <1>7
  <2>. HIDE DEF p, x, text, nothing, left
  <2>4. e.cursors[u] = IF x > left + p.length THEN x - p.length
                       ELSE IF left < x THEN left ELSE x
    BY <1>1, <1>4, <1>6, <1>7, <1>9, <2>2 DEF MovedCursor, left
  <2>5. e.cursors[u] \in Int
    BY <1>1, <1>7, <2>2, <2>4
  <2>. DEFINE newText == Splice(text, left, p.length, nothing)
  <2>6. /\ e.cursors[u] \in 0 .. Len(newText)
        /\ KeepsItsPlace(text, x, newText, e.cursors[u])
    BY <1>1, <1>7, <2>1, <2>2, <2>3, <2>4, <2>5, RemovalKeepsCursors
  <2>7. e.text = newText
    BY <2>1
  <2>. HIDE DEF newText
  <2>. QED  BY <2>6, <2>7
<1>10. /\ e.cursors[u] \in 0 .. Len(e.text)
       /\ KeepsItsPlace(text, x, e.text, e.cursors[u])
  BY <1>5, <1>8, <1>9
<1>11. e.cursors[u] \in Int
  BY <1>10
<1>. QED  BY <1>10, <1>11, NoCursorAssumption DEF x, text

----------------------------------------------------------------------------
(***************************************************************************)
(* The theorem                                                             *)
(***************************************************************************)

\* An action carries no length when it has been on the wire: an insertion that an
\* undo or a redo repeats is placed at its location and not before it.
NoLengths == \A i \in 1 .. Len(order) : order[i].length = 0

LEMMA BroadcastKeepsNoLengths ==
  ASSUME TypeOK, NoLengths, NEW c \in Client, NEW series \in Series,
         SendActions(c, series)
  PROVE  NoLengths'
<1>1. CASE BroadcastFails(c)
  BY <1>1 DEF BroadcastFails, serverVars, NoLengths
<1>2. CASE Broadcast(c, series)
  <2>. DEFINE sent == OnTheWireAll(c, series)
  <2>1. /\ order \in Seq(SentAction) /\ Len(order) \in Nat
        /\ series \in Seq(Action) /\ Len(series) \in Nat
    BY SeriesAssumption, LenProperties DEF TypeOK
  <2>2. sent \in Seq(SentAction) /\ Len(sent) = Len(series)
    BY <2>1, OnTheWireAllType
  <2>3. ASSUME NEW i \in 1 .. Len(series) PROVE sent[i].length = 0
    <3>1. sent[i] = OnTheWire(c, series[i])
      BY <2>1, LenProperties DEF OnTheWireAll
    <3>. QED  BY <3>1 DEF OnTheWire, CursorAction
  <2>4. order' = order \o sent
    BY <1>2 DEF Broadcast
  <2>. HIDE DEF sent
  <2>5. /\ Len(order') = Len(order) + Len(sent)
        /\ \A i \in 1 .. Len(order) + Len(sent) :
             order'[i] = IF i <= Len(order) THEN order[i] ELSE sent[i - Len(order)]
    BY <2>1, <2>2, <2>4, ConcatProperties
  <2>6. ASSUME NEW i \in 1 .. Len(order') PROVE order'[i].length = 0
    <3>1. CASE i <= Len(order)
      <4>1. i \in 1 .. Len(order) /\ order'[i] = order[i]
        BY <2>1, <2>2, <2>5, <3>1
      <4>. QED  BY <4>1 DEF NoLengths
    <3>2. CASE Len(order) < i
      <4>1. i - Len(order) \in 1 .. Len(series) /\ order'[i] = sent[i - Len(order)]
        BY <2>1, <2>2, <2>5, <3>2
      <4>. QED  BY <2>3, <4>1
    <3>. QED  BY <2>1, <2>2, <2>5, <3>1, <3>2
  <2>. QED  BY <2>6 DEF NoLengths
<1>. QED  BY <1>1, <1>2 DEF SendActions

LEMMA StepKeepsNoLengths ==
  ASSUME TypeOK, NoLengths, [HNext]_historyVars
  PROVE  NoLengths'
<1>1. ASSUME NEW c \in Client, TimerFires(c) PROVE NoLengths'
  BY <1>1, BroadcastKeepsNoLengths DEF TimerFires, TimerSends
<1>2. ASSUME NEW c \in Client, FlushAndEdit(c) PROVE NoLengths'
  BY <1>2, BroadcastKeepsNoLengths DEF FlushAndEdit, FlushSends
<1>3. ASSUME NEW c \in Client, UndoOrRedo(c) PROVE NoLengths'
  BY <1>3, BroadcastKeepsNoLengths DEF UndoOrRedo, ButtonSends
<1>4. ASSUME NEW c \in Client,
             ShowTextView(c) \/ Exit(c) \/ Edit(c) \/ HRenderNext(c) \/ HStacksRaise(c)
             \/ ReceiveEvent(c) \/ DeferRender(c) \/ BeginRender(c)
             \/ FinishRender(c) \/ LeaveCompletes(c)
      PROVE  NoLengths'
  <2>1. UNCHANGED order
    BY <1>4 DEF ShowTextView, Exit, Edit, HRenderNext, RenderNext, ReceiveEvent,
                DeferRender, BeginRender, FinishRender, LeaveCompletes, serverVars,
                HStacksRaise, StacksRaise
  <2>. QED  BY <2>1 DEF NoLengths
<1>5. CASE UNCHANGED historyVars
  BY <1>5 DEF historyVars, vars, NoLengths
<1>. QED  BY <1>1, <1>2, <1>3, <1>4, <1>5 DEF HNext, MainThread

\* Every cursor keeps its place in the text when an edit is rendered.
LEMMA StepKeepsCursors ==
  ASSUME IInv, NoLengths, [HNext]_historyVars,
         NEW c \in Client, NEW u \in Client,
         globalTruthText'[c] # globalTruthText[c], HasCursor(c, u)
  PROVE  /\ HasCursor(c, u)'
         /\ \/ Before(c, u)' = Before(c, u)
            \/ After(c, u)' = After(c, u)
            \/ /\ IsPrefix(Before(c, u)', Before(c, u))
               /\ IsSuffix(After(c, u)', After(c, u))
<1>1. TypeOK
  BY DEF IInv, HTypeOK
<1>2. PICK r \in Client : HRenderNext(r)
  <2>1. ~ UNCHANGED documentVars
    BY DEF documentVars
  <2>2. ASSUME NEW r \in Client, HStacksRaise(r) PROVE FALSE
    BY <2>1, <2>2, StacksRaiseKeepsIInv
  <2>. QED  BY <2>1, <2>2, OtherStepKeepsIInv
<1>. DEFINE action == Head(incomingActions[r])
            after  == Render(Doc(r), action)
<1>3. /\ globalTruthText' = [globalTruthText EXCEPT ![r] = after.text]
      /\ userCursors' = [userCursors EXCEPT ![r] = after.cursors]
      /\ incomingActions[r] # <<>>
  BY <1>2 DEF HRenderNext, RenderNext
<1>. HIDE DEF after
<1>4. r = c /\ globalTruthText'[c] = after.text /\ userCursors'[c] = after.cursors
  BY <1>1, <1>3 DEF TypeOK
<1>5. action \in SentAction /\ action.length = 0
  BY <1>3, NextAction DEF NoLengths
<1>. HIDE DEF action
<1>6. Doc(c) \in Document /\ Doc(c).text = globalTruthText[c]
      /\ Doc(c).cursors = userCursors[c]
  BY <1>1, DocType DEF Doc
<1>7. after = Render(Doc(c), action)
  BY <1>4 DEF after
<1>8. /\ userCursors'[c][u] # NoCursor
      /\ userCursors'[c][u] \in 0 .. Len(globalTruthText'[c])
      /\ KeepsItsPlace(globalTruthText[c], userCursors[c][u],
                       globalTruthText'[c], userCursors'[c][u])
  <2>1. Doc(c).cursors[u] \in 0 .. Len(Doc(c).text) /\ after.text # Doc(c).text
    BY <1>4, <1>6 DEF HasCursor
  <2>. QED  BY <1>4, <1>5, <1>6, <1>7, <2>1, RenderKeepsCursors
<1>. QED  BY <1>8 DEF HasCursor, Before, After, KeepsItsPlace, TextAfter

\* However the clients' edits interleave, rendering one leaves every participant's
\* cursor, at every client, between the characters it was between, as far as they
\* still exist (updateCursors against replaceCharactersInRange and insertString).
THEOREM CursorsKeepPlace == HSpec => CursorsKeepTheirPlace
<1>1. HInit => NoLengths
  <2>1. HInit => Len(order) = 0
    BY EmptySeq DEF HInit, Init
  <2>. QED  BY <2>1 DEF NoLengths
<1>2. IInv /\ NoLengths /\ [HNext]_historyVars => NoLengths'
  BY StepKeepsNoLengths DEF IInv, HTypeOK
<1>3. IInv /\ NoLengths /\ [HNext]_historyVars =>
        [\A c, u \in Client :
           /\ globalTruthText'[c] # globalTruthText[c]
           /\ HasCursor(c, u)
           => /\ HasCursor(c, u)'
              /\ \/ Before(c, u)' = Before(c, u)
                 \/ After(c, u)' = After(c, u)
                 \/ /\ IsPrefix(Before(c, u)', Before(c, u))
                    /\ IsSuffix(After(c, u)', After(c, u))]_vars
  BY StepKeepsCursors
<1>. QED
  BY <1>1, <1>2, <1>3, InductiveInvariant, PTL DEF HSpec, CursorsKeepTheirPlace
=============================================================================
