---------------------------- MODULE SessionProofs ----------------------------
(***************************************************************************)
(* That a client has one text view at a time and is in a session while it  *)
(* has one, for any number of clients, sessions, events and pressings of   *)
(* the start button, and for every order in which calls are answered; that *)
(* the client then has every event of that session that arrived; and the   *)
(* types of both.                                                          *)
(***************************************************************************)
EXTENDS Session, SequenceTheorems, FiniteSetTheorems, WellFoundedInduction,
        TLAPS

(***************************************************************************)
(* The inductive invariant.  That there is one text view says nothing of   *)
(* the text views that are about to be opened.  It becomes inductive with  *)
(* the callbacks that will open them: there is one at most, only while     *)
(* there is no text view, and only inside a session that the client is not *)
(* about to leave.                                                         *)
(***************************************************************************)

Callbacks == [kind : {"listed", "joined", "refused", "ended"}, list : Seq(BOOLEAN)]

Joins(queue) == {i \in DOMAIN queue : queue[i].kind = "joined"}

IsProcess(p) ==
  /\ p = [session |-> p.session, request |-> p.request, lists |-> p.lists,
          delivered |-> p.delivered, mainQueue |-> p.mainQueue,
          spinning |-> p.spinning, views |-> p.views, alert |-> p.alert,
          incomingActions |-> p.incomingActions, document |-> p.document]
  /\ p.request = [kind |-> p.request.kind, session |-> p.request.session]
  /\ p.session \in Nat
  /\ p.views \in Nat
  /\ p.mainQueue \in Seq(Callbacks)

Coherent(p) ==
  /\ \A i, j \in Joins(p.mainQueue) : i = j
  /\ p.views <= 1
  /\ Joins(p.mainQueue) # {} => p.views = 0
  /\ p.views > 0 \/ Joins(p.mainQueue) # {} =>
       p.session # 0 /\ p.request.kind = "none"

SessionRecords == [owner : Client \cup {Stranger}, open : BOOLEAN, events : Int]

Pasts == [startedClean : BOOLEAN, raised : BOOLEAN]

SessionShapes ==
  /\ sessions \in Seq(SessionRecords)
  /\ past \in [Client -> Pasts]
  /\ process = [c \in Client |-> process[c]]
  /\ \A c \in Client : IsProcess(process[c])

SessionInv ==
  /\ SessionShapes
  /\ \A c \in Client : past[c].raised \/ Coherent(process[c])

----------------------------------------------------------------------------
(***************************************************************************)
(* Lemmas about the callbacks that wait                                    *)
(***************************************************************************)

\* A callback that is not of joining changes nothing about those that are.
LEMMA JoinsOfAppend ==
  ASSUME NEW queue \in Seq(Callbacks), NEW callback \in Callbacks
  PROVE  /\ Append(queue, callback) \in Seq(Callbacks)
         /\ callback.kind # "joined" => Joins(Append(queue, callback)) = Joins(queue)
         /\ callback.kind = "joined" =>
              Joins(Append(queue, callback)) = Joins(queue) \cup {Len(queue) + 1}
<1>. DEFINE longer == Append(queue, callback)
<1>1. /\ longer \in Seq(Callbacks)
      /\ Len(longer) = Len(queue) + 1
      /\ \A i \in 1 .. Len(queue) : longer[i] = queue[i]
      /\ longer[Len(queue) + 1] = callback
  BY AppendProperties
<1>2. /\ Len(queue) \in Nat
      /\ DOMAIN queue = 1 .. Len(queue)
      /\ DOMAIN longer = 1 .. Len(queue) + 1
  BY <1>1, LenProperties
<1>. HIDE DEF longer
<1>3. \A i : i \in Joins(longer) <=>
               i \in Joins(queue) \/ (i = Len(queue) + 1 /\ callback.kind = "joined")
  BY <1>1, <1>2 DEF Joins
<1>4. callback.kind # "joined" => Joins(longer) = Joins(queue)
  BY <1>3
<1>5. callback.kind = "joined" => Joins(longer) = Joins(queue) \cup {Len(queue) + 1}
  BY <1>3
<1>. QED  BY <1>1, <1>4, <1>5 DEF longer

\* Nor do refusals.
LEMMA JoinsOfRefusals ==
  ASSUME NEW queue \in Seq(Callbacks), NEW n \in Nat
  PROVE  /\ queue \o [i \in 1 .. n |-> Refusal] \in Seq(Callbacks)
         /\ Joins(queue \o [i \in 1 .. n |-> Refusal]) = Joins(queue)
<1>. DEFINE refusals == [i \in 1 .. n |-> Refusal]
            longer == queue \o refusals
<1>1. Refusal \in Callbacks /\ Refusal.kind # "joined"
  BY EmptySeq DEF Refusal, Callbacks
<1>2. refusals \in Seq(Callbacks) /\ Len(refusals) = n
      /\ \A i \in 1 .. n : refusals[i] = Refusal
  BY <1>1, IsASeq
<1>. HIDE DEF refusals
<1>3. /\ longer \in Seq(Callbacks)
      /\ Len(longer) = Len(queue) + n
      /\ \A i \in 1 .. Len(queue) + n :
           longer[i] = IF i <= Len(queue) THEN queue[i] ELSE refusals[i - Len(queue)]
  BY <1>2, ConcatProperties
<1>4. /\ Len(queue) \in Nat
      /\ DOMAIN queue = 1 .. Len(queue)
      /\ DOMAIN longer = 1 .. Len(queue) + n
  BY <1>3, LenProperties
<1>. HIDE DEF longer
<1>5. \A i \in DOMAIN longer \ DOMAIN queue : longer[i] = Refusal
  BY <1>2, <1>3, <1>4
<1>6. \A i \in DOMAIN queue : i \in DOMAIN longer /\ longer[i] = queue[i]
  BY <1>3, <1>4
<1>7. Joins(longer) = Joins(queue)
  BY <1>1, <1>5, <1>6 DEF Joins
<1>. QED  BY <1>3, <1>7 DEF longer, refusals

\* One callback of joining at most remains so when the first callback is taken, and
\* none is left when that was the one.
LEMMA JoinsOfTail ==
  ASSUME NEW queue \in Seq(Callbacks), queue # <<>>
  PROVE  /\ Head(queue) \in Callbacks
         /\ Tail(queue) \in Seq(Callbacks)
         /\ (\A i, j \in Joins(queue) : i = j) =>
              /\ \A i, j \in Joins(Tail(queue)) : i = j
              /\ Joins(Tail(queue)) # {} => Joins(queue) # {}
              /\ Head(queue).kind = "joined" =>
                   Joins(queue) # {} /\ Joins(Tail(queue)) = {}
<1>. DEFINE tail == Tail(queue)
<1>1. /\ Head(queue) \in Callbacks
      /\ Head(queue) = queue[1]
      /\ tail \in Seq(Callbacks)
      /\ Len(tail) = Len(queue) - 1
      /\ \A i \in 1 .. Len(tail) : tail[i] = queue[i + 1]
  BY HeadTailProperties
<1>2. /\ Len(queue) \in Nat \ {0}
      /\ DOMAIN queue = 1 .. Len(queue)
      /\ DOMAIN tail = 1 .. Len(queue) - 1
  BY <1>1, LenProperties, EmptySeq
<1>. HIDE DEF tail
<1>3. \A i \in Joins(tail) : i \in Int /\ i >= 1 /\ i + 1 \in Joins(queue)
  BY <1>1, <1>2 DEF Joins
<1>4. Head(queue).kind = "joined" => 1 \in Joins(queue)
  BY <1>1, <1>2 DEF Joins
<1>5. ASSUME \A i, j \in Joins(queue) : i = j
      PROVE  /\ \A i, j \in Joins(tail) : i = j
             /\ Joins(tail) # {} => Joins(queue) # {}
             /\ Head(queue).kind = "joined" => Joins(queue) # {} /\ Joins(tail) = {}
  <2>1. ASSUME NEW i \in Joins(tail), NEW j \in Joins(tail) PROVE i = j
    <3>1. i + 1 = j + 1
      BY <1>3, <1>5
    <3>. QED  BY <1>3, <3>1
  <2>2. ASSUME Head(queue).kind = "joined", NEW i \in Joins(tail) PROVE FALSE
    <3>1. i + 1 = 1
      BY <1>3, <1>4, <1>5, <2>2
    <3>. QED  BY <1>3, <3>1
  <2>. QED  BY <1>3, <1>4, <2>1, <2>2
<1>. QED  BY <1>1, <1>5 DEF tail

----------------------------------------------------------------------------
(***************************************************************************)
(* Lemmas about what the code does to its own process                      *)
(***************************************************************************)

\* What the invariant says of a process, it says of the session, the request, the main
\* queue and the text views alone.
Matters(p) == <<p.session, p.request, p.mainQueue, p.views>>

LEMMA MattersAlone ==
  ASSUME NEW p, NEW q, Matters(q) = Matters(p)
  PROVE  Coherent(p) <=> Coherent(q)
BY DEF Matters, Coherent

LEMMA OtherFields ==
  ASSUME NEW p, IsProcess(p), NEW value
  PROVE  /\ IsProcess([p EXCEPT !.lists = value])
         /\ IsProcess([p EXCEPT !.delivered = value])
         /\ IsProcess([p EXCEPT !.spinning = value])
         /\ IsProcess([p EXCEPT !.alert = value])
         /\ IsProcess([p EXCEPT !.incomingActions = value])
         /\ IsProcess([p EXCEPT !.document = value])
         /\ Matters([p EXCEPT !.lists = value]) = Matters(p)
         /\ Matters([p EXCEPT !.delivered = value]) = Matters(p)
         /\ Matters([p EXCEPT !.spinning = value]) = Matters(p)
         /\ Matters([p EXCEPT !.alert = value]) = Matters(p)
         /\ Matters([p EXCEPT !.incomingActions = value]) = Matters(p)
         /\ Matters([p EXCEPT !.document = value]) = Matters(p)
<1>1. IsProcess([p EXCEPT !.lists = value])
  BY DEF IsProcess
<1>2. IsProcess([p EXCEPT !.delivered = value])
  BY DEF IsProcess
<1>3. IsProcess([p EXCEPT !.spinning = value])
  BY DEF IsProcess
<1>4. IsProcess([p EXCEPT !.alert = value])
  BY DEF IsProcess
<1>5. IsProcess([p EXCEPT !.incomingActions = value])
  BY DEF IsProcess
<1>6. IsProcess([p EXCEPT !.document = value])
  BY DEF IsProcess
<1>7. /\ Matters([p EXCEPT !.lists = value]) = Matters(p)
      /\ Matters([p EXCEPT !.delivered = value]) = Matters(p)
      /\ Matters([p EXCEPT !.spinning = value]) = Matters(p)
      /\ Matters([p EXCEPT !.alert = value]) = Matters(p)
      /\ Matters([p EXCEPT !.incomingActions = value]) = Matters(p)
      /\ Matters([p EXCEPT !.document = value]) = Matters(p)
  BY DEF IsProcess, Matters
<1>. QED  BY <1>1, <1>2, <1>3, <1>4, <1>5, <1>6, <1>7

\* A process that is in another session.
LEMMA InSession ==
  ASSUME NEW p, IsProcess(p), NEW value
  PROVE  LET q == [p EXCEPT !.session = value]
         IN /\ value \in Nat => IsProcess(q)
            /\ q.session = value /\ q.request = p.request
            /\ q.views = p.views /\ q.mainQueue = p.mainQueue
<1>. DEFINE q == [p EXCEPT !.session = value]
<1>1. /\ q.session = value /\ q.request = p.request /\ q.lists = p.lists
      /\ q.delivered = p.delivered /\ q.mainQueue = p.mainQueue
      /\ q.spinning = p.spinning /\ q.views = p.views /\ q.alert = p.alert
      /\ q.incomingActions = p.incomingActions /\ q.document = p.document
  BY DEF IsProcess
<1>2. q = [session |-> value, request |-> p.request, lists |-> p.lists,
           delivered |-> p.delivered, mainQueue |-> p.mainQueue,
           spinning |-> p.spinning, views |-> p.views, alert |-> p.alert,
           incomingActions |-> p.incomingActions, document |-> p.document]
  BY DEF IsProcess
<1>. HIDE DEF q
<1>3. value \in Nat => IsProcess(q)
  BY <1>1, <1>2, Zenon DEF IsProcess
<1>. QED  BY <1>1, <1>3 DEF q

\* A fresh process is coherent.
LEMMA FreshIsCoherent == IsProcess(FreshProcess) /\ Coherent(FreshProcess)
<1>1. FreshProcess.mainQueue = <<>> /\ <<>> \in Seq(Callbacks) /\ DOMAIN <<>> = {}
  BY EmptySeq DEF FreshProcess
<1>2. Joins(FreshProcess.mainQueue) = {}
  BY <1>1 DEF Joins
<1>3. IsProcess(FreshProcess)
  BY <1>1 DEF FreshProcess, NoRequest, IsProcess
<1>4. Coherent(FreshProcess)
  BY <1>2 DEF FreshProcess, Coherent
<1>. QED  BY <1>3, <1>4

\* A callback is put at the end of the main queue.
LEMMA PostType ==
  ASSUME NEW p, IsProcess(p),
         NEW kind \in {"listed", "joined", "refused", "ended"}, NEW list \in Seq(BOOLEAN)
  PROVE  /\ IsProcess(Post(p, kind, list))
         /\ Post(p, kind, list).session = p.session
         /\ Post(p, kind, list).request = p.request
         /\ Post(p, kind, list).views = p.views
         /\ kind # "joined" =>
              Joins(Post(p, kind, list).mainQueue) = Joins(p.mainQueue)
         /\ kind = "joined" =>
              Joins(Post(p, kind, list).mainQueue)
                = Joins(p.mainQueue) \cup {Len(p.mainQueue) + 1}
<1>. DEFINE callback == [kind |-> kind, list |-> list]
            q == Post(p, kind, list)
<1>1. callback \in Callbacks /\ callback.kind = kind
  BY DEF Callbacks
<1>2. p.mainQueue \in Seq(Callbacks)
  BY DEF IsProcess
<1>. HIDE DEF callback
<1>3. /\ Append(p.mainQueue, callback) \in Seq(Callbacks)
      /\ kind # "joined" => Joins(Append(p.mainQueue, callback)) = Joins(p.mainQueue)
      /\ kind = "joined" => Joins(Append(p.mainQueue, callback))
                              = Joins(p.mainQueue) \cup {Len(p.mainQueue) + 1}
  BY <1>1, <1>2, JoinsOfAppend
<1>4. q = [p EXCEPT !.mainQueue = Append(@, callback)]
  BY DEF Post, callback
<1>. DEFINE longer == Append(p.mainQueue, callback)
<1>5. q = [p EXCEPT !.mainQueue = longer]
  BY <1>4
<1>. HIDE DEF longer, q
<1>6. /\ q.session = p.session /\ q.request = p.request /\ q.views = p.views
      /\ q.mainQueue = longer
  BY <1>5 DEF IsProcess
<1>7. q = [session |-> q.session, request |-> q.request, lists |-> q.lists,
           delivered |-> q.delivered, mainQueue |-> q.mainQueue,
           spinning |-> q.spinning, views |-> q.views, alert |-> q.alert,
           incomingActions |-> q.incomingActions, document |-> q.document]
  BY <1>5 DEF IsProcess
<1>8. longer \in Seq(Callbacks)
  BY <1>3 DEF longer
<1>9. IsProcess(q)
  BY <1>6, <1>7, <1>8 DEF IsProcess
<1>. QED  BY <1>3, <1>6, <1>9 DEF longer, q

\* Posting anything but that the client has joined leaves a process coherent.
LEMMA PostIsCoherent ==
  ASSUME NEW p, IsProcess(p), NEW kind \in {"listed", "refused", "ended"},
         NEW list \in Seq(BOOLEAN)
  PROVE  /\ IsProcess(Post(p, kind, list))
         /\ Coherent(p) => Coherent(Post(p, kind, list))
<1>. DEFINE q == Post(p, kind, list)
<1>1. /\ IsProcess(q) /\ q.session = p.session /\ q.request = p.request
      /\ q.views = p.views /\ Joins(q.mainQueue) = Joins(p.mainQueue)
  <2>1. kind \in {"listed", "joined", "refused", "ended"} /\ kind # "joined"
    OBVIOUS
  <2>. QED  BY <2>1, PostType
<1>. HIDE DEF q
<1>2. Coherent(p) => Coherent(q)
  BY <1>1 DEF Coherent
<1>. QED  BY <1>1, <1>2 DEF q

\* deleteSession asks the framework to leave, or does nothing.
LEMMA LeavingType ==
  ASSUME NEW p, IsProcess(p)
  PROVE  /\ IsProcess(DeleteSession(p))
         /\ DeleteSession(p).views = p.views
         /\ DeleteSession(p).mainQueue = p.mainQueue
<1>. DEFINE request == [kind |-> "leave", session |-> p.session]
            asked == [p EXCEPT !.request = request]
<1>1. /\ asked.views = p.views /\ asked.mainQueue = p.mainQueue
      /\ asked.session = p.session /\ asked.request = request
  BY DEF IsProcess
<1>2. IsProcess(asked)
  BY <1>1 DEF IsProcess
<1>3. DeleteSession(p) = p \/ DeleteSession(p) = asked
  BY DEF DeleteSession
<1>. QED  BY <1>1, <1>2, <1>3

\* createSession.
LEMMA CreatingIsCoherent ==
  ASSUME NEW p, IsProcess(p)
  PROVE  /\ IsProcess(CreateSession(p))
         /\ Coherent(p) => Coherent(CreateSession(p))
<1>. DEFINE request == [kind |-> "create", session |-> 0]
            asked == [p EXCEPT !.request = request]
<1>1. CASE Refuses(p, "create")
  <2>1. <<>> \in Seq(BOOLEAN) /\ CreateSession(p) = Post(p, "refused", <<>>)
    BY <1>1, EmptySeq DEF CreateSession
  <2>. QED  BY <2>1, PostIsCoherent
<1>2. CASE ~Refuses(p, "create")
  <2>1. /\ asked.views = p.views /\ asked.mainQueue = p.mainQueue
        /\ asked.session = p.session /\ asked.request = request
    BY DEF IsProcess
  <2>2. IsProcess(asked)
    BY <2>1 DEF IsProcess
  <2>3. p.session = 0
    BY <1>2 DEF Refuses
  <2>4. Coherent(p) => Coherent(asked)
    BY <2>1, <2>3 DEF Coherent
  <2>5. CreateSession(p) = asked
    BY <1>2 DEF CreateSession
  <2>. QED  BY <2>2, <2>4, <2>5
<1>. QED  BY <1>1, <1>2

\* joinSession, for the sessions of a list.
LEMMA JoiningIsCoherent ==
  ASSUME NEW p, IsProcess(p), NEW found, found # {}, IsFiniteSet(found)
  PROVE  /\ IsProcess(JoinSessions(p, found))
         /\ Coherent(p) => Coherent(JoinSessions(p, found))
<1>. DEFINE refuses == Refuses(p, "join")
            errors == IF refuses THEN Cardinality(found) ELSE Cardinality(found) - 1
            queue == p.mainQueue \o [i \in 1 .. errors |-> Refusal]
            request == IF refuses THEN p.request
                       ELSE [kind |-> "join", session |-> Min(found)]
            asked == [p EXCEPT !.request = request]
            q == [asked EXCEPT !.mainQueue = queue]
<1>1. JoinSessions(p, found) = q
  BY DEF JoinSessions, IsProcess
<1>2. errors \in Nat
  <2>1. Cardinality(found) \in Nat /\ Cardinality(found) # 0
    BY FS_CardinalityType, FS_EmptySet
  <2>. QED  BY <2>1
<1>3. queue \in Seq(Callbacks) /\ Joins(queue) = Joins(p.mainQueue)
  <2>1. p.mainQueue \in Seq(Callbacks)
    BY DEF IsProcess
  <2>. HIDE DEF errors
  <2>. QED  BY <1>2, <2>1, JoinsOfRefusals
<1>4. request = [kind |-> request.kind, session |-> request.session]
  BY DEF IsProcess
<1>5. /\ refuses => request = p.request
      /\ ~refuses => p.session = 0
  BY DEF Refuses
<1>. HIDE DEF refuses, queue, request
<1>6. /\ q.session = p.session /\ q.views = p.views
      /\ q.request = request /\ q.mainQueue = queue
  BY DEF IsProcess
<1>7. q = [session |-> q.session, request |-> q.request, lists |-> q.lists,
           delivered |-> q.delivered, mainQueue |-> q.mainQueue,
           spinning |-> q.spinning, views |-> q.views, alert |-> q.alert,
           incomingActions |-> q.incomingActions, document |-> q.document]
  <2>1. asked = [session |-> asked.session, request |-> asked.request,
                 lists |-> asked.lists, delivered |-> asked.delivered,
                 mainQueue |-> asked.mainQueue, spinning |-> asked.spinning,
                 views |-> asked.views, alert |-> asked.alert,
                 incomingActions |-> asked.incomingActions,
                 document |-> asked.document]
    BY DEF IsProcess
  <2>. HIDE DEF asked
  <2>. QED  BY <2>1
<1>. HIDE DEF q
<1>8. IsProcess(q)
  BY <1>3, <1>4, <1>6, <1>7 DEF IsProcess
<1>9. Coherent(p) => Coherent(q)
  BY <1>3, <1>5, <1>6 DEF Coherent
<1>. QED  BY <1>1, <1>8, <1>9

\* The completion handler of findSession.
LEMMA FindingIsCoherent ==
  ASSUME NEW p, IsProcess(p), NEW list \in Seq(BOOLEAN)
  PROVE  /\ IsProcess(FoundSessions(p, list))
         /\ Coherent(p) => Coherent(FoundSessions(p, list))
<1>. DEFINE open == {s \in DOMAIN list : list[s]}
<1>1. IsFiniteSet(open)
  <2>1. Len(list) \in Int /\ DOMAIN list = 1 .. Len(list)
    BY LenProperties
  <2>2. IsFiniteSet(1 .. Len(list))
    BY <2>1, FS_Interval
  <2>3. open \in SUBSET (1 .. Len(list))
    BY <2>1
  <2>. QED  BY <2>2, <2>3, FS_Subset
<1>2. FoundSessions(p, list) = IF open = {} THEN CreateSession(p) ELSE JoinSessions(p, open)
  BY DEF FoundSessions
<1>. HIDE DEF open
<1>3. CASE open = {}
  BY <1>2, <1>3, CreatingIsCoherent
<1>4. CASE open # {}
  BY <1>1, <1>2, <1>4, JoiningIsCoherent
<1>. QED  BY <1>3, <1>4

\* joinedSession: the text view is the first.
LEMMA OpeningIsCoherent ==
  ASSUME NEW p, IsProcess(p)
  PROVE  /\ IsProcess(JoinedSession(p))
         /\ /\ p.views = 0
            /\ Joins(p.mainQueue) = {}
            /\ p.session # 0
            /\ p.request.kind = "none"
            => Coherent(JoinedSession(p))
<1>. DEFINE still == [p EXCEPT !.spinning = FALSE]
            shown == [still EXCEPT !.views = @ + 1]
            q == [shown EXCEPT !.document = <<>>]
<1>1. IsProcess(still) /\ Matters(still) = Matters(p)
  BY OtherFields, Zenon
<1>2. JoinedSession(p) = q
  BY DEF JoinedSession
<1>. HIDE DEF still
<1>3. /\ shown.session = p.session /\ shown.views = p.views + 1
      /\ shown.request = p.request /\ shown.mainQueue = p.mainQueue
  BY <1>1 DEF IsProcess, Matters
<1>4. IsProcess(shown)
  <2>. DEFINE views == still.views + 1
  <2>1. views \in Nat
    BY <1>1 DEF IsProcess
  <2>. HIDE DEF views
  <2>2. IsProcess([still EXCEPT !.views = views])
    BY <1>1, <2>1 DEF IsProcess
  <2>. QED  BY <1>1, <2>2 DEF views, IsProcess
<1>. HIDE DEF shown
<1>5. IsProcess(q) /\ Matters(q) = Matters(shown)
  BY <1>4, OtherFields
<1>. HIDE DEF q
<1>6. /\ p.views = 0
      /\ Joins(p.mainQueue) = {}
      /\ p.session # 0
      /\ p.request.kind = "none"
      => Coherent(q)
  BY <1>3, <1>5 DEF Coherent, Matters
<1>. QED  BY <1>2, <1>5, <1>6

\* A callback on the main thread.
LEMMA CallbackIsCoherent ==
  ASSUME NEW p, IsProcess(p), p.mainQueue # <<>>
  PROVE  LET q == Callback([p EXCEPT !.mainQueue = Tail(@)], Head(p.mainQueue))
         IN IsProcess(q) /\ (Coherent(p) => Coherent(q))
<1>. DEFINE callback == Head(p.mainQueue)
            tail == Tail(p.mainQueue)
            taken == [p EXCEPT !.mainQueue = tail]
            q == Callback(taken, callback)
<1>1. p.mainQueue \in Seq(Callbacks)
  BY DEF IsProcess
<1>2. /\ callback \in Callbacks
      /\ tail \in Seq(Callbacks)
      /\ (\A i, j \in Joins(p.mainQueue) : i = j) =>
           /\ \A i, j \in Joins(tail) : i = j
           /\ Joins(tail) # {} => Joins(p.mainQueue) # {}
           /\ callback.kind = "joined" => Joins(p.mainQueue) # {} /\ Joins(tail) = {}
  BY <1>1, JoinsOfTail
<1>3. callback.kind \in {"listed", "joined", "refused", "ended"}
      /\ callback.list \in Seq(BOOLEAN)
  BY <1>2 DEF Callbacks
<1>. HIDE DEF callback, tail
<1>4. /\ taken.session = p.session /\ taken.request = p.request
      /\ taken.views = p.views /\ taken.mainQueue = tail
  BY DEF IsProcess
<1>5. IsProcess(taken)
  BY <1>2, <1>4 DEF IsProcess
<1>. HIDE DEF taken
<1>6. Coherent(p) => Coherent(taken)
  BY <1>2, <1>4 DEF Coherent
<1>7. IsProcess(q) /\ (Coherent(p) => Coherent(q))
  <2>1. CASE callback.kind = "listed"
    <3>1. q = FoundSessions(taken, callback.list)
      BY <2>1 DEF Callback
    <3>. QED  BY <1>3, <1>5, <1>6, <3>1, FindingIsCoherent
  <2>2. CASE callback.kind = "joined"
    <3>1. q = JoinedSession(taken)
      BY <2>2 DEF Callback, NotifySession
    <3>2. Coherent(p) => /\ taken.views = 0
                         /\ Joins(taken.mainQueue) = {}
                         /\ taken.session # 0
                         /\ taken.request.kind = "none"
      BY <1>2, <1>4, <2>2 DEF Coherent
    <3>. QED  BY <1>5, <3>1, <3>2, OpeningIsCoherent
  <2>3. CASE callback.kind = "refused"
    <3>1. q = taken
      BY <2>3 DEF Callback, NotifySession
    <3>. QED  BY <1>5, <1>6, <3>1
  <2>4. CASE callback.kind = "ended"
    <3>. DEFINE alerted == [taken EXCEPT !.alert = TRUE]
    <3>1. q = taken \/ q = alerted
      BY <2>4 DEF Callback, EndedSession
    <3>2. IsProcess(alerted) /\ Matters(alerted) = Matters(taken)
      BY <1>5, OtherFields, Zenon
    <3>. HIDE DEF alerted
    <3>3. Coherent(taken) => Coherent(alerted)
      BY <3>2, MattersAlone
    <3>. QED  BY <1>5, <1>6, <3>1, <3>2, <3>3
  <2>. QED  BY <1>3, <2>1, <2>2, <2>3, <2>4
<1>. QED  BY <1>7 DEF taken, tail, callback

----------------------------------------------------------------------------
(***************************************************************************)
(* The steps                                                               *)
(***************************************************************************)

\* A step of one process keeps the invariant if it leaves the process coherent, unless
\* a rendering has raised.
LEMMA OneProcessStep ==
  ASSUME SessionInv, NEW c \in Client, NEW q, IsProcess(q),
         process' = [process EXCEPT ![c] = q],
         sessions' \in Seq(SessionRecords),
         past' \in [Client -> Pasts],
         \A d \in Client : d # c => past'[d] = past[d],
         past'[c].raised \/ Coherent(q)
  PROVE  SessionInv'
<1>1. \A d \in Client : process'[d] = IF d = c THEN q ELSE process[d]
  BY DEF SessionInv, SessionShapes
<1>2. process' = [d \in Client |-> process'[d]]
  BY DEF SessionInv, SessionShapes
<1>3. \A d \in Client : IsProcess(process'[d])
  BY <1>1 DEF SessionInv, SessionShapes
<1>4. \A d \in Client : past'[d].raised \/ Coherent(process'[d])
  BY <1>1 DEF SessionInv
<1>. QED  BY <1>2, <1>3, <1>4 DEF SessionInv, SessionShapes

\* The sessions with one of them changed.
LEMMA SessionsType ==
  ASSUME sessions \in Seq(SessionRecords), NEW s, NEW record \in SessionRecords
  PROVE  /\ [sessions EXCEPT ![s].open = FALSE] \in Seq(SessionRecords)
         /\ s \in DOMAIN sessions =>
              [sessions EXCEPT ![s].events = @ + 1] \in Seq(SessionRecords)
         /\ \A owner \in Client \cup {Stranger} :
              [sessions EXCEPT ![s].owner = owner] \in Seq(SessionRecords)
         /\ Append(sessions, record) \in Seq(SessionRecords)
         /\ Len(sessions) \in Nat
         /\ DOMAIN sessions = 1 .. Len(sessions)
<1>1. /\ Len(sessions) \in Nat
      /\ DOMAIN sessions = 1 .. Len(sessions)
      /\ sessions = [t \in 1 .. Len(sessions) |-> sessions[t]]
      /\ \A t \in 1 .. Len(sessions) : sessions[t] \in SessionRecords
  BY LenProperties, ElementOfSeq
<1>2. [sessions EXCEPT ![s].open = FALSE] \in Seq(SessionRecords)
  <2>. DEFINE ended(t) == IF t = s THEN [sessions[t] EXCEPT !.open = FALSE] ELSE sessions[t]
  <2>1. \A t \in 1 .. Len(sessions) : ended(t) \in SessionRecords
    BY <1>1 DEF SessionRecords
  <2>2. [sessions EXCEPT ![s].open = FALSE] = [t \in 1 .. Len(sessions) |-> ended(t)]
    BY <1>1
  <2>. HIDE DEF ended
  <2>3. [t \in 1 .. Len(sessions) |-> ended(t)] \in Seq(SessionRecords)
    BY <1>1, <2>1, IsASeq
  <2>. QED  BY <2>2, <2>3
<1>3. ASSUME s \in DOMAIN sessions
      PROVE  [sessions EXCEPT ![s].events = @ + 1] \in Seq(SessionRecords)
  <2>. DEFINE more(t) == IF t = s THEN [sessions[t] EXCEPT !.events = @ + 1] ELSE sessions[t]
  <2>1. \A t \in 1 .. Len(sessions) : more(t) \in SessionRecords
    BY <1>1 DEF SessionRecords
  <2>2. [sessions EXCEPT ![s].events = @ + 1] = [t \in 1 .. Len(sessions) |-> more(t)]
    BY <1>1
  <2>. HIDE DEF more
  <2>3. [t \in 1 .. Len(sessions) |-> more(t)] \in Seq(SessionRecords)
    BY <1>1, <2>1, IsASeq
  <2>. QED  BY <2>2, <2>3
<1>4. ASSUME NEW owner \in Client \cup {Stranger}
      PROVE  [sessions EXCEPT ![s].owner = owner] \in Seq(SessionRecords)
  <2>. DEFINE owned(t) == IF t = s THEN [sessions[t] EXCEPT !.owner = owner] ELSE sessions[t]
  <2>1. \A t \in 1 .. Len(sessions) : owned(t) \in SessionRecords
    BY <1>1 DEF SessionRecords
  <2>2. [sessions EXCEPT ![s].owner = owner] = [t \in 1 .. Len(sessions) |-> owned(t)]
    BY <1>1
  <2>. HIDE DEF owned
  <2>3. [t \in 1 .. Len(sessions) |-> owned(t)] \in Seq(SessionRecords)
    BY <1>1, <2>1, IsASeq
  <2>. QED  BY <2>2, <2>3
<1>. QED  BY <1>1, <1>2, <1>3, <1>4, AppendProperties

\* A session ends, of which its members are told.
LEMMA EndingStep ==
  ASSUME SessionInv, NEW s, NEW processes,
         \A d \in Client : IsProcess(processes[d]),
         \A d \in Client : past'[d].raised \/ Coherent(processes[d]),
         past' \in [Client -> Pasts],
         EndSession(s, processes)
  PROVE  SessionInv'
<1>1. sessions' \in Seq(SessionRecords)
  <2>1. [owner |-> Stranger, open |-> TRUE, events |-> 0] \in SessionRecords
    BY DEF SessionRecords
  <2>2. sessions' = [sessions EXCEPT ![s].open = FALSE] /\ sessions \in Seq(SessionRecords)
    BY DEF EndSession, SessionInv, SessionShapes
  <2>. QED  BY <2>1, <2>2, SessionsType
<1>2. /\ process' = [d \in Client |-> process'[d]]
      /\ \A d \in Client : \/ process'[d] = processes[d]
                            \/ process'[d] = Post(processes[d], "ended", <<>>)
  BY DEF EndSession
<1>3. \A d \in Client : IsProcess(process'[d])
                         /\ (Coherent(processes[d]) => Coherent(process'[d]))
  <2>. SUFFICES ASSUME NEW d \in Client
                PROVE  IsProcess(process'[d])
                       /\ (Coherent(processes[d]) => Coherent(process'[d]))
    OBVIOUS
  <2>. DEFINE p == processes[d]
  <2>1. IsProcess(p) /\ <<>> \in Seq(BOOLEAN)
    BY EmptySeq
  <2>. HIDE DEF p
  <2>2. /\ IsProcess(Post(p, "ended", <<>>))
        /\ Coherent(p) => Coherent(Post(p, "ended", <<>>))
    BY <2>1, PostIsCoherent
  <2>. QED  BY <1>2, <2>1, <2>2 DEF p
<1>. QED  BY <1>1, <1>2, <1>3 DEF SessionInv, SessionShapes

\* A client leaves.
LEMMA LeavingStep ==
  ASSUME SessionInv, NEW c \in Client, NEW left, IsProcess(left),
         past'[c].raised \/ Coherent(left), past' \in [Client -> Pasts],
         \A d \in Client : d # c => past'[d] = past[d],
         Leave(c, left)
  PROVE  SessionInv'
<1>. DEFINE processes == [process EXCEPT ![c] = left]
<1>1. CASE Owns(c)
  <2>1. \A d \in Client : processes[d] = IF d = c THEN left ELSE process[d]
    BY DEF SessionInv, SessionShapes
  <2>2. EndSession(process[c].session, processes)
    BY <1>1 DEF Leave
  <2>3. \A d \in Client : IsProcess(processes[d])
    BY <2>1 DEF SessionInv, SessionShapes
  <2>4. \A d \in Client : past'[d].raised \/ Coherent(processes[d])
    BY <2>1 DEF SessionInv
  <2>. HIDE DEF processes
  <2>. QED  BY <2>2, <2>3, <2>4, EndingStep
<1>2. CASE ~Owns(c)
  <2>1. process' = processes /\ sessions' = sessions
    BY <1>2 DEF Leave
  <2>2. sessions' \in Seq(SessionRecords)
    BY <2>1 DEF SessionInv, SessionShapes
  <2>. QED  BY <2>1, <2>2, OneProcessStep
<1>. QED  BY <1>1, <1>2

\* A process of the invariant.
LEMMA ProcessOfInv ==
  ASSUME SessionInv, NEW c \in Client
  PROVE  /\ IsProcess(process[c])
         /\ past[c] \in Pasts
         /\ past[c].raised \/ Coherent(process[c])
         /\ process = [process EXCEPT ![c] = process[c]]
         /\ sessions \in Seq(SessionRecords)
         /\ past \in [Client -> Pasts]
BY DEF SessionInv, SessionShapes

LEMMA InitInv == Init => SessionInv
<1>. SUFFICES ASSUME Init PROVE SessionInv
  OBVIOUS
<1>1. sessions \in Seq(SessionRecords)
  BY EmptySeq DEF Init
<1>2. past \in [Client -> Pasts]
  BY DEF Init, NoPast, Pasts
<1>3. process = [c \in Client |-> process[c]]
      /\ \A c \in Client : process[c] = FreshProcess
  BY DEF Init
<1>. QED  BY <1>1, <1>2, <1>3, FreshIsCoherent DEF SessionInv, SessionShapes

LEMMA PressStartStep ==
  ASSUME SessionInv, NEW c \in Client, PressStart(c)
  PROVE  SessionInv'
<1>. DEFINE p == process[c]
            spins == [p EXCEPT !.spinning = TRUE]
            q == [spins EXCEPT !.lists = @ + 1]
<1>1. IsProcess(p) /\ (past[c].raised \/ Coherent(p))
  BY ProcessOfInv
<1>2. process' = [process EXCEPT ![c] = JoinSessionOnSplash(p)]
      /\ sessions' = sessions /\ past' = past
  BY DEF PressStart, SessionInv, SessionShapes
<1>3. JoinSessionOnSplash(p) = q
  BY DEF JoinSessionOnSplash
<1>. HIDE DEF p
<1>4. IsProcess(spins) /\ Matters(spins) = Matters(p)
  BY <1>1, OtherFields, Zenon
<1>. HIDE DEF spins
<1>5. IsProcess(q) /\ Matters(q) = Matters(spins)
  BY <1>4, OtherFields
<1>. HIDE DEF q
<1>6. past[c].raised \/ Coherent(q)
  BY <1>1, <1>4, <1>5, MattersAlone
<1>. QED  BY <1>2, <1>3, <1>5, <1>6, ProcessOfInv, OneProcessStep

LEMMA RunCallbackStep ==
  ASSUME SessionInv, NEW c \in Client, RunCallback(c)
  PROVE  SessionInv'
<1>. DEFINE p == process[c]
            q == Callback([p EXCEPT !.mainQueue = Tail(@)], Head(p.mainQueue))
<1>1. IsProcess(p) /\ (past[c].raised \/ Coherent(p))
  BY ProcessOfInv
<1>2. /\ process' = [process EXCEPT ![c] = q] /\ p.mainQueue # <<>>
      /\ sessions' = sessions /\ past' = past
  <2>1. process' = [process EXCEPT ![c] = q] /\ p.mainQueue # <<>>
    BY DEF RunCallback
  <2>. QED  BY <2>1 DEF RunCallback
<1>. HIDE DEF p
<1>3. IsProcess(q) /\ (Coherent(p) => Coherent(q))
  BY <1>1, <1>2, CallbackIsCoherent
<1>. HIDE DEF q
<1>. QED  BY <1>1, <1>2, <1>3, ProcessOfInv, OneProcessStep

LEMMA ExitStep ==
  ASSUME SessionInv, NEW c \in Client, Exit(c)
  PROVE  SessionInv'
<1>. DEFINE p == process[c]
            closed == [p EXCEPT !.views = 0]
            calm == [closed EXCEPT !.alert = FALSE]
            blank == [calm EXCEPT !.document = <<>>]
            q == DeleteSession(blank)
<1>1. IsProcess(p) /\ (past[c].raised \/ Coherent(p))
  BY ProcessOfInv
<1>2. process' = [process EXCEPT ![c] = ExitTextView(p)] /\ p.views > 0
      /\ sessions' = sessions /\ past' = past
  BY DEF Exit, SessionInv, SessionShapes
<1>3. ExitTextView(p) = q
  BY DEF ExitTextView
<1>. HIDE DEF p
<1>4. IsProcess(closed) /\ closed.views = 0 /\ closed.mainQueue = p.mainQueue
  BY <1>1 DEF IsProcess
<1>. HIDE DEF closed
<1>5. IsProcess(calm) /\ Matters(calm) = Matters(closed)
  BY <1>4, OtherFields, Zenon
<1>. HIDE DEF calm
<1>6. IsProcess(blank) /\ Matters(blank) = Matters(calm)
  BY <1>5, OtherFields
<1>. HIDE DEF blank
<1>7. /\ IsProcess(q) /\ q.views = blank.views /\ q.mainQueue = blank.mainQueue
  BY <1>6, LeavingType
<1>. HIDE DEF q
<1>8. q.views = 0 /\ q.mainQueue = p.mainQueue
  BY <1>4, <1>5, <1>6, <1>7 DEF Matters
<1>9. Coherent(p) => Coherent(q)
  <2>1. Coherent(p) => Joins(p.mainQueue) = {}
    BY <1>2 DEF Coherent
  <2>. QED  BY <1>8, <2>1 DEF Coherent
<1>. QED  BY <1>1, <1>2, <1>3, <1>7, <1>9, ProcessOfInv, OneProcessStep

LEMMA BroadcastStep ==
  ASSUME SessionInv, NEW c \in Client, Broadcast(c)
  PROVE  SessionInv'
<1>. DEFINE s == process[c].session
<1>1. /\ s \in DOMAIN sessions
      /\ sessions' = [sessions EXCEPT ![s].events = @ + 1]
      /\ process' = process /\ past' = past
  BY DEF Broadcast, OpenSessions
<1>2. [owner |-> Stranger, open |-> TRUE, events |-> 0] \in SessionRecords
  BY DEF SessionRecords
<1>. HIDE DEF s
<1>3. sessions' \in Seq(SessionRecords)
  BY <1>1, <1>2, SessionsType, ProcessOfInv
<1>. QED  BY <1>1, <1>3 DEF SessionInv, SessionShapes

LEMMA AnswerListStep ==
  ASSUME SessionInv, NEW c \in Client, AnswerList(c)
  PROVE  SessionInv'
<1>. DEFINE p == process[c]
            list == [s \in DOMAIN sessions |-> sessions[s].open]
            fewer == [p EXCEPT !.lists = @ - 1]
            q == Post(fewer, "listed", list)
<1>1. IsProcess(p) /\ (past[c].raised \/ Coherent(p))
  BY ProcessOfInv
<1>2. /\ process' = [process EXCEPT ![c] = q]
      /\ sessions' = sessions /\ past' = past
  <2>1. process' = [process EXCEPT ![c] = q]
    BY DEF AnswerList
  <2>. QED  BY <2>1 DEF AnswerList
<1>3. list \in Seq(BOOLEAN)
  <2>1. /\ Len(sessions) \in Nat /\ DOMAIN sessions = 1 .. Len(sessions)
        /\ \A s \in 1 .. Len(sessions) : sessions[s] \in SessionRecords
    BY ProcessOfInv, LenProperties, ElementOfSeq
  <2>2. \A s \in 1 .. Len(sessions) : sessions[s].open \in BOOLEAN
    BY <2>1 DEF SessionRecords
  <2>. QED  BY <2>1, <2>2, IsASeq
<1>. HIDE DEF p, list
<1>4. IsProcess(fewer) /\ Matters(fewer) = Matters(p)
  BY <1>1, OtherFields
<1>. HIDE DEF fewer
<1>5. IsProcess(q) /\ (Coherent(fewer) => Coherent(q))
  BY <1>3, <1>4, PostIsCoherent
<1>6. past[c].raised \/ Coherent(q)
  BY <1>1, <1>4, <1>5, MattersAlone
<1>. HIDE DEF q
<1>. QED  BY <1>2, <1>5, <1>6, ProcessOfInv, OneProcessStep

\* The client gets into a session that it asked for.
LEMMA GetsIntoStep ==
  ASSUME SessionInv, NEW c \in Client, NEW s \in Nat, s # 0,
         process[c].request.kind # "none", GetsInto(c, s),
         sessions' \in Seq(SessionRecords)
  PROVE  SessionInv'
<1>. DEFINE p == process[c]
            id == s
            into == [p EXCEPT !.session = id]
            done == [into EXCEPT !.request = NoRequest]
            fresh == [done EXCEPT !.delivered = 0]
            q == Post(fresh, "joined", <<>>)
            clean == p.incomingActions = <<>>
<1>1. IsProcess(p) /\ (past[c].raised \/ Coherent(p)) /\ p.request.kind # "none"
  BY ProcessOfInv
<1>2. process' = [process EXCEPT ![c] = q]
  BY Zenon DEF GetsInto
<1>3. /\ past' \in [Client -> Pasts]
      /\ past'[c].raised = past[c].raised
      /\ \A d \in Client : d # c => past'[d] = past[d]
  <2>1. past' = [past EXCEPT ![c].startedClean = clean] /\ clean \in BOOLEAN
    BY DEF GetsInto
  <2>. HIDE DEF clean
  <2>. QED  BY <2>1, ProcessOfInv DEF Pasts
<1>4. id \in Nat /\ id # 0
  OBVIOUS
<1>. HIDE DEF p, id
<1>5. /\ IsProcess(into) /\ into.session = id /\ into.views = p.views
      /\ into.mainQueue = p.mainQueue
  BY <1>1, <1>4, InSession
<1>. HIDE DEF into
<1>6. /\ IsProcess(done) /\ done.session = id /\ done.views = p.views
      /\ done.mainQueue = p.mainQueue /\ done.request.kind = "none"
  BY <1>5 DEF IsProcess, NoRequest
<1>. HIDE DEF done
<1>7. IsProcess(fresh) /\ Matters(fresh) = Matters(done)
  BY <1>6, OtherFields
<1>. HIDE DEF fresh
<1>8. /\ IsProcess(q) /\ q.session = fresh.session /\ q.request = fresh.request
      /\ q.views = fresh.views
      /\ Joins(q.mainQueue) = Joins(fresh.mainQueue) \cup {Len(fresh.mainQueue) + 1}
  <2>1. <<>> \in Seq(BOOLEAN) /\ "joined" \in {"listed", "joined", "refused", "ended"}
    BY EmptySeq
  <2>. QED  BY <1>7, <2>1, PostType
<1>. HIDE DEF q
<1>9. /\ q.session = id /\ q.request.kind = "none" /\ q.views = p.views
      /\ Joins(q.mainQueue) = Joins(p.mainQueue) \cup {Len(fresh.mainQueue) + 1}
  BY <1>6, <1>7, <1>8 DEF Matters
<1>10. Coherent(p) => Coherent(q)
  <2>. SUFFICES ASSUME Coherent(p) PROVE Coherent(q)
    OBVIOUS
  <2>1. ~(p.views > 0) /\ p.views \in Nat /\ Joins(p.mainQueue) = {}
    BY <1>1 DEF Coherent, IsProcess
  <2>2. p.views = 0
    BY <2>1
  <2>3. \A i, j \in Joins(q.mainQueue) : i = j
    BY <1>9, <2>1
  <2>. QED  BY <1>4, <1>9, <2>2, <2>3 DEF Coherent
<1>. QED  BY <1>1, <1>2, <1>3, <1>8, <1>10, OneProcessStep

\* The client is refused.
LEMMA IsRefusedStep ==
  ASSUME SessionInv, NEW c \in Client,
         process[c].request.kind # "none", IsRefused(c)
  PROVE  SessionInv'
<1>. DEFINE p == process[c]
            done == [p EXCEPT !.request = NoRequest]
            q == Post(done, "refused", <<>>)
<1>1. IsProcess(p) /\ (past[c].raised \/ Coherent(p)) /\ p.request.kind # "none"
  BY ProcessOfInv
<1>2. process' = [process EXCEPT ![c] = q] /\ sessions' = sessions /\ past' = past
  BY Zenon DEF IsRefused
<1>. HIDE DEF p
<1>3. /\ IsProcess(done) /\ done.views = p.views
      /\ done.mainQueue = p.mainQueue
  BY <1>1 DEF IsProcess, NoRequest
<1>. HIDE DEF done
<1>4. Coherent(p) => Coherent(done)
  <2>1. Coherent(p) => ~(p.views > 0) /\ Joins(p.mainQueue) = {}
    BY <1>1 DEF Coherent
  <2>. QED  BY <1>3, <2>1 DEF Coherent
<1>5. IsProcess(q) /\ (Coherent(done) => Coherent(q))
  <2>1. <<>> \in Seq(BOOLEAN) /\ "refused" \in {"listed", "refused", "ended"}
    BY EmptySeq
  <2>. QED  BY <1>3, <2>1, PostIsCoherent
<1>. HIDE DEF q
<1>. QED  BY <1>1, <1>2, <1>4, <1>5, ProcessOfInv, OneProcessStep

LEMMA AnswerJoinStep ==
  ASSUME SessionInv, NEW c \in Client, AnswerJoin(c)
  PROVE  SessionInv'
<1>. DEFINE s == process[c].request.session
<1>1. process[c].request.kind # "none"
  BY DEF AnswerJoin
<1>2. CASE s \in OpenSessions
  <2>1. GetsInto(c, s) /\ sessions' = sessions
    BY <1>2 DEF AnswerJoin
  <2>2. s \in Nat /\ s # 0
    BY <1>2, ProcessOfInv, LenProperties DEF OpenSessions
  <2>. HIDE DEF s
  <2>. QED  BY <1>1, <2>1, <2>2, ProcessOfInv, GetsIntoStep
<1>3. CASE s \notin OpenSessions
  BY <1>1, <1>3, IsRefusedStep DEF AnswerJoin
<1>. QED  BY <1>2, <1>3

LEMMA AnswerCreateStep ==
  ASSUME SessionInv, NEW c \in Client, AnswerCreate(c)
  PROVE  SessionInv'
<1>1. process[c].request.kind # "none"
  BY DEF AnswerCreate
<1>2. CASE OpenSessions = {}
  <2>. DEFINE record == [owner |-> c, open |-> TRUE, events |-> 0]
              s == Len(sessions) + 1
  <2>1. sessions' = Append(sessions, record) /\ GetsInto(c, s)
    BY <1>2 DEF AnswerCreate
  <2>2. record \in SessionRecords
    BY DEF SessionRecords
  <2>. HIDE DEF record
  <2>3. sessions' \in Seq(SessionRecords) /\ Len(sessions) \in Nat
    BY <2>1, <2>2, ProcessOfInv, SessionsType
  <2>4. s \in Nat /\ s # 0
    BY <2>3
  <2>. HIDE DEF s
  <2>. QED  BY <1>1, <2>1, <2>3, <2>4, GetsIntoStep
<1>3. CASE OpenSessions # {}
  BY <1>1, <1>3, IsRefusedStep DEF AnswerCreate
<1>. QED  BY <1>2, <1>3

\* Who waits for an answer has neither a text view nor one to come.
LEMMA WaitingIsCoherent ==
  ASSUME NEW p, IsProcess(p), Coherent(p), p.request.kind # "none",
         NEW q, q.views = p.views, q.mainQueue = p.mainQueue
  PROVE  Coherent(q)
<1>1. ~(p.views > 0) /\ Joins(p.mainQueue) = {}
  BY DEF Coherent
<1>. QED  BY <1>1 DEF Coherent

LEMMA AnswerLeaveStep ==
  ASSUME SessionInv, NEW c \in Client, AnswerLeave(c)
  PROVE  SessionInv'
<1>. DEFINE p == process[c]
            nowhere == 0
            out == [p EXCEPT !.session = nowhere]
            done == [out EXCEPT !.request = NoRequest]
            left == [done EXCEPT !.delivered = 0]
<1>1. IsProcess(p) /\ (past[c].raised \/ Coherent(p)) /\ p.request.kind # "none"
  BY ProcessOfInv DEF AnswerLeave
<1>2. Leave(c, left) /\ past' = past
  BY Zenon DEF AnswerLeave
<1>3. nowhere \in Nat
  OBVIOUS
<1>. HIDE DEF p, nowhere
<1>4. IsProcess(out) /\ out.views = p.views /\ out.mainQueue = p.mainQueue
  BY <1>1, <1>3, InSession
<1>. HIDE DEF out
<1>5. IsProcess(done) /\ done.views = p.views /\ done.mainQueue = p.mainQueue
  BY <1>4 DEF IsProcess, NoRequest
<1>. HIDE DEF done
<1>6. IsProcess(left) /\ Matters(left) = Matters(done)
  BY <1>5, OtherFields
<1>. HIDE DEF left
<1>7. left.views = p.views /\ left.mainQueue = p.mainQueue
  BY <1>5, <1>6 DEF Matters
<1>8. past[c].raised \/ Coherent(left)
  BY <1>1, <1>7, WaitingIsCoherent
<1>. QED  BY <1>2, <1>6, <1>8, ProcessOfInv, LeavingStep

LEMMA LeaveFailsStep ==
  ASSUME SessionInv, NEW c \in Client, LeaveFails(c)
  PROVE  SessionInv'
<1>. DEFINE p == process[c]
            q == [p EXCEPT !.request = NoRequest]
<1>1. IsProcess(p) /\ (past[c].raised \/ Coherent(p)) /\ p.request.kind # "none"
  BY ProcessOfInv DEF LeaveFails
<1>2. process' = [process EXCEPT ![c] = q] /\ sessions' = sessions /\ past' = past
  BY DEF LeaveFails
<1>. HIDE DEF p
<1>3. IsProcess(q) /\ q.views = p.views /\ q.mainQueue = p.mainQueue
  BY <1>1 DEF IsProcess, NoRequest
<1>. HIDE DEF q
<1>4. past[c].raised \/ Coherent(q)
  BY <1>1, <1>3, WaitingIsCoherent
<1>. QED  BY <1>2, <1>3, <1>4, ProcessOfInv, OneProcessStep

LEMMA JoinOrCreateFailsStep ==
  ASSUME SessionInv, NEW c \in Client, JoinOrCreateFails(c)
  PROVE  SessionInv'
<1>1. process[c].request.kind # "none" /\ IsRefused(c)
  BY DEF JoinOrCreateFails
<1>. QED  BY <1>1, IsRefusedStep

\* What a rendering does to a process, unless it raises, does not matter here.
LEMMA RenderingType ==
  ASSUME NEW p, IsProcess(p), NEW n
  PROVE  IsProcess(Rendered(p, n)) /\ Matters(Rendered(p, n)) = Matters(p)
<1>. DEFINE longer == p.document \o SubSeq(p.incomingActions, 1, n)
            rest == SubSeq(p.incomingActions, n + 1, Len(p.incomingActions))
            shown == [p EXCEPT !.document = longer]
            q == [shown EXCEPT !.incomingActions = rest]
<1>1. Rendered(p, n) = q
  BY DEF Rendered, IsProcess
<1>. HIDE DEF longer, rest
<1>2. IsProcess(shown) /\ Matters(shown) = Matters(p)
  BY OtherFields
<1>. HIDE DEF shown
<1>3. IsProcess(q) /\ Matters(q) = Matters(shown)
  BY <1>2, OtherFields
<1>. QED  BY <1>1, <1>2, <1>3

LEMMA ReceiveEventStep ==
  ASSUME SessionInv, NEW c \in Client, ReceiveEvent(c)
  PROVE  SessionInv'
<1>. DEFINE before == process[c]
            next == before.delivered + 1
            counted == [before EXCEPT !.delivered = next]
            queue == Append(counted.incomingActions, <<before.session, next>>)
            p == [counted EXCEPT !.incomingActions = queue]
            waiting == Len(p.incomingActions)
<1>1. IsProcess(before) /\ (past[c].raised \/ Coherent(before))
  BY ProcessOfInv
<1>2. /\ sessions' = sessions
      /\ \/ process' = [process EXCEPT ![c] = p] /\ past' = past
         \/ process' = [process EXCEPT ![c] = Rendered(p, waiting)] /\ past' = past
         \/ /\ \E n \in 1 .. waiting :
                 process' = [process EXCEPT ![c] = DeleteSession(Rendered(p, n))]
            /\ past' = [past EXCEPT ![c].raised = TRUE]
  BY DEF ReceiveEvent, Enqueue
<1>3. /\ sessions' \in Seq(SessionRecords)
      /\ past \in [Client -> Pasts]
  BY <1>2, ProcessOfInv
<1>. HIDE DEF next, before
<1>4. IsProcess(counted) /\ Matters(counted) = Matters(before)
  BY <1>1, OtherFields
<1>. HIDE DEF counted, queue
<1>5. IsProcess(p) /\ Matters(p) = Matters(counted)
  BY <1>4, OtherFields
<1>. HIDE DEF p, waiting
<1>6. past[c].raised \/ Coherent(p)
  BY <1>1, <1>4, <1>5, MattersAlone
<1>7. CASE process' = [process EXCEPT ![c] = p] /\ past' = past
  BY <1>3, <1>5, <1>6, <1>7, OneProcessStep
<1>8. CASE process' = [process EXCEPT ![c] = Rendered(p, waiting)] /\ past' = past
  <2>1. IsProcess(Rendered(p, waiting)) /\ Matters(Rendered(p, waiting)) = Matters(p)
    BY <1>5, RenderingType
  <2>2. past[c].raised \/ Coherent(Rendered(p, waiting))
    BY <1>6, <2>1, MattersAlone
  <2>. QED  BY <1>3, <1>8, <2>1, <2>2, OneProcessStep
<1>9. ASSUME NEW n \in 1 .. waiting,
             process' = [process EXCEPT ![c] = DeleteSession(Rendered(p, n))],
             past' = [past EXCEPT ![c].raised = TRUE]
      PROVE  SessionInv'
  <2>1. IsProcess(DeleteSession(Rendered(p, n)))
    BY <1>5, RenderingType, LeavingType
  <2>2. /\ past' \in [Client -> Pasts]
        /\ past'[c].raised
        /\ \A d \in Client : d # c => past'[d] = past[d]
    BY <1>3, <1>9 DEF Pasts
  <2>. QED  BY <1>3, <1>9, <2>1, <2>2, OneProcessStep
<1>. QED  BY <1>2, <1>7, <1>8, <1>9

LEMMA ProcessEndsStep ==
  ASSUME SessionInv, NEW c \in Client, ProcessEnds(c)
  PROVE  SessionInv'
<1>1. /\ past' \in [Client -> Pasts]
      /\ \A d \in Client : d # c => past'[d] = past[d]
  BY ProcessOfInv DEF ProcessEnds, NoPast, Pasts
<1>2. CASE Leave(c, FreshProcess)
  BY <1>1, <1>2, FreshIsCoherent, LeavingStep
<1>3. CASE /\ process' = [process EXCEPT ![c] = FreshProcess]
           /\ sessions' = IF Owns(c)
                          THEN [sessions EXCEPT ![process[c].session].owner = Stranger]
                          ELSE sessions
  <2>1. [owner |-> Stranger, open |-> TRUE, events |-> 0] \in SessionRecords
    BY DEF SessionRecords
  <2>2. \A s : [sessions EXCEPT ![s].owner = Stranger] \in Seq(SessionRecords)
    BY <2>1, ProcessOfInv, SessionsType
  <2>3. sessions' \in Seq(SessionRecords)
    BY <1>3, <2>2, ProcessOfInv
  <2>. QED  BY <1>1, <1>3, <2>3, FreshIsCoherent, OneProcessStep
<1>. QED  BY <1>2, <1>3 DEF ProcessEnds

LEMMA StrangersActStep ==
  ASSUME SessionInv, StrangersAct
  PROVE  SessionInv'
<1>. DEFINE record == [owner |-> Stranger, open |-> TRUE, events |-> 0]
<1>1. record \in SessionRecords
  BY DEF SessionRecords
<1>2. past' = past
  BY DEF StrangersAct
<1>3. CASE sessions' = Append(sessions, record) /\ UNCHANGED process
  <2>. HIDE DEF record
  <2>1. sessions' \in Seq(SessionRecords)
    BY <1>1, <1>3, SessionsType DEF SessionInv, SessionShapes
  <2>. QED  BY <1>2, <1>3, <2>1 DEF SessionInv, SessionShapes
<1>4. CASE \E s \in OpenSessions : EndSession(s, process)
  <2>1. /\ \A d \in Client : IsProcess(process[d])
        /\ \A d \in Client : past'[d].raised \/ Coherent(process[d])
        /\ past' \in [Client -> Pasts]
    BY <1>2 DEF SessionInv, SessionShapes
  <2>. QED  BY <1>4, <2>1, EndingStep
<1>5. CASE /\ \E s \in OpenSessions : sessions' = [sessions EXCEPT ![s].events = @ + 1]
           /\ UNCHANGED process
  <2>. HIDE DEF record
  <2>1. PICK s \in DOMAIN sessions : sessions' = [sessions EXCEPT ![s].events = @ + 1]
    BY <1>5 DEF OpenSessions
  <2>2. sessions' \in Seq(SessionRecords)
    BY <1>1, <2>1, SessionsType DEF SessionInv, SessionShapes
  <2>. QED  BY <1>2, <1>5, <2>2 DEF SessionInv, SessionShapes
<1>. QED  BY <1>3, <1>4, <1>5 DEF StrangersAct

----------------------------------------------------------------------------
(***************************************************************************)
(* The theorems                                                            *)
(***************************************************************************)

\* A coherent client has one text view at most, and is in its session.
LEMMA InvImplies == SessionInv => OneTextView /\ TextViewIsInSession
<1>. SUFFICES ASSUME SessionInv, NEW c \in Client
              PROVE  /\ process[c].views <= 1 \/ past[c].raised
                     /\ process[c].views > 0 =>
                          \/ past[c].raised
                          \/ process[c].session # 0 /\ process[c].request.kind # "leave"
  BY DEF OneTextView, TextViewIsInSession
<1>. QED  BY ProcessOfInv DEF Coherent

LEMMA StepKeepsSessionInv == SessionInv /\ [Next]_vars => SessionInv'
<1>. SUFFICES ASSUME SessionInv, [Next]_vars PROVE SessionInv'
  OBVIOUS
<1>1. ASSUME NEW c \in Client, PressStart(c) PROVE SessionInv'
  BY <1>1, PressStartStep
<1>2. ASSUME NEW c \in Client, RunCallback(c) PROVE SessionInv'
  BY <1>2, RunCallbackStep
<1>3. ASSUME NEW c \in Client, Exit(c) PROVE SessionInv'
  BY <1>3, ExitStep
<1>4. ASSUME NEW c \in Client, Broadcast(c) PROVE SessionInv'
  BY <1>4, BroadcastStep
<1>5. ASSUME NEW c \in Client, Framework(c) PROVE SessionInv'
  BY <1>5, AnswerListStep, AnswerJoinStep, AnswerCreateStep, AnswerLeaveStep DEF Framework
<1>6. ASSUME NEW c \in Client, CallFails(c) PROVE SessionInv'
  BY <1>6, JoinOrCreateFailsStep, LeaveFailsStep DEF CallFails
<1>7. ASSUME NEW c \in Client, ReceiveEvent(c) PROVE SessionInv'
  BY <1>7, ReceiveEventStep
<1>8. ASSUME NEW c \in Client, ProcessEnds(c) PROVE SessionInv'
  BY <1>8, ProcessEndsStep
<1>9. ASSUME StrangersAct PROVE SessionInv'
  BY <1>9, StrangersActStep
<1>10. ASSUME UNCHANGED vars PROVE SessionInv'
  BY <1>10 DEF vars, SessionInv, SessionShapes
<1>. QED
  BY <1>1, <1>2, <1>3, <1>4, <1>5, <1>6, <1>7, <1>8, <1>9, <1>10 DEF Next

\* The invariant holds, whatever the users, the strangers, the server and the
\* framework do.
THEOREM SessionInvariant == Spec => []SessionInv
BY InitInv, StepKeepsSessionInv, PTL DEF Spec

\* However often the start button is pressed and in whatever order the answers come,
\* one text view at a time observes the notifications, until a rendering has raised.
THEOREM OneTextViewAtATime == Spec => []OneTextView
<1>1. SessionInv => OneTextView
  BY InvImplies
<1>. QED  BY <1>1, SessionInvariant, PTL

\* Who has a text view is in a session and has not asked to leave it, until a
\* rendering has raised.
THEOREM WritesIntoASession == Spec => []TextViewIsInSession
<1>1. SessionInv => TextViewIsInSession
  BY InvImplies
<1>. QED  BY <1>1, SessionInvariant, PTL

----------------------------------------------------------------------------
(***************************************************************************)
(* The inductive invariant.  What the text view will show is decided       *)
(* before there is one: while the callback waits that will open it, the    *)
(* queue itself holds the events of the session.  In between, when there   *)
(* is neither, the queue may hold whatever an earlier text view has left.  *)
(***************************************************************************)

Events == Nat \X Nat

EventTypes(p) ==
  /\ p.delivered \in Nat
  /\ p.incomingActions \in Seq(Events)
  /\ p.document \in Seq(Events)

\* The first n events of session s.
EventsOf(s, n) == [i \in 1 .. n |-> <<s, i>>]

TracksSession(p) ==
  /\ p.views > 0 =>
       p.document \o p.incomingActions = EventsOf(p.session, p.delivered)
  /\ Joins(p.mainQueue) # {} =>
       p.incomingActions = EventsOf(p.session, p.delivered)

DocumentsTrack ==
  \A c \in Client :
    /\ EventTypes(process[c])
    /\ past[c].startedClean /\ ~past[c].raised => TracksSession(process[c])

DocumentInv == SessionInv /\ DocumentsTrack

----------------------------------------------------------------------------
(***************************************************************************)
(* Lemmas about one process                                                *)
(***************************************************************************)

\* The events up to the next one are those so far and the next.
LEMMA OneMoreEvent ==
  ASSUME NEW s \in Nat, NEW n \in Nat
  PROVE  /\ EventsOf(s, n) \in Seq(Events)
         /\ Append(EventsOf(s, n), <<s, n + 1>>) = EventsOf(s, n + 1)
         /\ EventsOf(s, 0) = <<>>
<1>1. \A m \in Nat : /\ EventsOf(s, m) \in Seq(Events)
                     /\ Len(EventsOf(s, m)) = m
                     /\ \A i \in 1 .. m : EventsOf(s, m)[i] = <<s, i>>
  <2>. SUFFICES ASSUME NEW m \in Nat
                PROVE  /\ EventsOf(s, m) \in Seq(Events)
                       /\ Len(EventsOf(s, m)) = m
                       /\ \A i \in 1 .. m : EventsOf(s, m)[i] = <<s, i>>
    OBVIOUS
  <2>1. \A i \in 1 .. m : <<s, i>> \in Events
    BY DEF Events
  <2>2. EventsOf(s, m) \in Seq(Events)
    BY <2>1, IsASeq DEF EventsOf
  <2>3. DOMAIN EventsOf(s, m) = 1 .. m /\ \A i \in 1 .. m : EventsOf(s, m)[i] = <<s, i>>
    BY DEF EventsOf
  <2>. QED  BY <2>2, <2>3, LenProperties
<1>2. <<s, n + 1>> \in Events
  BY DEF Events
<1>3. Append(EventsOf(s, n), <<s, n + 1>>) = EventsOf(s, n + 1)
  <2>. DEFINE so == EventsOf(s, n)
              more == EventsOf(s, n + 1)
              e == <<s, n + 1>>
  <2>1. so \in Seq(Events) /\ Len(so) = n /\ \A i \in 1 .. n : so[i] = <<s, i>>
    BY <1>1
  <2>2. more \in Seq(Events) /\ Len(more) = n + 1 /\ \A i \in 1 .. n + 1 : more[i] = <<s, i>>
    BY <1>1
  <2>3. e \in Events /\ e = more[n + 1]
    BY <1>2, <2>2
  <2>4. \A i \in 1 .. n : so[i] = more[i]
    BY DEF EventsOf
  <2>. HIDE DEF so, more, e
  <2>5. /\ Append(so, e) \in Seq(Events)
        /\ Len(Append(so, e)) = n + 1
        /\ \A i \in 1 .. n : Append(so, e)[i] = so[i]
        /\ Append(so, e)[n + 1] = e
    BY <2>1, <2>3, AppendProperties
  <2>6. ASSUME NEW i \in 1 .. n + 1 PROVE Append(so, e)[i] = more[i]
    <3>1. CASE i = n + 1
      BY <2>2, <2>3, <2>5, <3>1
    <3>2. CASE i \in 1 .. n
      BY <2>4, <2>5, <3>2
    <3>3. i = n + 1 \/ i \in 1 .. n
      OBVIOUS
    <3>. QED  BY <3>1, <3>2, <3>3, Zenon
  <2>7. Append(so, e) = more
    BY <2>2, <2>5, <2>6, SeqEqual
  <2>. QED  BY <2>7 DEF so, more, e
<1>4. EventsOf(s, 0) = <<>>
  <2>1. EventsOf(s, 0) \in Seq(Events) /\ Len(EventsOf(s, 0)) = 0
    BY <1>1
  <2>. QED  BY <2>1, EmptySeq
<1>. QED  BY <1>1, <1>3, <1>4

\* q has what p has of the session, and opens a text view only if p does.
Carries(p, q) ==
  /\ q.session = p.session
  /\ q.delivered = p.delivered
  /\ q.incomingActions = p.incomingActions
  /\ q.document = p.document
  /\ q.views > 0 => p.views > 0
  /\ Joins(q.mainQueue) # {} => Joins(p.mainQueue) # {}

LEMMA CarriesOn ==
  ASSUME NEW p, NEW q, Carries(p, q)
  PROVE  /\ EventTypes(p) => EventTypes(q)
         /\ TracksSession(p) => TracksSession(q)
BY DEF Carries, EventTypes, TracksSession

LEMMA CarriesIsTransitive ==
  ASSUME NEW p, NEW q, NEW r, Carries(p, q), Carries(q, r)
  PROVE  Carries(p, r)
BY DEF Carries

\* A callback that is put at the end of the main queue.
LEMMA PostCarries ==
  ASSUME NEW p, IsProcess(p),
         NEW kind \in {"listed", "refused", "ended"}, NEW list \in Seq(BOOLEAN)
  PROVE  Carries(p, Post(p, kind, list))
<1>1. kind \in {"listed", "joined", "refused", "ended"} /\ kind # "joined"
  OBVIOUS
<1>2. /\ Post(p, kind, list).session = p.session
      /\ Post(p, kind, list).views = p.views
      /\ Joins(Post(p, kind, list).mainQueue) = Joins(p.mainQueue)
  BY <1>1, PostType
<1>3. /\ Post(p, kind, list).delivered = p.delivered
      /\ Post(p, kind, list).incomingActions = p.incomingActions
      /\ Post(p, kind, list).document = p.document
  BY DEF Post, IsProcess
<1>. QED  BY <1>2, <1>3 DEF Carries

\* deleteSession, createSession and joinSession for the sessions of a list.
LEMMA RequestCarries ==
  ASSUME NEW p, IsProcess(p), NEW request
  PROVE  Carries(p, [p EXCEPT !.request = request])
BY DEF Carries, IsProcess

LEMMA DeleteCarries ==
  ASSUME NEW p, IsProcess(p)
  PROVE  Carries(p, DeleteSession(p))
<1>1. Carries(p, p)
  BY DEF Carries
<1>. QED  BY <1>1, RequestCarries DEF DeleteSession

LEMMA CreateCarries ==
  ASSUME NEW p, IsProcess(p)
  PROVE  Carries(p, CreateSession(p))
<1>1. Carries(p, Post(p, "refused", <<>>))
  <2>1. <<>> \in Seq(BOOLEAN) /\ "refused" \in {"listed", "refused", "ended"}
    BY EmptySeq
  <2>. QED  BY <2>1, PostCarries
<1>. QED  BY <1>1, RequestCarries DEF CreateSession

LEMMA JoinCarries ==
  ASSUME NEW p, IsProcess(p), NEW found, found # {}, IsFiniteSet(found)
  PROVE  Carries(p, JoinSessions(p, found))
<1>. DEFINE refuses == Refuses(p, "join")
            errors == IF refuses THEN Cardinality(found) ELSE Cardinality(found) - 1
            queue == p.mainQueue \o [i \in 1 .. errors |-> Refusal]
            request == IF refuses THEN p.request
                       ELSE [kind |-> "join", session |-> Min(found)]
            asked == [p EXCEPT !.request = request]
            q == [asked EXCEPT !.mainQueue = queue]
<1>1. JoinSessions(p, found) = q
  BY DEF JoinSessions, IsProcess
<1>2. errors \in Nat
  <2>1. Cardinality(found) \in Nat /\ Cardinality(found) # 0
    BY FS_CardinalityType, FS_EmptySet
  <2>. QED  BY <2>1
<1>3. Joins(queue) = Joins(p.mainQueue)
  <2>1. p.mainQueue \in Seq(Callbacks)
    BY DEF IsProcess
  <2>. HIDE DEF errors
  <2>. QED  BY <1>2, <2>1, JoinsOfRefusals
<1>. HIDE DEF queue, request
<1>4. /\ q.session = p.session /\ q.views = p.views /\ q.mainQueue = queue
      /\ q.delivered = p.delivered /\ q.incomingActions = p.incomingActions
      /\ q.document = p.document
  BY DEF IsProcess
<1>. HIDE DEF q
<1>. QED  BY <1>1, <1>3, <1>4 DEF Carries

LEMMA FindCarries ==
  ASSUME NEW p, IsProcess(p), NEW list \in Seq(BOOLEAN)
  PROVE  Carries(p, FoundSessions(p, list))
<1>. DEFINE open == {s \in DOMAIN list : list[s]}
<1>1. IsFiniteSet(open)
  <2>1. Len(list) \in Int /\ DOMAIN list = 1 .. Len(list)
    BY LenProperties
  <2>2. IsFiniteSet(1 .. Len(list))
    BY <2>1, FS_Interval
  <2>3. open \in SUBSET (1 .. Len(list))
    BY <2>1
  <2>. QED  BY <2>2, <2>3, FS_Subset
<1>2. FoundSessions(p, list) = IF open = {} THEN CreateSession(p) ELSE JoinSessions(p, open)
  BY DEF FoundSessions
<1>. HIDE DEF open
<1>. QED  BY <1>1, <1>2, CreateCarries, JoinCarries

\* A callback on the main thread.  The text view that it opens has nothing of the
\* session yet: all of it is in the queue.
LEMMA CallbackKeepsEvents ==
  ASSUME NEW p, IsProcess(p), p.mainQueue # <<>>, EventTypes(p)
  PROVE  LET q == Callback([p EXCEPT !.mainQueue = Tail(@)], Head(p.mainQueue))
         IN EventTypes(q) /\ (Coherent(p) /\ TracksSession(p) => TracksSession(q))
<1>. DEFINE callback == Head(p.mainQueue)
            tail == Tail(p.mainQueue)
            taken == [p EXCEPT !.mainQueue = tail]
            q == Callback(taken, callback)
<1>1. p.mainQueue \in Seq(Callbacks)
  BY DEF IsProcess
<1>2. /\ callback \in Callbacks
      /\ tail \in Seq(Callbacks)
      /\ (\A i, j \in Joins(p.mainQueue) : i = j) =>
           /\ Joins(tail) # {} => Joins(p.mainQueue) # {}
           /\ callback.kind = "joined" => Joins(p.mainQueue) # {} /\ Joins(tail) = {}
  BY <1>1, JoinsOfTail
<1>3. callback.kind \in {"listed", "joined", "refused", "ended"}
      /\ callback.list \in Seq(BOOLEAN)
  BY <1>2 DEF Callbacks
<1>. HIDE DEF callback, tail
<1>4. /\ taken.session = p.session /\ taken.request = p.request
      /\ taken.views = p.views /\ taken.mainQueue = tail
      /\ taken.delivered = p.delivered /\ taken.document = p.document
      /\ taken.incomingActions = p.incomingActions
  BY DEF IsProcess
<1>5. IsProcess(taken)
  BY <1>2, <1>4 DEF IsProcess
<1>. HIDE DEF taken
<1>6. EventTypes(taken)
  BY <1>4 DEF EventTypes
<1>7. Coherent(p) /\ TracksSession(p) => TracksSession(taken)
  BY <1>2, <1>4 DEF Coherent, TracksSession
<1>8. EventTypes(q) /\ (Coherent(p) /\ TracksSession(p) => TracksSession(q))
  <2>1. CASE callback.kind = "listed"
    <3>1. q = FoundSessions(taken, callback.list)
      BY <2>1 DEF Callback
    <3>2. Carries(taken, FoundSessions(taken, callback.list))
      BY <1>3, <1>5, FindCarries
    <3>. QED  BY <1>6, <1>7, <3>1, <3>2, CarriesOn
  <2>2. CASE callback.kind = "joined"
    <3>. DEFINE views == taken.views + 1
                still == [taken EXCEPT !.spinning = FALSE]
                shown == [still EXCEPT !.views = views]
                opened == [shown EXCEPT !.document = <<>>]
    <3>1. q = opened
      <4>1. q = JoinedSession(taken)
        BY <2>2 DEF Callback, NotifySession
      <4>2. still.views = taken.views
        BY <1>5 DEF IsProcess
      <4>3. JoinedSession(taken) = [[still EXCEPT !.views = still.views + 1]
                                       EXCEPT !.document = <<>>]
        BY <1>5 DEF JoinedSession, IsProcess
      <4>. QED  BY <4>1, <4>2, <4>3
    <3>. HIDE DEF views
    <3>2. /\ opened.session = p.session /\ opened.mainQueue = tail
          /\ opened.delivered = p.delivered /\ opened.document = <<>>
          /\ opened.incomingActions = p.incomingActions
      BY <1>4, <1>5 DEF IsProcess
    <3>. HIDE DEF opened
    <3>3. EventTypes(opened)
      BY <3>2, EmptySeq DEF EventTypes
    <3>4. Coherent(p) /\ TracksSession(p) => TracksSession(opened)
      <4>1. <<>> \o p.incomingActions = p.incomingActions
        BY ConcatEmptySeq DEF EventTypes
      <4>. QED  BY <1>2, <2>2, <3>2, <4>1 DEF Coherent, TracksSession
    <3>. QED  BY <3>1, <3>3, <3>4
  <2>3. CASE callback.kind = "refused"
    <3>1. q = taken
      BY <2>3 DEF Callback, NotifySession
    <3>. QED  BY <1>6, <1>7, <3>1
  <2>4. CASE callback.kind = "ended"
    <3>. DEFINE alerted == [taken EXCEPT !.alert = TRUE]
    <3>1. q = taken \/ q = alerted
      BY <2>4 DEF Callback, EndedSession
    <3>2. Carries(taken, alerted)
      BY <1>5 DEF Carries, IsProcess
    <3>. HIDE DEF alerted
    <3>. QED  BY <1>6, <1>7, <3>1, <3>2, CarriesOn
  <2>. QED  BY <1>3, <2>1, <2>2, <2>3, <2>4
<1>. QED  BY <1>8 DEF taken, tail, callback

\* An event arrives.
LEMMA EnqueueKeepsEvents ==
  ASSUME NEW p, IsProcess(p), EventTypes(p), NEW n, n = p.delivered + 1
  PROVE  LET q == Enqueue([p EXCEPT !.delivered = n], <<p.session, n>>)
         IN /\ EventTypes(q)
            /\ TracksSession(p) => TracksSession(q)
            /\ IsProcess(q) /\ Matters(q) = Matters(p)
<1>. DEFINE event == <<p.session, n>>
            queue == Append(p.incomingActions, event)
            counted == [p EXCEPT !.delivered = n]
            q == [counted EXCEPT !.incomingActions = queue]
<1>1. event \in Events /\ n \in Nat /\ p.session \in Nat
  BY DEF Events, EventTypes, IsProcess
<1>2. Enqueue(counted, event) = q
  BY DEF Enqueue, IsProcess
<1>3. queue \in Seq(Events)
  <2>. HIDE DEF event
  <2>. QED  BY <1>1, AppendProperties DEF EventTypes
<1>4. p.incomingActions = EventsOf(p.session, p.delivered) => queue = EventsOf(p.session, n)
  BY <1>1, OneMoreEvent DEF EventTypes
<1>5. p.document \o p.incomingActions = EventsOf(p.session, p.delivered) =>
        p.document \o queue = EventsOf(p.session, n)
  <2>. DEFINE d == p.document
              w == p.incomingActions
  <2>1. d \in Seq(Events) /\ w \in Seq(Events)
    BY DEF EventTypes
  <2>2. Append(EventsOf(p.session, p.delivered), event) = EventsOf(p.session, n)
    BY <1>1, OneMoreEvent DEF EventTypes
  <2>3. queue = w \o <<event>> /\ <<event>> \in Seq(Events)
    <3>1. queue = Append(w, event)
      OBVIOUS
    <3>. HIDE DEF event, queue, w
    <3>2. Append(w, event) = w \o <<event>>
      BY <1>1, <2>1, AppendIsConcat
    <3>3. <<event>> \in Seq(Events)
      BY <1>1
    <3>. QED  BY <3>1, <3>2, <3>3
  <2>. HIDE DEF d, w, event, queue
  <2>4. d \o w \in Seq(Events) /\ d \o queue = (d \o w) \o <<event>>
    BY <2>1, <2>3, ConcatProperties, ConcatAssociative
  <2>5. (d \o w) \o <<event>> = Append(d \o w, event)
    BY <1>1, <2>4, AppendIsConcat
  <2>6. d \o w = EventsOf(p.session, p.delivered) => d \o queue = EventsOf(p.session, n)
    BY <2>2, <2>4, <2>5
  <2>. QED  BY <2>6 DEF d, w
<1>6. IsProcess(counted) /\ Matters(counted) = Matters(p)
  BY OtherFields
<1>. HIDE DEF queue, event
<1>7. /\ q.session = p.session /\ q.mainQueue = p.mainQueue /\ q.views = p.views
      /\ q.delivered = n /\ q.document = p.document /\ q.incomingActions = queue
  BY DEF IsProcess
<1>8. IsProcess(q) /\ Matters(q) = Matters(counted)
  <2>. HIDE DEF counted
  <2>. QED  BY <1>6, OtherFields
<1>. HIDE DEF q
<1>9. EventTypes(q) /\ (TracksSession(p) => TracksSession(q))
  BY <1>1, <1>3, <1>4, <1>5, <1>7 DEF EventTypes, TracksSession
<1>. QED  BY <1>2, <1>6, <1>8, <1>9 DEF counted, event

\* What waits is rendered: to its end, or to the action that raises.
LEMMA RenderingKeepsEvents ==
  ASSUME NEW p, IsProcess(p), EventTypes(p)
  PROVE  /\ \A n \in 0 .. Len(p.incomingActions) : EventTypes(Rendered(p, n))
         /\ p.views > 0 /\ Coherent(p) /\ TracksSession(p) =>
              TracksSession(Rendered(p, Len(p.incomingActions)))
<1>. DEFINE d == p.document
            w == p.incomingActions
            longer(n) == d \o SubSeq(w, 1, n)
            rest(n) == SubSeq(w, n + 1, Len(w))
<1>1. d \in Seq(Events) /\ w \in Seq(Events) /\ Len(w) \in Nat
  BY LenProperties DEF EventTypes
<1>2. \A n : LET q == Rendered(p, n)
             IN /\ q.session = p.session /\ q.mainQueue = p.mainQueue
                /\ q.views = p.views /\ q.delivered = p.delivered
                /\ q.document = longer(n) /\ q.incomingActions = rest(n)
  BY DEF Rendered, IsProcess
<1>. HIDE DEF d, w
<1>3. ASSUME NEW n \in 0 .. Len(w)
      PROVE  longer(n) \in Seq(Events) /\ rest(n) \in Seq(Events)
  <2>1. \A i \in 1 .. Len(w) : w[i] \in Events
    BY <1>1, ElementOfSeq
  <2>2. SubSeq(w, 1, n) \in Seq(Events)
    BY <1>1, <2>1, SubSeqProperties
  <2>3. rest(n) \in Seq(Events)
    <3>1. n + 1 \in Int /\ Len(w) \in Int /\ \A i \in n + 1 .. Len(w) : w[i] \in Events
      BY <1>1, <2>1
    <3>. DEFINE m == n + 1
    <3>2. m \in Int /\ \A i \in m .. Len(w) : w[i] \in Events
      BY <3>1
    <3>. HIDE DEF m
    <3>3. SubSeq(w, m, Len(w)) \in Seq(Events)
      BY <3>1, <3>2, SubSeqProperties
    <3>. QED  BY <3>3 DEF m
  <2>. QED  BY <1>1, <2>2, <2>3, ConcatProperties
<1>4. ASSUME NEW n \in 0 .. Len(w) PROVE EventTypes(Rendered(p, n))
  BY <1>2, <1>3 DEF EventTypes
<1>5. longer(Len(w)) \o rest(Len(w)) = d \o w
  <2>1. longer(Len(w)) = d \o w
    BY <1>1, SubSeqFull
  <2>2. rest(Len(w)) = <<>>
    BY <1>1, SubSeqEmpty
  <2>. QED  BY <1>1, <2>1, <2>2, ConcatProperties, ConcatEmptySeq
<1>. HIDE DEF longer, rest
<1>6. p.views > 0 /\ Coherent(p) /\ TracksSession(p) => TracksSession(Rendered(p, Len(w)))
  <2>. DEFINE q == Rendered(p, Len(w))
  <2>1. /\ q.session = p.session /\ q.mainQueue = p.mainQueue
        /\ q.delivered = p.delivered
        /\ q.document = longer(Len(w)) /\ q.incomingActions = rest(Len(w))
    BY <1>2
  <2>. HIDE DEF q
  <2>2. p.views > 0 /\ Coherent(p) => Joins(q.mainQueue) = {}
    BY <2>1 DEF Coherent
  <2>3. p.views > 0 /\ TracksSession(p) => q.document \o q.incomingActions
                                             = EventsOf(q.session, q.delivered)
    BY <1>5, <2>1 DEF TracksSession, d, w
  <2>4. p.views > 0 /\ Coherent(p) /\ TracksSession(p) => TracksSession(q)
    BY <2>2, <2>3 DEF TracksSession
  <2>. QED  BY <2>4 DEF q
<1>. QED  BY <1>4, <1>6 DEF w

----------------------------------------------------------------------------
(***************************************************************************)
(* The steps                                                               *)
(***************************************************************************)

LEMMA ProcessTracks ==
  ASSUME DocumentInv, NEW c \in Client
  PROVE  /\ SessionInv
         /\ IsProcess(process[c])
         /\ EventTypes(process[c])
         /\ ~past[c].raised => Coherent(process[c])
         /\ past[c].startedClean /\ ~past[c].raised =>
              Coherent(process[c]) /\ TracksSession(process[c])
BY ProcessOfInv DEF DocumentInv, DocumentsTrack

\* A step of one process.
LEMMA OneProcessTracks ==
  ASSUME DocumentInv, NEW c \in Client, NEW q, EventTypes(q),
         process' = [process EXCEPT ![c] = q],
         \A d \in Client : d # c => past'[d] = past[d],
         past'[c].startedClean /\ ~past'[c].raised => TracksSession(q)
  PROVE  DocumentsTrack'
<1>1. \A d \in Client : process'[d] = IF d = c THEN q ELSE process[d]
  BY DEF DocumentInv, SessionInv, SessionShapes
<1>. QED  BY <1>1 DEF DocumentInv, DocumentsTrack

\* A step of one process that takes nothing away and adds nothing.
LEMMA CarryingTracks ==
  ASSUME DocumentInv, NEW c \in Client, NEW q, Carries(process[c], q),
         process' = [process EXCEPT ![c] = q], past' = past
  PROVE  DocumentsTrack'
<1>1. EventTypes(q)
      /\ (past[c].startedClean /\ ~past[c].raised => TracksSession(q))
  BY ProcessTracks, CarriesOn
<1>. QED  BY <1>1, OneProcessTracks

\* Without a text view or a callback that opens one there is nothing to track: so it
\* is while an answer is awaited.
LEMMA NothingToTrack ==
  ASSUME NEW p, ~(p.views > 0), Joins(p.mainQueue) = {}
  PROVE  TracksSession(p)
BY DEF TracksSession

LEMMA WaitingHasNothing ==
  ASSUME NEW p, Coherent(p), p.request.kind # "none"
  PROVE  ~(p.views > 0) /\ Joins(p.mainQueue) = {}
BY DEF Coherent

\* The members of a session are told that it has ended.
LEMMA EndingTracks ==
  ASSUME NEW s, NEW processes,
         \A d \in Client :
           /\ IsProcess(processes[d])
           /\ EventTypes(processes[d])
           /\ past'[d].startedClean /\ ~past'[d].raised => TracksSession(processes[d]),
         EndSession(s, processes)
  PROVE  DocumentsTrack'
<1>. SUFFICES ASSUME NEW d \in Client
              PROVE  /\ EventTypes(process'[d])
                     /\ past'[d].startedClean /\ ~past'[d].raised =>
                          TracksSession(process'[d])
  BY DEF DocumentsTrack
<1>. DEFINE p == processes[d]
            told == Post(p, "ended", <<>>)
<1>1. process'[d] = p \/ process'[d] = told
  BY DEF EndSession
<1>2. IsProcess(p) /\ EventTypes(p)
      /\ (past'[d].startedClean /\ ~past'[d].raised => TracksSession(p))
  OBVIOUS
<1>. HIDE DEF p
<1>3. Carries(p, told)
  <2>1. <<>> \in Seq(BOOLEAN) /\ "ended" \in {"listed", "refused", "ended"}
    BY EmptySeq
  <2>. QED  BY <1>2, <2>1, PostCarries
<1>. HIDE DEF told
<1>. QED  BY <1>1, <1>2, <1>3, CarriesOn

\* A client leaves, with nothing to track any more.
LEMMA LeavingTracks ==
  ASSUME DocumentInv, NEW c \in Client, NEW left, IsProcess(left), EventTypes(left),
         past'[c].startedClean /\ ~past'[c].raised => TracksSession(left),
         \A d \in Client : d # c => past'[d] = past[d],
         Leave(c, left)
  PROVE  DocumentsTrack'
<1>. DEFINE processes == [process EXCEPT ![c] = left]
<1>1. CASE Owns(c)
  <2>1. \A d \in Client : processes[d] = IF d = c THEN left ELSE process[d]
    BY DEF DocumentInv, SessionInv, SessionShapes
  <2>2. EndSession(process[c].session, processes)
    BY <1>1 DEF Leave
  <2>. HIDE DEF processes
  <2>3. ASSUME NEW d \in Client
        PROVE  /\ IsProcess(processes[d])
               /\ EventTypes(processes[d])
               /\ past'[d].startedClean /\ ~past'[d].raised => TracksSession(processes[d])
    <3>1. CASE d = c
      BY <2>1, <3>1
    <3>2. CASE d # c
      BY <2>1, <3>2, ProcessTracks
    <3>. QED  BY <3>1, <3>2
  <2>. QED  BY <2>2, <2>3, EndingTracks
<1>2. CASE ~Owns(c)
  <2>1. process' = processes
    BY <1>2 DEF Leave
  <2>. QED  BY <2>1, OneProcessTracks
<1>. QED  BY <1>1, <1>2

LEMMA PressStartTracks ==
  ASSUME DocumentInv, NEW c \in Client, PressStart(c)
  PROVE  DocumentsTrack'
<1>. DEFINE p == process[c]
            q == JoinSessionOnSplash(p)
<1>1. process' = [process EXCEPT ![c] = q] /\ past' = past
  BY DEF PressStart, DocumentInv, SessionInv, SessionShapes
<1>2. IsProcess(p)
  BY ProcessTracks
<1>3. Carries(p, q)
  <2>. DEFINE spins == [p EXCEPT !.spinning = TRUE]
  <2>1. q = [spins EXCEPT !.lists = @ + 1]
    BY DEF JoinSessionOnSplash
  <2>. HIDE DEF p
  <2>2. IsProcess(spins) /\ Carries(p, spins)
    <3>1. IsProcess(spins)
      BY <1>2, OtherFields
    <3>2. Carries(p, spins)
      BY <1>2 DEF Carries, IsProcess
    <3>. QED  BY <3>1, <3>2
  <2>. HIDE DEF spins
  <2>3. Carries(spins, [spins EXCEPT !.lists = spins.lists + 1])
    BY <2>2 DEF Carries, IsProcess
  <2>. QED  BY <2>1, <2>2, <2>3, CarriesIsTransitive
<1>. HIDE DEF q
<1>. QED  BY <1>1, <1>3, CarryingTracks

LEMMA RunCallbackTracks ==
  ASSUME DocumentInv, NEW c \in Client, RunCallback(c)
  PROVE  DocumentsTrack'
<1>. DEFINE p == process[c]
            q == Callback([p EXCEPT !.mainQueue = Tail(@)], Head(p.mainQueue))
<1>1. process' = [process EXCEPT ![c] = q] /\ p.mainQueue # <<>> /\ past' = past
  <2>1. process' = [process EXCEPT ![c] = q] /\ p.mainQueue # <<>>
    BY DEF RunCallback
  <2>. QED  BY <2>1 DEF RunCallback
<1>2. /\ IsProcess(p) /\ EventTypes(p)
      /\ past[c].startedClean /\ ~past[c].raised => Coherent(p) /\ TracksSession(p)
  BY ProcessTracks
<1>. HIDE DEF p
<1>3. EventTypes(q) /\ (Coherent(p) /\ TracksSession(p) => TracksSession(q))
  BY <1>1, <1>2, CallbackKeepsEvents
<1>. HIDE DEF q
<1>. QED  BY <1>1, <1>2, <1>3, OneProcessTracks

LEMMA ExitTracks ==
  ASSUME DocumentInv, NEW c \in Client, Exit(c)
  PROVE  DocumentsTrack'
<1>. DEFINE p == process[c]
            closed == [p EXCEPT !.views = 0]
            calm == [closed EXCEPT !.alert = FALSE]
            blank == [calm EXCEPT !.document = <<>>]
            q == DeleteSession(blank)
<1>1. process' = [process EXCEPT ![c] = q] /\ p.views > 0 /\ past' = past
  BY DEF Exit, ExitTextView, DocumentInv, SessionInv, SessionShapes
<1>2. IsProcess(p) /\ EventTypes(p) /\ (~past[c].raised => Coherent(p))
  BY ProcessTracks
<1>. HIDE DEF p
<1>3. IsProcess(closed) /\ closed.views = 0 /\ closed.mainQueue = p.mainQueue
      /\ closed.delivered = p.delivered /\ closed.incomingActions = p.incomingActions
  BY <1>2 DEF IsProcess
<1>. HIDE DEF closed
<1>4. IsProcess(calm) /\ calm.views = 0 /\ calm.mainQueue = p.mainQueue
      /\ calm.delivered = p.delivered /\ calm.incomingActions = p.incomingActions
  <2>1. IsProcess(calm)
    BY <1>3, OtherFields
  <2>. QED  BY <1>3, <2>1 DEF IsProcess
<1>. HIDE DEF calm
<1>5. IsProcess(blank) /\ blank.views = 0 /\ blank.mainQueue = p.mainQueue
      /\ blank.delivered = p.delivered /\ blank.incomingActions = p.incomingActions
      /\ blank.document = <<>>
  <2>1. IsProcess(blank)
    BY <1>4, OtherFields
  <2>. QED  BY <1>4, <2>1 DEF IsProcess
<1>. HIDE DEF blank
<1>6. Carries(blank, q)
  BY <1>5, DeleteCarries
<1>. HIDE DEF q
<1>7. EventTypes(blank)
  BY <1>2, <1>5, EmptySeq DEF EventTypes
<1>8. ~past[c].raised => TracksSession(blank)
  <2>1. ~past[c].raised => Joins(p.mainQueue) = {}
    BY <1>1, <1>2 DEF Coherent
  <2>. QED  BY <1>5, <2>1, NothingToTrack
<1>. QED  BY <1>1, <1>6, <1>7, <1>8, CarriesOn, OneProcessTracks

LEMMA AnswerListTracks ==
  ASSUME DocumentInv, NEW c \in Client, AnswerList(c)
  PROVE  DocumentsTrack'
<1>. DEFINE p == process[c]
            list == [s \in DOMAIN sessions |-> sessions[s].open]
            fewer == [p EXCEPT !.lists = @ - 1]
            q == Post(fewer, "listed", list)
<1>1. process' = [process EXCEPT ![c] = q] /\ past' = past
  <2>1. process' = [process EXCEPT ![c] = q]
    BY DEF AnswerList
  <2>. QED  BY <2>1 DEF AnswerList
<1>2. IsProcess(p) /\ SessionInv
  BY ProcessTracks
<1>3. list \in Seq(BOOLEAN)
  <2>1. /\ Len(sessions) \in Nat /\ DOMAIN sessions = 1 .. Len(sessions)
        /\ \A s \in 1 .. Len(sessions) : sessions[s] \in SessionRecords
    BY <1>2, ProcessOfInv, LenProperties, ElementOfSeq
  <2>2. \A s \in 1 .. Len(sessions) : sessions[s].open \in BOOLEAN
    BY <2>1 DEF SessionRecords
  <2>. QED  BY <2>1, <2>2, IsASeq
<1>4. IsProcess(fewer) /\ Carries(p, fewer)
  <2>. HIDE DEF p
  <2>1. IsProcess(fewer)
    BY <1>2, OtherFields
  <2>2. Carries(p, fewer)
    BY <1>2 DEF Carries, IsProcess
  <2>. QED  BY <2>1, <2>2
<1>. HIDE DEF list, fewer
<1>5. Carries(fewer, q)
  BY <1>3, <1>4, PostCarries
<1>. HIDE DEF q
<1>. QED  BY <1>1, <1>4, <1>5, CarriesIsTransitive, CarryingTracks

\* Nothing of the session has arrived yet, and the queue holds what it held: nothing,
\* if the client got into the session with an empty queue.
LEMMA GetsIntoTracks ==
  ASSUME DocumentInv, NEW c \in Client, NEW s \in Nat,
         process[c].request.kind # "none", GetsInto(c, s)
  PROVE  DocumentsTrack'
<1>. DEFINE p == process[c]
            id == s
            into == [p EXCEPT !.session = id]
            done == [into EXCEPT !.request = NoRequest]
            fresh == [done EXCEPT !.delivered = 0]
            q == Post(fresh, "joined", <<>>)
            clean == p.incomingActions = <<>>
<1>1. /\ IsProcess(p) /\ EventTypes(p) /\ (~past[c].raised => Coherent(p))
      /\ p.request.kind # "none"
  BY ProcessTracks
<1>2. process' = [process EXCEPT ![c] = q]
  BY Zenon DEF GetsInto
<1>3. /\ past'[c].raised = past[c].raised
      /\ past'[c].startedClean = clean
      /\ \A d \in Client : d # c => past'[d] = past[d]
  <2>1. past' = [past EXCEPT ![c].startedClean = clean]
    BY DEF GetsInto
  <2>. HIDE DEF clean
  <2>2. past \in [Client -> Pasts]
    BY ProcessTracks, ProcessOfInv
  <2>. QED  BY <2>1, <2>2 DEF Pasts
<1>4. id \in Nat
  OBVIOUS
<1>. HIDE DEF p, id
<1>5. /\ IsProcess(into) /\ into.views = p.views /\ into.mainQueue = p.mainQueue
      /\ into.session = id /\ into.document = p.document
      /\ into.incomingActions = p.incomingActions
  BY <1>1, <1>4, InSession DEF IsProcess
<1>. HIDE DEF into
<1>6. /\ IsProcess(done) /\ done.views = p.views /\ done.mainQueue = p.mainQueue
      /\ done.session = id /\ done.document = p.document
      /\ done.incomingActions = p.incomingActions
  BY <1>5 DEF IsProcess, NoRequest
<1>. HIDE DEF done
<1>7. /\ IsProcess(fresh) /\ fresh.views = p.views /\ fresh.mainQueue = p.mainQueue
      /\ fresh.session = id /\ fresh.document = p.document /\ fresh.delivered = 0
      /\ fresh.incomingActions = p.incomingActions
  <2>1. IsProcess(fresh)
    BY <1>6, OtherFields
  <2>. QED  BY <1>6, <2>1 DEF IsProcess
<1>. HIDE DEF fresh
<1>8. /\ q.session = id /\ q.views = p.views
      /\ q.document = p.document /\ q.delivered = 0
      /\ q.incomingActions = p.incomingActions
  BY <1>7 DEF Post, IsProcess
<1>. HIDE DEF q
<1>9. EventTypes(q)
  BY <1>1, <1>8 DEF EventTypes
<1>10. clean /\ ~past[c].raised => TracksSession(q)
  <2>1. ~past[c].raised => ~(q.views > 0)
    BY <1>1, <1>8, WaitingHasNothing
  <2>2. clean => q.incomingActions = EventsOf(q.session, q.delivered)
    BY <1>4, <1>8, OneMoreEvent
  <2>. QED  BY <2>1, <2>2 DEF TracksSession
<1>. QED  BY <1>2, <1>3, <1>9, <1>10, OneProcessTracks

LEMMA IsRefusedTracks ==
  ASSUME DocumentInv, NEW c \in Client, IsRefused(c)
  PROVE  DocumentsTrack'
<1>. DEFINE p == process[c]
            done == [p EXCEPT !.request = NoRequest]
            q == Post(done, "refused", <<>>)
<1>1. process' = [process EXCEPT ![c] = q] /\ past' = past
  BY Zenon DEF IsRefused
<1>2. IsProcess(p)
  BY ProcessTracks
<1>3. IsProcess(done) /\ Carries(p, done)
  <2>. HIDE DEF p
  <2>1. IsProcess(done)
    BY <1>2 DEF IsProcess, NoRequest
  <2>. QED  BY <1>2, <2>1, RequestCarries
<1>. HIDE DEF done
<1>4. Carries(done, q)
  <2>1. <<>> \in Seq(BOOLEAN) /\ "refused" \in {"listed", "refused", "ended"}
    BY EmptySeq
  <2>. QED  BY <1>3, <2>1, PostCarries
<1>. HIDE DEF q
<1>. QED  BY <1>1, <1>3, <1>4, CarriesIsTransitive, CarryingTracks

LEMMA AnswerJoinTracks ==
  ASSUME DocumentInv, NEW c \in Client, AnswerJoin(c)
  PROVE  DocumentsTrack'
<1>. DEFINE s == process[c].request.session
<1>1. process[c].request.kind # "none"
  BY DEF AnswerJoin
<1>2. CASE s \in OpenSessions
  <2>1. GetsInto(c, s)
    BY <1>2 DEF AnswerJoin
  <2>2. s \in Nat
    BY <1>2, ProcessTracks, ProcessOfInv, LenProperties DEF OpenSessions
  <2>. HIDE DEF s
  <2>. QED  BY <1>1, <2>1, <2>2, GetsIntoTracks
<1>3. CASE s \notin OpenSessions
  BY <1>3, IsRefusedTracks DEF AnswerJoin
<1>. QED  BY <1>2, <1>3

LEMMA AnswerCreateTracks ==
  ASSUME DocumentInv, NEW c \in Client, AnswerCreate(c)
  PROVE  DocumentsTrack'
<1>1. process[c].request.kind # "none"
  BY DEF AnswerCreate
<1>2. CASE OpenSessions = {}
  <2>. DEFINE s == Len(sessions) + 1
  <2>1. GetsInto(c, s)
    BY <1>2 DEF AnswerCreate
  <2>2. s \in Nat
    BY ProcessTracks, ProcessOfInv, LenProperties
  <2>. HIDE DEF s
  <2>. QED  BY <1>1, <2>1, <2>2, GetsIntoTracks
<1>3. CASE OpenSessions # {}
  BY <1>3, IsRefusedTracks DEF AnswerCreate
<1>. QED  BY <1>2, <1>3

LEMMA AnswerLeaveTracks ==
  ASSUME DocumentInv, NEW c \in Client, AnswerLeave(c)
  PROVE  DocumentsTrack'
<1>. DEFINE p == process[c]
            nowhere == 0
            out == [p EXCEPT !.session = nowhere]
            done == [out EXCEPT !.request = NoRequest]
            left == [done EXCEPT !.delivered = 0]
<1>1. /\ IsProcess(p) /\ EventTypes(p) /\ (~past[c].raised => Coherent(p))
      /\ p.request.kind # "none"
  BY ProcessTracks DEF AnswerLeave
<1>2. Leave(c, left) /\ past' = past
  BY Zenon DEF AnswerLeave
<1>3. nowhere \in Nat
  OBVIOUS
<1>. HIDE DEF p, nowhere
<1>4. /\ IsProcess(out) /\ out.views = p.views /\ out.mainQueue = p.mainQueue
      /\ out.document = p.document /\ out.incomingActions = p.incomingActions
  BY <1>1, <1>3, InSession DEF IsProcess
<1>. HIDE DEF out
<1>5. /\ IsProcess(done) /\ done.views = p.views /\ done.mainQueue = p.mainQueue
      /\ done.document = p.document /\ done.incomingActions = p.incomingActions
  BY <1>4 DEF IsProcess, NoRequest
<1>. HIDE DEF done
<1>6. /\ IsProcess(left) /\ left.views = p.views /\ left.mainQueue = p.mainQueue
      /\ left.document = p.document /\ left.incomingActions = p.incomingActions
      /\ left.delivered = 0
  <2>1. IsProcess(left)
    BY <1>5, OtherFields
  <2>. QED  BY <1>5, <2>1 DEF IsProcess
<1>. HIDE DEF left
<1>7. EventTypes(left)
  BY <1>1, <1>6 DEF EventTypes
<1>8. ~past[c].raised => TracksSession(left)
  BY <1>1, <1>6, WaitingHasNothing, NothingToTrack
<1>. QED  BY <1>2, <1>6, <1>7, <1>8, LeavingTracks

LEMMA LeaveFailsTracks ==
  ASSUME DocumentInv, NEW c \in Client, LeaveFails(c)
  PROVE  DocumentsTrack'
<1>1. process' = [process EXCEPT ![c] = [process[c] EXCEPT !.request = NoRequest]]
      /\ past' = past
  BY DEF LeaveFails
<1>2. Carries(process[c], [process[c] EXCEPT !.request = NoRequest])
  BY ProcessTracks, RequestCarries
<1>. QED  BY <1>1, <1>2, CarryingTracks

LEMMA ReceiveEventTracks ==
  ASSUME DocumentInv, NEW c \in Client, ReceiveEvent(c)
  PROVE  DocumentsTrack'
<1>. DEFINE before == process[c]
            next == before.delivered + 1
            p == Enqueue([before EXCEPT !.delivered = next], <<before.session, next>>)
            waiting == Len(p.incomingActions)
<1>1. /\ IsProcess(before) /\ EventTypes(before)
      /\ past[c].startedClean /\ ~past[c].raised =>
           Coherent(before) /\ TracksSession(before)
  BY ProcessTracks
<1>2. \/ process' = [process EXCEPT ![c] = p] /\ past' = past
      \/ /\ p.views > 0
         /\ process' = [process EXCEPT ![c] = Rendered(p, waiting)] /\ past' = past
      \/ /\ \E n \in 1 .. waiting :
              process' = [process EXCEPT ![c] = DeleteSession(Rendered(p, n))]
         /\ past' = [past EXCEPT ![c].raised = TRUE]
  BY DEF ReceiveEvent
<1>3. past \in [Client -> Pasts]
  BY ProcessTracks, ProcessOfInv
<1>4. /\ IsProcess(p) /\ EventTypes(p)
      /\ past[c].startedClean /\ ~past[c].raised => Coherent(p) /\ TracksSession(p)
  <2>. HIDE DEF before
  <2>1. next = before.delivered + 1
    OBVIOUS
  <2>. HIDE DEF next
  <2>2. /\ IsProcess(p) /\ EventTypes(p) /\ Matters(p) = Matters(before)
        /\ TracksSession(before) => TracksSession(p)
    BY <1>1, <2>1, EnqueueKeepsEvents
  <2>. HIDE DEF p
  <2>. QED  BY <1>1, <2>2, MattersAlone
<1>. HIDE DEF before, next, p
<1>5. /\ waiting \in Nat
      /\ \A n \in 0 .. waiting : EventTypes(Rendered(p, n))
      /\ p.views > 0 /\ Coherent(p) /\ TracksSession(p) =>
           TracksSession(Rendered(p, waiting))
  BY <1>4, RenderingKeepsEvents, LenProperties DEF EventTypes
<1>. HIDE DEF waiting
<1>6. CASE process' = [process EXCEPT ![c] = p] /\ past' = past
  BY <1>4, <1>6, OneProcessTracks
<1>7. CASE p.views > 0 /\ process' = [process EXCEPT ![c] = Rendered(p, waiting)]
           /\ past' = past
  <2>1. EventTypes(Rendered(p, waiting))
    BY <1>5
  <2>2. past[c].startedClean /\ ~past[c].raised => TracksSession(Rendered(p, waiting))
    BY <1>4, <1>5, <1>7
  <2>. QED  BY <1>7, <2>1, <2>2, OneProcessTracks
<1>8. ASSUME NEW n \in 1 .. waiting,
             process' = [process EXCEPT ![c] = DeleteSession(Rendered(p, n))],
             past' = [past EXCEPT ![c].raised = TRUE]
      PROVE  DocumentsTrack'
  <2>. DEFINE q == DeleteSession(Rendered(p, n))
  <2>1. EventTypes(Rendered(p, n)) /\ IsProcess(Rendered(p, n))
    BY <1>4, <1>5, RenderingType
  <2>2. EventTypes(q)
    BY <2>1, DeleteCarries, CarriesOn
  <2>. HIDE DEF q
  <2>3. past'[c].raised /\ \A d \in Client : d # c => past'[d] = past[d]
    BY <1>3, <1>8 DEF Pasts
  <2>4. process' = [process EXCEPT ![c] = q]
    BY <1>8 DEF q
  <2>. QED  BY <2>2, <2>3, <2>4, OneProcessTracks
<1>. QED  BY <1>2, <1>6, <1>7, <1>8

LEMMA FreshTracks == EventTypes(FreshProcess) /\ TracksSession(FreshProcess)
<1>1. EventTypes(FreshProcess)
  BY EmptySeq DEF EventTypes, FreshProcess
<1>2. FreshProcess.mainQueue = <<>> /\ DOMAIN <<>> = {} /\ FreshProcess.views = 0
  BY EmptySeq DEF FreshProcess
<1>3. Joins(FreshProcess.mainQueue) = {} /\ ~(FreshProcess.views > 0)
  BY <1>2 DEF Joins
<1>. QED  BY <1>1, <1>3, NothingToTrack

LEMMA ProcessEndsTracks ==
  ASSUME DocumentInv, NEW c \in Client, ProcessEnds(c)
  PROVE  DocumentsTrack'
<1>1. \A d \in Client : d # c => past'[d] = past[d]
  <2>1. past' = [past EXCEPT ![c] = NoPast] /\ past \in [Client -> Pasts]
    BY ProcessTracks, ProcessOfInv DEF ProcessEnds
  <2>. QED  BY <2>1
<1>2. CASE Leave(c, FreshProcess)
  BY <1>1, <1>2, FreshTracks, FreshIsCoherent, LeavingTracks
<1>3. CASE process' = [process EXCEPT ![c] = FreshProcess]
  BY <1>1, <1>3, FreshTracks, OneProcessTracks
<1>. QED  BY <1>2, <1>3 DEF ProcessEnds

LEMMA StrangersActTracks ==
  ASSUME DocumentInv, StrangersAct
  PROVE  DocumentsTrack'
<1>1. past' = past
  BY DEF StrangersAct
<1>2. CASE UNCHANGED process
  BY <1>1, <1>2 DEF DocumentInv, DocumentsTrack
<1>3. CASE \E s \in OpenSessions : EndSession(s, process)
  <2>1. \A d \in Client :
          /\ IsProcess(process[d])
          /\ EventTypes(process[d])
          /\ past'[d].startedClean /\ ~past'[d].raised => TracksSession(process[d])
    BY <1>1, ProcessTracks
  <2>. QED  BY <1>3, <2>1, EndingTracks
<1>. QED  BY <1>2, <1>3 DEF StrangersAct

----------------------------------------------------------------------------
(***************************************************************************)
(* The theorem                                                             *)
(***************************************************************************)

LEMMA InitTracks == Init => DocumentInv
<1>. SUFFICES ASSUME Init PROVE DocumentInv
  OBVIOUS
<1>1. \A c \in Client : process[c] = FreshProcess
  BY DEF Init
<1>. QED  BY <1>1, InitInv, FreshTracks DEF DocumentInv, DocumentsTrack

LEMMA StepTracks == DocumentInv /\ [Next]_vars => DocumentInv'
<1>. SUFFICES ASSUME DocumentInv, [Next]_vars PROVE DocumentsTrack'
  BY StepKeepsSessionInv DEF DocumentInv
<1>1. ASSUME NEW c \in Client, PressStart(c) PROVE DocumentsTrack'
  BY <1>1, PressStartTracks
<1>2. ASSUME NEW c \in Client, RunCallback(c) PROVE DocumentsTrack'
  BY <1>2, RunCallbackTracks
<1>3. ASSUME NEW c \in Client, Exit(c) PROVE DocumentsTrack'
  BY <1>3, ExitTracks
<1>4. ASSUME NEW c \in Client, Broadcast(c) PROVE DocumentsTrack'
  BY <1>4 DEF Broadcast, DocumentInv, DocumentsTrack
<1>5. ASSUME NEW c \in Client, Framework(c) PROVE DocumentsTrack'
  BY <1>5, AnswerListTracks, AnswerJoinTracks, AnswerCreateTracks, AnswerLeaveTracks
     DEF Framework
<1>6. ASSUME NEW c \in Client, CallFails(c) PROVE DocumentsTrack'
  BY <1>6, IsRefusedTracks, LeaveFailsTracks DEF CallFails, JoinOrCreateFails
<1>7. ASSUME NEW c \in Client, ReceiveEvent(c) PROVE DocumentsTrack'
  BY <1>7, ReceiveEventTracks
<1>8. ASSUME NEW c \in Client, ProcessEnds(c) PROVE DocumentsTrack'
  BY <1>8, ProcessEndsTracks
<1>9. ASSUME StrangersAct PROVE DocumentsTrack'
  BY <1>9, StrangersActTracks
<1>10. ASSUME UNCHANGED vars PROVE DocumentsTrack'
  BY <1>10 DEF vars, DocumentInv, DocumentsTrack
<1>. QED
  BY <1>1, <1>2, <1>3, <1>4, <1>5, <1>6, <1>7, <1>8, <1>9, <1>10 DEF Next

\* Who got into a session with an empty queue has rendered, or has in the queue, the
\* events of this session from its first to the last that arrived, in order and each
\* once, until a rendering has raised.
THEOREM DocumentIsAlwaysTheSession == Spec => []DocumentIsTheSession
<1>1. DocumentInv => DocumentIsTheSession
  BY ProcessTracks DEF DocumentIsTheSession, TracksSession, EventsOf
<1>. QED  BY <1>1, InitTracks, StepTracks, PTL DEF Spec

----------------------------------------------------------------------------
(***************************************************************************)
(* That every number of a session is one that there is, or was: what a     *)
(* process remembers of the sessions is never ahead of the server.  It     *)
(* becomes inductive with the lists in the main queue, from which the      *)
(* client takes the session that it asks for.                              *)
(***************************************************************************)

Known(p, n) ==
  /\ p.session \in 0 .. n
  /\ p.request.session \in 0 .. n
  /\ p.request.kind \in {"none", "join", "create", "leave"}
  /\ \A i \in DOMAIN p.mainQueue : Len(p.mainQueue[i].list) <= n

EventsCounted == \A s \in DOMAIN sessions : sessions[s].events \in Nat

KnownInv ==
  /\ SessionInv
  /\ EventsCounted
  /\ \A c \in Client : Known(process[c], Len(sessions))

\* It depends on what matters alone, and stays true as sessions are added.
LEMMA KnownAlone ==
  ASSUME NEW p, NEW q, Matters(q) = Matters(p), NEW n
  PROVE  Known(p, n) => Known(q, n)
BY DEF Matters, Known

LEMMA KnownLater ==
  ASSUME NEW p, IsProcess(p), NEW n \in Nat, NEW m \in Nat, n <= m, Known(p, n)
  PROVE  Known(p, m)
<1>1. \A i \in DOMAIN p.mainQueue : Len(p.mainQueue[i].list) \in Nat
  <2>1. \A i \in DOMAIN p.mainQueue : p.mainQueue[i] \in Callbacks
    BY ElementOfSeq, LenProperties DEF IsProcess
  <2>. QED  BY <2>1, LenProperties DEF Callbacks
<1>. QED  BY <1>1 DEF Known

\* A callback is put at the end of the main queue.
LEMMA PostKnown ==
  ASSUME NEW p, IsProcess(p), NEW n \in Nat, Known(p, n),
         NEW kind \in {"listed", "joined", "refused", "ended"},
         NEW list \in Seq(BOOLEAN), Len(list) <= n
  PROVE  Known(Post(p, kind, list), n)
<1>. DEFINE q == Post(p, kind, list)
            callback == [kind |-> kind, list |-> list]
            longer == Append(p.mainQueue, callback)
<1>1. callback \in Callbacks /\ callback.list = list
  BY DEF Callbacks
<1>2. p.mainQueue \in Seq(Callbacks)
  BY DEF IsProcess
<1>3. q.session = p.session /\ q.request = p.request
  BY PostType
<1>4. q.mainQueue = longer
  BY DEF Post, IsProcess
<1>. HIDE DEF q, callback
<1>5. /\ Len(longer) = Len(p.mainQueue) + 1 /\ longer \in Seq(Callbacks)
      /\ \A i \in 1 .. Len(p.mainQueue) : longer[i] = p.mainQueue[i]
      /\ longer[Len(p.mainQueue) + 1] = callback
  BY <1>1, <1>2, AppendProperties
<1>6. /\ Len(p.mainQueue) \in Nat /\ DOMAIN p.mainQueue = 1 .. Len(p.mainQueue)
      /\ DOMAIN longer = 1 .. Len(p.mainQueue) + 1
  BY <1>2, <1>5, LenProperties
<1>. HIDE DEF longer
<1>7. ASSUME NEW i \in DOMAIN longer
      PROVE  Len(longer[i].list) <= n
  <2>1. CASE i \in DOMAIN p.mainQueue
    BY <1>5, <1>6, <2>1 DEF Known
  <2>2. CASE i = Len(p.mainQueue) + 1
    BY <1>1, <1>5, <2>2
  <2>. QED  BY <1>6, <2>1, <2>2
<1>. QED  BY <1>3, <1>4, <1>7 DEF Known, q

LEMMA DeleteKnown ==
  ASSUME NEW p, IsProcess(p), NEW n, Known(p, n)
  PROVE  Known(DeleteSession(p), n)
<1>. DEFINE request == [kind |-> "leave", session |-> p.session]
            asked == [p EXCEPT !.request = request]
<1>1. /\ asked.session = p.session /\ asked.request = request
      /\ asked.mainQueue = p.mainQueue
  BY DEF IsProcess
<1>2. DeleteSession(p) = p \/ DeleteSession(p) = asked
  BY DEF DeleteSession
<1>3. Known(asked, n)
  <2>1. request.session = p.session /\ request.kind = "leave"
    OBVIOUS
  <2>. HIDE DEF asked, request
  <2>. QED  BY <1>1, <2>1 DEF Known
<1>. QED  BY <1>2, <1>3

LEMMA CreateKnown ==
  ASSUME NEW p, IsProcess(p), NEW n \in Nat, Known(p, n)
  PROVE  Known(CreateSession(p), n)
<1>. DEFINE request == [kind |-> "create", session |-> 0]
            asked == [p EXCEPT !.request = request]
<1>1. CASE Refuses(p, "create")
  <2>1. <<>> \in Seq(BOOLEAN) /\ Len(<<>>) <= n
    BY EmptySeq
  <2>2. CreateSession(p) = Post(p, "refused", <<>>)
    BY <1>1 DEF CreateSession
  <2>. QED  BY <2>1, <2>2, PostKnown
<1>2. CASE ~Refuses(p, "create")
  <2>1. /\ asked.session = p.session /\ asked.request = request
        /\ asked.mainQueue = p.mainQueue
    BY DEF IsProcess
  <2>2. CreateSession(p) = asked
    BY <1>2 DEF CreateSession
  <2>3. request.session = 0 /\ request.kind = "create"
    OBVIOUS
  <2>. HIDE DEF asked, request
  <2>. QED  BY <2>1, <2>2, <2>3 DEF Known
<1>. QED  BY <1>1, <1>2

LEMMA JoinKnown ==
  ASSUME NEW p, IsProcess(p), NEW n \in Nat, Known(p, n),
         NEW found, found # {}, found \in SUBSET (1 .. n)
  PROVE  Known(JoinSessions(p, found), n)
<1>. DEFINE refuses == Refuses(p, "join")
            errors == IF refuses THEN Cardinality(found) ELSE Cardinality(found) - 1
            refusals == [i \in 1 .. errors |-> Refusal]
            queue == p.mainQueue \o refusals
            request == IF refuses THEN p.request
                       ELSE [kind |-> "join", session |-> Min(found)]
            q == JoinSessions(p, found)
<1>1. /\ q.session = p.session /\ q.request = request /\ q.mainQueue = queue
  BY DEF JoinSessions, IsProcess
<1>2. errors \in Nat
  <2>1. IsFiniteSet(found)
    <3>1. IsFiniteSet(1 .. n)
      BY FS_Interval
    <3>. QED  BY <3>1, FS_Subset
  <2>2. Cardinality(found) \in Nat /\ Cardinality(found) # 0
    BY <2>1, FS_CardinalityType, FS_EmptySet
  <2>. QED  BY <2>2
<1>3. Min(found) \in found
  <2>. DEFINE R == OpToRel(<, Nat)
  <2>1. IsWellFoundedOn(R, Nat)
    BY NatLessThanWellFounded
  <2>2. \A s \in found : s \in Nat
    OBVIOUS
  <2>. HIDE DEF R
  <2>3. PICK least \in found : \A s \in found : <<s, least>> \notin R
    BY <2>1, <2>2, WFMin
  <2>4. ASSUME NEW s \in found
        PROVE  least <= s
    <3>1. <<s, least>> \notin R /\ s \in Nat /\ least \in Nat
      BY <2>2, <2>3
    <3>2. s < least => <<s, least>> \in R
      BY <3>1 DEF R, OpToRel
    <3>. QED  BY <3>1, <3>2
  <2>. QED  BY <2>4 DEF Min
<1>4. /\ request.session \in 0 .. n
      /\ request.kind \in {"none", "join", "create", "leave"}
  <2>1. \A s \in found : s \in 0 .. n
    OBVIOUS
  <2>2. Min(found) \in 0 .. n
    BY <1>3, <2>1
  <2>. QED  BY <2>2 DEF Known
<1>5. /\ queue \in Seq(Callbacks)
      /\ Len(queue) = Len(p.mainQueue) + errors
      /\ \A i \in 1 .. Len(p.mainQueue) + errors :
           queue[i] = IF i <= Len(p.mainQueue) THEN p.mainQueue[i] ELSE Refusal
  <2>1. p.mainQueue \in Seq(Callbacks) /\ Len(p.mainQueue) \in Nat
    BY LenProperties DEF IsProcess
  <2>. HIDE DEF errors
  <2>2. refusals \in Seq(Callbacks) /\ Len(refusals) = errors
        /\ \A i \in 1 .. errors : refusals[i] = Refusal
    <3>1. Refusal \in Callbacks
      BY EmptySeq DEF Refusal, Callbacks
    <3>. QED  BY <1>2, <3>1, IsASeq
  <2>. HIDE DEF refusals
  <2>3. /\ queue \in Seq(Callbacks)
        /\ Len(queue) = Len(p.mainQueue) + Len(refusals)
        /\ \A i \in 1 .. Len(p.mainQueue) + Len(refusals) :
             queue[i] = IF i <= Len(p.mainQueue) THEN p.mainQueue[i]
                        ELSE refusals[i - Len(p.mainQueue)]
    BY <2>1, <2>2, ConcatProperties
  <2>4. \A i \in 1 .. Len(p.mainQueue) + errors :
          i <= Len(p.mainQueue) \/ i - Len(p.mainQueue) \in 1 .. errors
    BY <1>2, <2>1
  <2>. HIDE DEF queue
  <2>. QED  BY <2>2, <2>3, <2>4
<1>. HIDE DEF queue, request, errors, q
<1>6. \A i \in DOMAIN queue : Len(queue[i].list) <= n
  <2>1. /\ DOMAIN queue = 1 .. Len(p.mainQueue) + errors
        /\ DOMAIN p.mainQueue = 1 .. Len(p.mainQueue) /\ Len(p.mainQueue) \in Nat
    BY <1>5, LenProperties DEF IsProcess
  <2>2. Len(Refusal.list) <= n
    BY EmptySeq DEF Refusal
  <2>3. \A i \in DOMAIN queue : i <= Len(p.mainQueue) => i \in DOMAIN p.mainQueue
    BY <1>2, <2>1
  <2>. QED  BY <1>5, <2>1, <2>2, <2>3 DEF Known
<1>7. Known(q, n)
  BY <1>1, <1>4, <1>6 DEF Known
<1>. QED  BY <1>7 DEF q

\* A callback on the main thread.
LEMMA CallbackKnown ==
  ASSUME NEW p, IsProcess(p), p.mainQueue # <<>>, NEW n \in Nat, Known(p, n)
  PROVE  Known(Callback([p EXCEPT !.mainQueue = Tail(@)], Head(p.mainQueue)), n)
<1>. DEFINE callback == Head(p.mainQueue)
            tail == Tail(p.mainQueue)
            taken == [p EXCEPT !.mainQueue = tail]
            list == callback.list
<1>1. p.mainQueue \in Seq(Callbacks)
  BY DEF IsProcess
<1>2. /\ callback \in Callbacks /\ tail \in Seq(Callbacks)
      /\ Len(tail) = Len(p.mainQueue) - 1
      /\ \A i \in 1 .. Len(tail) : tail[i] = p.mainQueue[i + 1]
      /\ callback = p.mainQueue[1]
      /\ Len(p.mainQueue) \in Nat /\ Len(p.mainQueue) # 0
      /\ DOMAIN p.mainQueue = 1 .. Len(p.mainQueue)
      /\ DOMAIN tail = 1 .. Len(p.mainQueue) - 1
  BY <1>1, HeadTailProperties, EmptySeq, LenProperties
<1>3. callback.kind \in {"listed", "joined", "refused", "ended"}
      /\ list \in Seq(BOOLEAN)
  BY <1>2 DEF Callbacks
<1>4. Len(list) <= n
  BY <1>2 DEF Known
<1>. HIDE DEF tail
<1>5. ASSUME NEW i \in DOMAIN tail
      PROVE  Len(tail[i].list) <= n
  <2>1. i \in 1 .. Len(tail) /\ i + 1 \in DOMAIN p.mainQueue
    BY <1>2
  <2>2. tail[i] = p.mainQueue[i + 1]
    BY <1>2, <2>1
  <2>. QED  BY <2>1, <2>2 DEF Known
<1>6. /\ taken.session = p.session /\ taken.request = p.request
      /\ taken.views = p.views /\ taken.mainQueue = tail
  BY DEF IsProcess
<1>7. IsProcess(taken)
  BY <1>2, <1>6 DEF IsProcess
<1>. HIDE DEF taken
<1>8. Known(taken, n)
  BY <1>5, <1>6 DEF Known
<1>. HIDE DEF callback, list
<1>9. CASE callback.kind = "listed"
  <2>. DEFINE open == {s \in DOMAIN list : list[s]}
  <2>1. open \in SUBSET (1 .. n)
    <3>1. Len(list) \in Nat /\ DOMAIN list = 1 .. Len(list)
      BY <1>3, LenProperties
    <3>. QED  BY <1>4, <3>1
  <2>2. Callback(taken, callback)
          = IF open = {} THEN CreateSession(taken) ELSE JoinSessions(taken, open)
    BY <1>9 DEF Callback, FoundSessions, list
  <2>. HIDE DEF open
  <2>3. Known(Callback(taken, callback), n)
    <3>1. CASE open = {}
      BY <1>7, <1>8, <2>2, <3>1, CreateKnown
    <3>2. CASE open # {}
      BY <1>7, <1>8, <2>1, <2>2, <3>2, JoinKnown
    <3>. QED  BY <3>1, <3>2
  <2>. QED  BY <2>3 DEF taken, tail, callback
<1>10. CASE callback.kind = "joined"
  <2>. DEFINE still == [taken EXCEPT !.spinning = FALSE]
              shown == [still EXCEPT !.views = @ + 1]
              opened == [shown EXCEPT !.document = <<>>]
  <2>1. Callback(taken, callback) = opened
    BY <1>10 DEF Callback, NotifySession, JoinedSession
  <2>2. IsProcess(still) /\ Matters(still) = Matters(taken)
    BY <1>7, OtherFields, Zenon
  <2>. HIDE DEF still
  <2>3. shown.session = still.session /\ shown.request = still.request
        /\ shown.mainQueue = still.mainQueue
    BY <2>2 DEF IsProcess
  <2>4. opened.session = shown.session /\ opened.request = shown.request
        /\ opened.mainQueue = shown.mainQueue
    BY <2>2 DEF IsProcess
  <2>. HIDE DEF shown, opened
  <2>5. Known(opened, n)
    BY <1>8, <2>2, <2>3, <2>4 DEF Known, Matters
  <2>. QED  BY <2>1, <2>5 DEF taken, tail, callback
<1>11. CASE callback.kind = "refused"
  <2>1. Callback(taken, callback) = taken
    BY <1>11 DEF Callback, NotifySession
  <2>. QED  BY <1>8, <2>1 DEF taken, tail, callback
<1>12. CASE callback.kind = "ended"
  <2>. DEFINE alerted == [taken EXCEPT !.alert = TRUE]
  <2>1. Callback(taken, callback) = taken \/ Callback(taken, callback) = alerted
    BY <1>12 DEF Callback, EndedSession
  <2>2. Matters(alerted) = Matters(taken)
    BY <1>7, OtherFields, Zenon
  <2>. HIDE DEF alerted
  <2>3. Known(alerted, n)
    BY <1>8, <2>2, KnownAlone
  <2>. QED  BY <1>8, <2>1, <2>3 DEF taken, tail, callback
<1>. QED  BY <1>3, <1>9, <1>10, <1>11, <1>12

----------------------------------------------------------------------------
\* Sessions are added, never removed, and their events are counted.
LEMMA SessionsGrow ==
  ASSUME SessionInv, EventsCounted, [Next]_vars
  PROVE  /\ EventsCounted'
         /\ Len(sessions) \in Nat /\ Len(sessions') \in Nat
         /\ Len(sessions) <= Len(sessions')
<1>1. sessions \in Seq(SessionRecords) /\ sessions' \in Seq(SessionRecords)
  BY StepKeepsSessionInv DEF SessionInv, SessionShapes
<1>2. /\ Len(sessions) \in Nat /\ Len(sessions') \in Nat
      /\ DOMAIN sessions = 1 .. Len(sessions) /\ DOMAIN sessions' = 1 .. Len(sessions')
  BY <1>1, LenProperties
<1>3. \/ sessions' = sessions
      \/ \E s : sessions' = [sessions EXCEPT ![s].open = FALSE]
      \/ \E s : sessions' = [sessions EXCEPT ![s].events = @ + 1]
      \/ \E s : sessions' = [sessions EXCEPT ![s].owner = Stranger]
      \/ \E owner \in Client \cup {Stranger} :
           sessions' = Append(sessions, [owner |-> owner, open |-> TRUE, events |-> 0])
  <2>1. ASSUME NEW c \in Client, PressStart(c) \/ RunCallback(c) \/ Exit(c) \/ AnswerList(c)
                                 \/ CallFails(c) \/ ReceiveEvent(c)
        PROVE  sessions' = sessions
    BY <2>1 DEF PressStart, RunCallback, Exit, AnswerList, CallFails, JoinOrCreateFails,
                IsRefused, LeaveFails, ReceiveEvent
  <2>2. ASSUME NEW c \in Client, Broadcast(c)
        PROVE  \E s : sessions' = [sessions EXCEPT ![s].events = @ + 1]
    BY <2>2 DEF Broadcast
  <2>3. ASSUME NEW c \in Client, AnswerJoin(c)
        PROVE  sessions' = sessions
    BY <2>3 DEF AnswerJoin, IsRefused
  <2>4. ASSUME NEW c \in Client, AnswerCreate(c)
        PROVE  \/ sessions' = sessions
               \/ sessions' = Append(sessions, [owner |-> c, open |-> TRUE, events |-> 0])
    BY <2>4 DEF AnswerCreate, IsRefused
  <2>5. ASSUME NEW c \in Client, NEW left, Leave(c, left)
        PROVE  \/ sessions' = sessions
               \/ \E s : sessions' = [sessions EXCEPT ![s].open = FALSE]
    BY <2>5 DEF Leave, EndSession
  <2>6. ASSUME NEW c \in Client, ProcessEnds(c)
        PROVE  \/ sessions' = sessions
               \/ \E s : sessions' = [sessions EXCEPT ![s].open = FALSE]
               \/ \E s : sessions' = [sessions EXCEPT ![s].owner = Stranger]
    BY <2>5, <2>6 DEF ProcessEnds
  <2>7. ASSUME StrangersAct
        PROVE  \/ \E s : sessions' = [sessions EXCEPT ![s].open = FALSE]
               \/ \E s : sessions' = [sessions EXCEPT ![s].events = @ + 1]
               \/ sessions' = Append(sessions,
                                     [owner |-> Stranger, open |-> TRUE, events |-> 0])
    BY <2>7 DEF StrangersAct, EndSession
  <2>8. ASSUME NEW c \in Client, AnswerLeave(c)
        PROVE  \/ sessions' = sessions
               \/ \E s : sessions' = [sessions EXCEPT ![s].open = FALSE]
    BY <2>5, <2>8 DEF AnswerLeave
  <2>9. CASE UNCHANGED vars
    BY <2>9 DEF vars
  <2>. QED
    BY <2>1, <2>2, <2>3, <2>4, <2>6, <2>7, <2>8, <2>9 DEF Next, Framework
<1>4. \A s \in DOMAIN sessions : /\ sessions[s] \in SessionRecords
                                 /\ sessions[s].events \in Nat
  BY <1>1, <1>2, ElementOfSeq DEF EventsCounted
<1>5. ASSUME sessions' = sessions
      PROVE  EventsCounted' /\ Len(sessions) = Len(sessions')
  BY <1>2, <1>5 DEF EventsCounted
<1>6. ASSUME NEW s, sessions' = [sessions EXCEPT ![s].open = FALSE]
      PROVE  EventsCounted' /\ Len(sessions) = Len(sessions')
  <2>1. DOMAIN sessions' = DOMAIN sessions
    BY <1>6
  <2>2. Len(sessions) = Len(sessions')
    BY <1>1, <2>1, LenProperties
  <2>3. \A t \in DOMAIN sessions : sessions'[t].events = sessions[t].events
    BY <1>4, <1>6 DEF SessionRecords
  <2>. QED  BY <1>4, <2>1, <2>2, <2>3 DEF EventsCounted
<1>7. ASSUME NEW s, sessions' = [sessions EXCEPT ![s].events = @ + 1]
      PROVE  EventsCounted' /\ Len(sessions) = Len(sessions')
  <2>1. DOMAIN sessions' = DOMAIN sessions
    BY <1>7
  <2>2. Len(sessions) = Len(sessions')
    BY <1>1, <2>1, LenProperties
  <2>3. \A t \in DOMAIN sessions : \/ sessions'[t].events = sessions[t].events
                                   \/ sessions'[t].events = sessions[t].events + 1
    BY <1>4, <1>7 DEF SessionRecords
  <2>. QED  BY <1>4, <2>1, <2>2, <2>3 DEF EventsCounted
<1>8. ASSUME NEW s, sessions' = [sessions EXCEPT ![s].owner = Stranger]
      PROVE  EventsCounted' /\ Len(sessions) = Len(sessions')
  <2>1. DOMAIN sessions' = DOMAIN sessions
    BY <1>8
  <2>2. Len(sessions) = Len(sessions')
    BY <1>1, <2>1, LenProperties
  <2>3. \A t \in DOMAIN sessions : sessions'[t].events = sessions[t].events
    BY <1>4, <1>8 DEF SessionRecords
  <2>. QED  BY <1>4, <2>1, <2>2, <2>3 DEF EventsCounted
<1>9. ASSUME NEW owner \in Client \cup {Stranger},
             sessions' = Append(sessions, [owner |-> owner, open |-> TRUE, events |-> 0])
      PROVE  EventsCounted' /\ Len(sessions') = Len(sessions) + 1
  <2>. DEFINE record == [owner |-> owner, open |-> TRUE, events |-> 0]
  <2>1. record \in SessionRecords /\ record.events = 0
    BY DEF SessionRecords
  <2>. HIDE DEF record
  <2>2. /\ Len(sessions') = Len(sessions) + 1
        /\ \A t \in 1 .. Len(sessions) : sessions'[t] = sessions[t]
        /\ sessions'[Len(sessions) + 1] = record
    <3>1. sessions' = Append(sessions, record)
      BY <1>9 DEF record
    <3>. QED  BY <1>1, <2>1, <3>1, AppendProperties
  <2>3. \A t \in DOMAIN sessions' : t \in DOMAIN sessions \/ t = Len(sessions) + 1
    BY <1>2, <2>2
  <2>4. ASSUME NEW t \in DOMAIN sessions' PROVE sessions'[t].events \in Nat
    BY <1>2, <1>4, <2>1, <2>2, <2>3
  <2>. QED  BY <2>2, <2>4 DEF EventsCounted
<1>10. /\ EventsCounted'
       /\ Len(sessions) = Len(sessions') \/ Len(sessions') = Len(sessions) + 1
  BY <1>3, <1>5, <1>6, <1>7, <1>8, <1>9, Zenon
<1>11. Len(sessions) \in Nat /\ Len(sessions') \in Nat
  BY <1>2
<1>12. Len(sessions) <= Len(sessions')
  BY <1>10, <1>11
<1>. QED  BY <1>10, <1>11, <1>12

\* A step of one process.
LEMMA OneProcessKnown ==
  ASSUME SessionInv, NEW n \in Nat, \A d \in Client : Known(process[d], n),
         NEW c \in Client, NEW q, Known(q, n), process' = [process EXCEPT ![c] = q]
  PROVE  \A d \in Client : Known(process'[d], n)
<1>1. \A d \in Client : process'[d] = IF d = c THEN q ELSE process[d]
  BY DEF SessionInv, SessionShapes
<1>. QED  BY <1>1

\* A session ends, of which its members are told.
LEMMA EndingKnown ==
  ASSUME NEW n \in Nat, NEW s, NEW processes,
         \A d \in Client : IsProcess(processes[d]) /\ Known(processes[d], n),
         EndSession(s, processes)
  PROVE  \A d \in Client : Known(process'[d], n)
<1>1. ASSUME NEW d \in Client
      PROVE  Known(process'[d], n)
  <2>. DEFINE p == processes[d]
  <2>1. process'[d] = p \/ process'[d] = Post(p, "ended", <<>>)
    BY DEF EndSession
  <2>2. IsProcess(p) /\ Known(p, n)
    OBVIOUS
  <2>. HIDE DEF p
  <2>3. <<>> \in Seq(BOOLEAN) /\ Len(<<>>) <= n
    BY EmptySeq
  <2>4. Known(Post(p, "ended", <<>>), n)
    BY <2>2, <2>3, PostKnown
  <2>. QED  BY <2>1, <2>2, <2>4
<1>. QED  BY <1>1

LEMMA LeavingKnown ==
  ASSUME SessionInv, NEW n \in Nat, \A d \in Client : Known(process[d], n),
         NEW c \in Client, NEW left, IsProcess(left), Known(left, n), Leave(c, left)
  PROVE  \A d \in Client : Known(process'[d], n)
<1>. DEFINE processes == [process EXCEPT ![c] = left]
<1>1. CASE Owns(c)
  <2>1. \A d \in Client : processes[d] = IF d = c THEN left ELSE process[d]
    BY DEF SessionInv, SessionShapes
  <2>2. EndSession(process[c].session, processes)
    BY <1>1 DEF Leave
  <2>3. \A d \in Client : IsProcess(processes[d]) /\ Known(processes[d], n)
    BY <2>1 DEF SessionInv, SessionShapes
  <2>. HIDE DEF processes
  <2>. QED  BY <2>2, <2>3, EndingKnown
<1>2. CASE ~Owns(c)
  BY <1>2, OneProcessKnown DEF Leave
<1>. QED  BY <1>1, <1>2

\* What the client receives, and whether it renders it, does not matter here.
LEMMA ReceivingKnown ==
  ASSUME SessionInv, NEW n \in Nat, \A d \in Client : Known(process[d], n),
         NEW c \in Client, ReceiveEvent(c)
  PROVE  \A d \in Client : Known(process'[d], n)
<1>. DEFINE before == process[c]
            next == before.delivered + 1
            counted == [before EXCEPT !.delivered = next]
            queue == Append(counted.incomingActions, <<before.session, next>>)
            p == [counted EXCEPT !.incomingActions = queue]
            waiting == Len(p.incomingActions)
<1>1. IsProcess(before) /\ Known(before, n)
  BY ProcessOfInv
<1>2. \/ process' = [process EXCEPT ![c] = p]
      \/ process' = [process EXCEPT ![c] = Rendered(p, waiting)]
      \/ \E k \in 1 .. waiting :
           process' = [process EXCEPT ![c] = DeleteSession(Rendered(p, k))]
  BY DEF ReceiveEvent, Enqueue
<1>. HIDE DEF next, before
<1>3. IsProcess(counted) /\ Matters(counted) = Matters(before)
  BY <1>1, OtherFields
<1>. HIDE DEF counted, queue
<1>4. IsProcess(p) /\ Matters(p) = Matters(counted)
  BY <1>3, OtherFields
<1>. HIDE DEF p, waiting
<1>5. Known(p, n)
  BY <1>1, <1>3, <1>4, KnownAlone
<1>6. \A k : IsProcess(Rendered(p, k)) /\ Known(Rendered(p, k), n)
  BY <1>4, <1>5, RenderingType, KnownAlone
<1>7. \A k : Known(DeleteSession(Rendered(p, k)), n)
  BY <1>6, DeleteKnown
<1>8. CASE process' = [process EXCEPT ![c] = p]
  BY <1>5, <1>8, OneProcessKnown
<1>9. CASE process' = [process EXCEPT ![c] = Rendered(p, waiting)]
  BY <1>6, <1>9, OneProcessKnown
<1>10. ASSUME NEW k, process' = [process EXCEPT ![c] = DeleteSession(Rendered(p, k))]
       PROVE  \A d \in Client : Known(process'[d], n)
  BY <1>7, <1>10, OneProcessKnown
<1>. QED  BY <1>2, <1>8, <1>9, <1>10

\* What the framework does with a request.
LEMMA AnswersKnown ==
  ASSUME SessionInv, NEW n \in Nat, \A d \in Client : Known(process[d], n),
         NEW c \in Client, NEW s \in 0 .. n,
         GetsInto(c, s) \/ IsRefused(c) \/ LeaveFails(c)
           \/ Leave(c, [process[c] EXCEPT !.session = 0, !.request = NoRequest,
                                          !.delivered = 0])
  PROVE  \A d \in Client : Known(process'[d], n)
<1>. DEFINE p == process[c]
            id == s
            into == [p EXCEPT !.session = id]
            nowhere == 0
            out == [p EXCEPT !.session = nowhere]
            Answered(q) == [q EXCEPT !.request = NoRequest]
            Fresh(q) == [q EXCEPT !.delivered = 0]
<1>1. IsProcess(p) /\ Known(p, n)
  BY ProcessOfInv
<1>2. \/ process' = [process EXCEPT ![c] = Post(Fresh(Answered(into)), "joined", <<>>)]
      \/ process' = [process EXCEPT ![c] = Post(Answered(p), "refused", <<>>)]
      \/ process' = [process EXCEPT ![c] = Answered(p)]
      \/ Leave(c, Fresh(Answered(out)))
  BY Zenon DEF GetsInto, IsRefused, LeaveFails
<1>3. id \in 0 .. n /\ nowhere \in 0 .. n /\ id \in Nat /\ nowhere \in Nat
  OBVIOUS
<1>. HIDE DEF p, id, nowhere
<1>4. IsProcess(into) /\ Known(into, n) /\ IsProcess(out) /\ Known(out, n)
  <2>1. /\ IsProcess(into) /\ into.session = id /\ into.request = p.request
        /\ into.mainQueue = p.mainQueue
    BY <1>1, <1>3, InSession
  <2>2. /\ IsProcess(out) /\ out.session = nowhere /\ out.request = p.request
        /\ out.mainQueue = p.mainQueue
    BY <1>1, <1>3, InSession
  <2>. HIDE DEF into, out
  <2>. QED  BY <1>1, <1>3, <2>1, <2>2 DEF Known
<1>. HIDE DEF into, out
<1>5. ASSUME NEW q, IsProcess(q), Known(q, n)
      PROVE  IsProcess(Answered(q)) /\ Known(Answered(q), n)
  <2>1. /\ Answered(q).session = q.session /\ Answered(q).request = NoRequest
        /\ Answered(q).mainQueue = q.mainQueue
    BY <1>5 DEF IsProcess
  <2>2. IsProcess(Answered(q))
    BY <1>5, <2>1 DEF IsProcess, NoRequest
  <2>3. NoRequest.session \in 0 .. n /\ NoRequest.kind = "none"
    BY DEF NoRequest
  <2>. HIDE DEF Answered
  <2>. QED  BY <1>5, <2>1, <2>2, <2>3 DEF Known
<1>. HIDE DEF Answered
<1>6. ASSUME NEW q, IsProcess(q), Known(q, n)
      PROVE  IsProcess(Fresh(q)) /\ Known(Fresh(q), n)
  <2>1. IsProcess(Fresh(q)) /\ Matters(Fresh(q)) = Matters(q)
    BY <1>6, OtherFields
  <2>. QED  BY <1>6, <2>1, KnownAlone
<1>. HIDE DEF Fresh
<1>7. <<>> \in Seq(BOOLEAN) /\ Len(<<>>) <= n
  BY EmptySeq
<1>8. Known(Post(Fresh(Answered(into)), "joined", <<>>), n)
  BY <1>4, <1>5, <1>6, <1>7, PostKnown
<1>9. Known(Post(Answered(p), "refused", <<>>), n)
  BY <1>1, <1>5, <1>7, PostKnown
<1>10. Known(Answered(p), n)
  BY <1>1, <1>5
<1>11. IsProcess(Fresh(Answered(out))) /\ Known(Fresh(Answered(out)), n)
  BY <1>4, <1>5, <1>6
<1>12. CASE process' = [process EXCEPT ![c] = Post(Fresh(Answered(into)), "joined", <<>>)]
  BY <1>8, <1>12, OneProcessKnown
<1>13. CASE process' = [process EXCEPT ![c] = Post(Answered(p), "refused", <<>>)]
  BY <1>9, <1>13, OneProcessKnown
<1>14. CASE process' = [process EXCEPT ![c] = Answered(p)]
  BY <1>10, <1>14, OneProcessKnown
<1>15. CASE Leave(c, Fresh(Answered(out)))
  BY <1>11, <1>15, LeavingKnown
<1>. QED  BY <1>2, <1>12, <1>13, <1>14, <1>15

\* The user's steps, and those of the main thread.
LEMMA UserKnown ==
  ASSUME SessionInv, NEW n \in Nat, \A d \in Client : Known(process[d], n),
         Len(sessions) <= n, NEW c \in Client,
         PressStart(c) \/ RunCallback(c) \/ Exit(c) \/ Broadcast(c) \/ AnswerList(c)
  PROVE  \A d \in Client : Known(process'[d], n)
<1>. DEFINE p == process[c]
<1>1. IsProcess(p) /\ Known(p, n)
  BY ProcessOfInv
<1>2. CASE PressStart(c)
  <2>. DEFINE spins == [p EXCEPT !.spinning = TRUE]
              q == [spins EXCEPT !.lists = @ + 1]
  <2>1. process' = [process EXCEPT ![c] = q]
    BY <1>2 DEF PressStart, JoinSessionOnSplash
  <2>. HIDE DEF p
  <2>2. IsProcess(spins) /\ Matters(spins) = Matters(p)
    BY <1>1, OtherFields, Zenon
  <2>. HIDE DEF spins
  <2>3. Matters(q) = Matters(spins)
    BY <2>2, OtherFields
  <2>. HIDE DEF q
  <2>4. Known(q, n)
    BY <1>1, <2>2, <2>3, KnownAlone
  <2>. QED  BY <2>1, <2>4, OneProcessKnown
<1>3. CASE RunCallback(c)
  <2>. DEFINE q == Callback([p EXCEPT !.mainQueue = Tail(@)], Head(p.mainQueue))
  <2>1. process' = [process EXCEPT ![c] = q] /\ p.mainQueue # <<>>
    BY <1>3 DEF RunCallback
  <2>. HIDE DEF p
  <2>2. Known(q, n)
    BY <1>1, <2>1, CallbackKnown
  <2>. HIDE DEF q
  <2>. QED  BY <2>1, <2>2, OneProcessKnown
<1>4. CASE Exit(c)
  <2>. DEFINE closed == [p EXCEPT !.views = 0]
              calm == [closed EXCEPT !.alert = FALSE]
              blank == [calm EXCEPT !.document = <<>>]
              q == DeleteSession(blank)
  <2>1. process' = [process EXCEPT ![c] = q]
    BY <1>4 DEF Exit, ExitTextView
  <2>. HIDE DEF p
  <2>2. /\ IsProcess(closed) /\ closed.session = p.session
        /\ closed.request = p.request /\ closed.mainQueue = p.mainQueue
    BY <1>1 DEF IsProcess
  <2>3. Known(closed, n)
    <3>. HIDE DEF closed
    <3>. QED  BY <1>1, <2>2 DEF Known
  <2>. HIDE DEF closed
  <2>4. IsProcess(calm) /\ Matters(calm) = Matters(closed)
    BY <2>2, OtherFields, Zenon
  <2>. HIDE DEF calm
  <2>5. IsProcess(blank) /\ Matters(blank) = Matters(calm)
    BY <2>4, OtherFields
  <2>. HIDE DEF blank
  <2>6. Known(blank, n)
    BY <2>3, <2>4, <2>5, KnownAlone
  <2>7. Known(q, n)
    BY <2>5, <2>6, DeleteKnown
  <2>. HIDE DEF q
  <2>. QED  BY <2>1, <2>7, OneProcessKnown
<1>5. CASE Broadcast(c)
  BY <1>5 DEF Broadcast
<1>6. CASE AnswerList(c)
  <2>. DEFINE list == [s \in DOMAIN sessions |-> sessions[s].open]
              fewer == [p EXCEPT !.lists = @ - 1]
              q == Post(fewer, "listed", list)
  <2>1. process' = [process EXCEPT ![c] = q]
    BY <1>6 DEF AnswerList
  <2>2. list \in Seq(BOOLEAN) /\ Len(list) <= n
    <3>1. /\ Len(sessions) \in Nat /\ DOMAIN sessions = 1 .. Len(sessions)
          /\ \A s \in 1 .. Len(sessions) : sessions[s] \in SessionRecords
      BY ProcessOfInv, LenProperties, ElementOfSeq
    <3>2. \A s \in 1 .. Len(sessions) : sessions[s].open \in BOOLEAN
      BY <3>1 DEF SessionRecords
    <3>3. list \in Seq(BOOLEAN) /\ Len(list) = Len(sessions)
      BY <3>1, <3>2, IsASeq
    <3>. QED  BY <3>3
  <2>. HIDE DEF p, list
  <2>3. IsProcess(fewer) /\ Matters(fewer) = Matters(p)
    BY <1>1, OtherFields
  <2>. HIDE DEF fewer
  <2>4. Known(q, n)
    BY <1>1, <2>2, <2>3, KnownAlone, PostKnown
  <2>. HIDE DEF q
  <2>. QED  BY <2>1, <2>4, OneProcessKnown
<1>. QED  BY <1>2, <1>3, <1>4, <1>5, <1>6

LEMMA FreshKnown ==
  ASSUME NEW n \in Nat
  PROVE  Known(FreshProcess, n)
<1>1. /\ FreshProcess.session = 0 /\ FreshProcess.mainQueue = <<>>
      /\ FreshProcess.request.session = 0 /\ FreshProcess.request.kind = "none"
  BY DEF FreshProcess, NoRequest
<1>. QED  BY <1>1 DEF Known

LEMMA InitKnown == Init => KnownInv
<1>. SUFFICES ASSUME Init PROVE EventsCounted /\ \A c \in Client : Known(process[c], Len(sessions))
  BY InitInv DEF KnownInv
<1>1. DOMAIN sessions = {} /\ Len(sessions) = 0
  BY EmptySeq DEF Init
<1>2. \A c \in Client : process[c] = FreshProcess
  BY DEF Init
<1>. QED  BY <1>1, <1>2, FreshKnown DEF EventsCounted

LEMMA StepKeepsKnown == KnownInv /\ [Next]_vars => KnownInv'
<1>. SUFFICES ASSUME KnownInv, [Next]_vars
              PROVE  \A d \in Client : Known(process'[d], Len(sessions'))
  BY StepKeepsSessionInv, SessionsGrow DEF KnownInv
<1>1. /\ SessionInv /\ EventsCounted
      /\ Len(sessions) \in Nat /\ Len(sessions') \in Nat
      /\ Len(sessions) <= Len(sessions')
  BY SessionsGrow DEF KnownInv
<1>2. PICK n \in Nat : n = Len(sessions')
  BY <1>1
<1>3. \A d \in Client : Known(process[d], n)
  <2>1. \A d \in Client : IsProcess(process[d]) /\ Known(process[d], Len(sessions))
    BY ProcessOfInv DEF KnownInv
  <2>. QED  BY <1>1, <1>2, <2>1, KnownLater
<1>. SUFFICES \A d \in Client : Known(process'[d], n)
  BY <1>2
<1>4. ASSUME NEW c \in Client,
             PressStart(c) \/ RunCallback(c) \/ Exit(c) \/ Broadcast(c) \/ AnswerList(c)
      PROVE  \A d \in Client : Known(process'[d], n)
  BY <1>1, <1>2, <1>3, <1>4, UserKnown
<1>5. ASSUME NEW c \in Client, IsRefused(c) \/ LeaveFails(c)
      PROVE  \A d \in Client : Known(process'[d], n)
  <2>1. 0 \in 0 .. n
    OBVIOUS
  <2>. QED  BY <1>1, <1>3, <1>5, <2>1, AnswersKnown
<1>6. ASSUME NEW c \in Client, AnswerJoin(c)
      PROVE  \A d \in Client : Known(process'[d], n)
  <2>1. process[c].request.session \in 0 .. n
    BY <1>3 DEF Known
  <2>2. GetsInto(c, process[c].request.session) \/ IsRefused(c)
    BY <1>6 DEF AnswerJoin
  <2>. QED  BY <1>1, <1>3, <2>1, <2>2, AnswersKnown
<1>7. ASSUME NEW c \in Client, AnswerCreate(c)
      PROVE  \A d \in Client : Known(process'[d], n)
  <2>1. CASE IsRefused(c)
    BY <1>5, <2>1
  <2>2. CASE /\ sessions' = Append(sessions, [owner |-> c, open |-> TRUE, events |-> 0])
             /\ GetsInto(c, Len(sessions) + 1)
    <3>. DEFINE record == [owner |-> c, open |-> TRUE, events |-> 0]
                s == Len(sessions) + 1
    <3>1. record \in SessionRecords
      BY DEF SessionRecords
    <3>2. sessions' = Append(sessions, record)
      BY <2>2
    <3>. HIDE DEF record
    <3>3. Len(sessions') = Len(sessions) + 1
      BY <3>1, <3>2, ProcessOfInv, AppendProperties, <1>1
    <3>4. s \in 0 .. n /\ GetsInto(c, s)
      BY <1>1, <1>2, <2>2, <3>3
    <3>. HIDE DEF s
    <3>. QED  BY <1>1, <1>3, <3>4, AnswersKnown
  <2>. QED  BY <1>7, <2>1, <2>2 DEF AnswerCreate
<1>8. ASSUME NEW c \in Client, AnswerLeave(c)
      PROVE  \A d \in Client : Known(process'[d], n)
  <2>1. 0 \in 0 .. n
    OBVIOUS
  <2>2. Leave(c, [process[c] EXCEPT !.session = 0, !.request = NoRequest, !.delivered = 0])
    BY <1>8, Zenon DEF AnswerLeave
  <2>. QED  BY <1>1, <1>3, <2>1, <2>2, AnswersKnown
<1>9. ASSUME NEW c \in Client, ReceiveEvent(c)
      PROVE  \A d \in Client : Known(process'[d], n)
  BY <1>1, <1>3, <1>9, ReceivingKnown
<1>10. ASSUME NEW c \in Client, ProcessEnds(c)
       PROVE  \A d \in Client : Known(process'[d], n)
  <2>1. \/ Leave(c, FreshProcess)
        \/ process' = [process EXCEPT ![c] = FreshProcess]
    BY <1>10 DEF ProcessEnds
  <2>. QED
    BY <1>1, <1>3, <2>1, FreshIsCoherent, FreshKnown, LeavingKnown, OneProcessKnown
<1>11. ASSUME StrangersAct
       PROVE  \A d \in Client : Known(process'[d], n)
  <2>1. process' = process \/ \E s : EndSession(s, process)
    BY <1>11 DEF StrangersAct
  <2>2. \A d \in Client : IsProcess(process[d]) /\ Known(process[d], n)
    BY <1>1, <1>3, ProcessOfInv
  <2>. QED  BY <1>3, <2>1, <2>2, EndingKnown
<1>12. CASE UNCHANGED vars
  BY <1>3, <1>12 DEF vars
<1>. QED
  BY <1>4, <1>5, <1>6, <1>7, <1>8, <1>9, <1>10, <1>11, <1>12
     DEF Next, Framework, CallFails, JoinOrCreateFails

LEMMA KnownGivesTypes == KnownInv => TypeOK
<1>. SUFFICES ASSUME KnownInv PROVE TypeOK
  OBVIOUS
<1>1. sessions \in Seq([owner : Client \cup {Stranger}, open : BOOLEAN, events : Nat])
  <2>1. /\ sessions \in Seq(SessionRecords)
        /\ Len(sessions) \in Nat /\ DOMAIN sessions = 1 .. Len(sessions)
        /\ sessions = [s \in 1 .. Len(sessions) |-> sessions[s]]
    BY ProcessOfInv, LenProperties DEF KnownInv, SessionInv, SessionShapes
  <2>2. \A s \in 1 .. Len(sessions) :
          sessions[s] \in [owner : Client \cup {Stranger}, open : BOOLEAN, events : Nat]
    <3>1. \A s \in 1 .. Len(sessions) : /\ sessions[s] \in SessionRecords
                                        /\ sessions[s].events \in Nat
      BY <2>1, ElementOfSeq DEF KnownInv, EventsCounted
    <3>. QED  BY <3>1 DEF SessionRecords
  <2>3. [s \in 1 .. Len(sessions) |-> sessions[s]]
          \in Seq([owner : Client \cup {Stranger}, open : BOOLEAN, events : Nat])
    BY <2>1, <2>2, IsASeq
  <2>. QED  BY <2>1, <2>3
<1>2. ASSUME NEW c \in Client
      PROVE  /\ process[c].session \in 0 .. Len(sessions)
             /\ process[c].request \in [kind : {"none", "join", "create", "leave"},
                                        session : 0 .. Len(sessions)]
             /\ process[c].views \in Nat
             /\ process[c].mainQueue \in
                  Seq([kind : {"listed", "joined", "refused", "ended"}, list : Seq(BOOLEAN)])
  <2>1. IsProcess(process[c]) /\ Known(process[c], Len(sessions))
    BY ProcessOfInv DEF KnownInv
  <2>2. process[c].request = [kind |-> process[c].request.kind,
                              session |-> process[c].request.session]
    BY <2>1 DEF IsProcess
  <2>3. process[c].request \in [kind : {"none", "join", "create", "leave"},
                                session : 0 .. Len(sessions)]
    BY <2>1, <2>2 DEF Known
  <2>. QED  BY <2>1, <2>3 DEF IsProcess, Known, Callbacks
<1>. QED  BY <1>1, <1>2 DEF TypeOK

\* Every session that a client is in, or has asked for, is one that the server has
\* made: no list is about a session that is not there yet.
THEOREM TypesAreKept == Spec => []TypeOK
BY InitKnown, StepKeepsKnown, KnownGivesTypes, PTL DEF Spec
=============================================================================
