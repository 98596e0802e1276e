------------------------------- MODULE Session -------------------------------
(***************************************************************************)
(* Getting into a session and out of it: findSession, joinSession,         *)
(* createSession, deleteSession and the callbacks of TextCollabrifyClient, *)
(* with the screens that they open and close.                              *)
(*                                                                         *)
(* All clients look for one name (SESSION_NAME), of which the server keeps *)
(* at most one open session.  Listing, joining, creating and leaving are   *)
(* answered later, by callbacks on the main thread; a client can have one  *)
(* joining, creating or leaving under way.  Events are numbered within     *)
(* their session: what an edit does to the document is in Document.        *)
(*                                                                         *)
(* Participants that are not modelled to their screens create sessions,    *)
(* end them and broadcast at any time.                                     *)
(***************************************************************************)
EXTENDS Integers, SequencesExt

CONSTANTS
  Client,        \* the clients that are modelled
  Stranger,      \* any other participant, and one whose process has ended
  MaxSessions,   \* bound on the sessions; the last of them is never ended
  MaxEvents,     \* bound on the events of all sessions together
  MaxLists,      \* bound on the lists that a client waits for
  MaxWaiting     \* bound on the actions that wait to be rendered

ASSUME StrangerAssumption == Stranger \notin Client
ASSUME SessionBoundsAssumption ==
  {MaxSessions, MaxEvents, MaxLists, MaxWaiting} \subseteq Nat

VARIABLES
  sessions,   \* server: the sessions of the name, in the order of their creation
  process,    \* the program of each client, with the framework in it
  past        \* history: of the session that a client is in, and of its text view

vars == <<sessions, process, past>>

NoRequest == [kind |-> "none", session |-> 0]

(* session    framework: the session the client is in, or 0                *)
(* request    framework: the joining, creating or leaving under way        *)
(* lists      framework: the lists that have been asked for                *)
(* delivered  framework: the number of events handed over                  *)
(* mainQueue  callbacks that wait for the main thread                      *)
(* spinning   is the spinner of the splash screen turning?                 *)
(* views      the number of text views that observe notifications          *)
(* alert      is the alert shown that the session has ended?               *)
(* incomingActions, document   what has arrived, and what of it the        *)
(*            delegate of the text view has rendered                       *)
FreshProcess ==
  [session |-> 0, request |-> NoRequest, lists |-> 0, delivered |-> 0,
   mainQueue |-> <<>>, spinning |-> FALSE, views |-> 0, alert |-> FALSE,
   incomingActions |-> <<>>, document |-> <<>>]

\* Was the queue empty when the client got into the session?  Has a rendering
\* raised since the process began?
NoPast == [startedClean |-> TRUE, raised |-> FALSE]

Init ==
  /\ sessions = <<>>
  /\ process = [c \in Client |-> FreshProcess]
  /\ past = [c \in Client |-> NoPast]

OpenSessions == {s \in DOMAIN sessions : sessions[s].open}

EventsSoFar == FoldLeft(LAMBDA n, session : n + session.events, 0, sessions)

Owns(c) == process[c].session # 0 /\ sessions[process[c].session].owner = c

\* Is c free to leave, within the bound on the sessions?
MayEnd(c) == Owns(c) => Len(sessions) < MaxSessions

----------------------------------------------------------------------------
\* What the code does to its own process p.

Post(p, kind, list) ==
  [p EXCEPT !.mainQueue = Append(@, [kind |-> kind, list |-> list])]

\* A completion handler is called with an error.
Refusal == [kind |-> "refused", list |-> <<>>]

\* The framework takes one session action at a time, joins or creates only
\* outside a session, and leaves only from within one.
Refuses(p, kind) ==
  \/ p.request # NoRequest
  \/ kind = "leave" /\ p.session = 0
  \/ kind # "leave" /\ p.session # 0

\* joinSession for each session that was found: the framework takes the first, if
\* it takes any, and the completion handlers of the others get an error.
JoinSessionsOffByOne(p, found) ==
  LET refuses == Refuses(p, "join")
      errors  == IF refuses THEN Cardinality(found) ELSE Cardinality(found) - 1
  IN [p EXCEPT !.request = IF refuses THEN @ ELSE [kind |-> "join", session |-> Max(found) + 1],
               !.mainQueue = @ \o [i \in 1 .. errors |-> Refusal]]
JoinSessions(p, found) ==
  LET refuses == Refuses(p, "join")
      errors  == IF refuses THEN Cardinality(found) ELSE Cardinality(found) - 1
  IN [p EXCEPT !.request = IF refuses THEN @ ELSE [kind |-> "join", session |-> Min(found)],
               !.mainQueue = @ \o [i \in 1 .. errors |-> Refusal]]

CreateSession(p) ==
  IF Refuses(p, "create") THEN Post(p, "refused", <<>>)
  ELSE [p EXCEPT !.request = [kind |-> "create", session |-> 0]]

DeleteSession(p) ==
  IF Refuses(p, "leave") THEN p
  ELSE [p EXCEPT !.request = [kind |-> "leave", session |-> p.session]]

JoinSessionOnSplash(p) ==
  [p EXCEPT !.spinning = TRUE, !.lists = @ + 1]

\* The completion handler of findSession.  The list says of each session whether
\* it is open; the client joins every one that is.
FoundSessionsOfName(p, list) ==
  IF list = <<>> THEN CreateSession(p) ELSE JoinSessions(p, DOMAIN list)
FoundSessions(p, list) ==
  LET open == {s \in DOMAIN list : list[s]}
  IN IF open = {} THEN CreateSession(p) ELSE JoinSessions(p, open)

\* joinedSession: a text view is presented, with a delegate of its own.
JoinedSession(p) ==
  [p EXCEPT !.spinning = FALSE, !.views = @ + 1, !.document = <<>>]

NotifySessionOfAny(p, error) == JoinedSession(p)
NotifySession(p, error) == IF error THEN p ELSE JoinedSession(p)

EndedSessionUnobserved(p) == p
EndedSession(p) == IF p.views > 0 THEN [p EXCEPT !.alert = TRUE] ELSE p

\* exit: the observers go, the client leaves, the splash screen is back.
ExitObserving(p) == DeleteSession([p EXCEPT !.alert = FALSE, !.document = <<>>])
ExitTextView(p) ==
  DeleteSession([p EXCEPT !.views = 0, !.alert = FALSE, !.document = <<>>])

\* A callback of the framework on the main thread.
Callback(p, callback) ==
  CASE callback.kind = "listed"  -> FoundSessions(p, callback.list)
    [] callback.kind = "joined"  -> NotifySession(p, FALSE)
    [] callback.kind = "refused" -> NotifySession(p, TRUE)
    [] callback.kind = "ended"   -> EndedSession(p)

\* receivedEvent, while no delegate renders: none observes, or its timer runs.
EnqueueIfObserved(p, event) ==
  IF p.views > 0 THEN [p EXCEPT !.incomingActions = Append(@, event)] ELSE p
Enqueue(p, event) == [p EXCEPT !.incomingActions = Append(@, event)]

\* The first n actions of the queue are rendered.
Rendered(p, n) ==
  [p EXCEPT !.document = @ \o SubSeq(p.incomingActions, 1, n),
            !.incomingActions = SubSeq(@, n + 1, Len(@))]

----------------------------------------------------------------------------
\* The user and the main thread

ListsAwaited(p) ==
  p.lists + Len(SelectSeq(p.mainQueue, LAMBDA callback : callback.kind = "listed"))

\* The start button, which stays where it is while the spinner turns.
PressStart(c) ==
  /\ process[c].views = 0
  /\ ListsAwaited(process[c]) < MaxLists
  /\ process' = [process EXCEPT ![c] = JoinSessionOnSplash(@)]
  /\ UNCHANGED <<sessions, past>>

RunCallback(c) ==
  LET p == process[c]
      taken == [p EXCEPT !.mainQueue = Tail(@)]
  IN /\ p.mainQueue # <<>>
     /\ process' = [process EXCEPT ![c] = Callback(taken, Head(p.mainQueue))]
     /\ UNCHANGED <<sessions, past>>

\* The exit button, or the alert is dismissed.
Exit(c) ==
  /\ process[c].views > 0
  /\ MayEnd(c)
  /\ process' = [process EXCEPT ![c] = ExitTextView(@)]
  /\ UNCHANGED <<sessions, past>>

Broadcast(c) ==
  LET s == process[c].session
  IN /\ process[c].views > 0 /\ ~process[c].alert
     /\ s \in OpenSessions
     /\ EventsSoFar < MaxEvents
     /\ sessions' = [sessions EXCEPT ![s].events = @ + 1]
     /\ UNCHANGED <<process, past>>

----------------------------------------------------------------------------
\* The server and the framework

\* (With an error the list is empty, as one that was answered while no session was
\* open and is out of date.)
AnswerList(c) ==
  LET answered == [process[c] EXCEPT !.lists = @ - 1]
      list == [s \in DOMAIN sessions |-> sessions[s].open]
  IN /\ process[c].lists > 0
     /\ process' = [process EXCEPT ![c] = Post(answered, "listed", list)]
     /\ UNCHANGED <<sessions, past>>

\* The request is done: c is in session s from now on, and not through its
\* callback yet.
GetsInto(c, s) ==
  /\ process' = [process EXCEPT
       ![c] = Post([@ EXCEPT !.session = s, !.request = NoRequest, !.delivered = 0],
                   "joined", <<>>)]
  /\ past' = [past EXCEPT ![c].startedClean = process[c].incomingActions = <<>>]

IsRefused(c) ==
  /\ process' = [process EXCEPT
       ![c] = Post([@ EXCEPT !.request = NoRequest], "refused", <<>>)]
  /\ UNCHANGED <<sessions, past>>

AnswerJoin(c) ==
  LET s == process[c].request.session
  IN /\ process[c].request.kind = "join"
     /\ IF s \in OpenSessions THEN GetsInto(c, s) /\ UNCHANGED sessions
                              ELSE IsRefused(c)

\* Names are unique: who comes second is refused.
AnswerCreate(c) ==
  /\ process[c].request.kind = "create"
  /\ IF OpenSessions = {}
     THEN /\ sessions' = Append(sessions, [owner |-> c, open |-> TRUE, events |-> 0])
          /\ GetsInto(c, Len(sessions) + 1)
     ELSE IsRefused(c)

\* The owner's leaving ends the session, of which the members that stay are told.
EndSession(s, processes) ==
  /\ sessions' = [sessions EXCEPT ![s].open = FALSE]
  /\ process' = [d \in Client |-> IF processes[d].session = s
                                  THEN Post(processes[d], "ended", <<>>)
                                  ELSE processes[d]]

Leave(c, left) ==
  LET processes == [process EXCEPT ![c] = left]
  IN IF Owns(c) THEN EndSession(process[c].session, processes)
                ELSE process' = processes /\ UNCHANGED sessions

AnswerLeave(c) ==
  /\ process[c].request.kind = "leave"
  /\ Leave(c, [process[c] EXCEPT !.session = 0, !.request = NoRequest, !.delivered = 0])
  /\ UNCHANGED past

\* A call fails that could be granted.
JoinOrCreateFails(c) ==
  LET request == process[c].request
  IN /\ \/ request.kind = "join" /\ request.session \in OpenSessions
        \/ request.kind = "create" /\ OpenSessions = {}
     /\ IsRefused(c)

\* The failure is logged, and the client stays where it is.
LeaveFails(c) ==
  /\ process[c].request.kind = "leave"
  /\ process' = [process EXCEPT ![c].request = NoRequest]
  /\ UNCHANGED <<sessions, past>>

\* Strangers: one of them creates the session, ends it, broadcasts.
StrangersAct ==
  /\ \/ /\ OpenSessions = {}
        /\ Len(sessions) < MaxSessions
        /\ sessions' = Append(sessions, [owner |-> Stranger, open |-> TRUE, events |-> 0])
        /\ UNCHANGED process
     \/ /\ Len(sessions) < MaxSessions
        /\ \E s \in OpenSessions : sessions[s].owner = Stranger /\ EndSession(s, process)
     \/ /\ EventsSoFar < MaxEvents
        /\ \E s \in OpenSessions : sessions' = [sessions EXCEPT ![s].events = @ + 1]
        /\ UNCHANGED process
  /\ UNCHANGED past

\* An event is handed over, and what waits is rendered: not at all (no text view,
\* or its timer runs), to its end, or until an action raises.
ReceiveEvent(c) ==
  LET s == process[c].session
      next == process[c].delivered + 1
      p == Enqueue([process[c] EXCEPT !.delivered = next], <<s, next>>)
      waiting == Len(p.incomingActions)
  IN /\ s # 0
     /\ next <= sessions[s].events
     /\ waiting <= MaxWaiting
     /\ \/ /\ process' = [process EXCEPT ![c] = p]
           /\ UNCHANGED past
        \/ /\ p.views > 0
           /\ process' = [process EXCEPT ![c] = Rendered(p, waiting)]
           /\ UNCHANGED past
        \/ /\ p.views > 0
           /\ MayEnd(c)
           /\ \E n \in 1 .. waiting :
                process' = [process EXCEPT ![c] = DeleteSession(Rendered(p, n))]
           /\ past' = [past EXCEPT ![c].raised = TRUE]
     /\ UNCHANGED sessions

\* The process ends: it is killed, or an error of the framework reaches a text
\* view, which observes it with a selector that it does not have (showError), or
\* it is terminated in order and asks to leave (applicationWillTerminate), which
\* may be too late.  Nothing is kept; who starts the program again is another
\* participant.
ProcessEnds(c) ==
  /\ \/ /\ MayEnd(c)
        /\ Leave(c, FreshProcess)
     \/ /\ process' = [process EXCEPT ![c] = FreshProcess]
        /\ sessions' = IF Owns(c)
                       THEN [sessions EXCEPT ![process[c].session].owner = Stranger]
                       ELSE sessions
  /\ past' = [past EXCEPT ![c] = NoPast]

----------------------------------------------------------------------------

Framework(c) == AnswerList(c) \/ AnswerJoin(c) \/ AnswerCreate(c) \/ AnswerLeave(c)

CallFails(c) == JoinOrCreateFails(c) \/ LeaveFails(c)

Next ==
  \/ \E c \in Client :
       \/ PressStart(c)
       \/ RunCallback(c)
       \/ Exit(c)
       \/ Broadcast(c)
       \/ Framework(c)
       \/ CallFails(c)
       \/ ReceiveEvent(c)
       \/ ProcessEnds(c)
  \/ StrangersAct

Spec == Init /\ [][Next]_vars

\* Calls are answered or fail, the main thread runs, and a user who sees the spinner
\* turn presses the start button again.
Fairness ==
  \A c \in Client :
    /\ WF_vars(AnswerList(c))
    /\ WF_vars(AnswerJoin(c) \/ AnswerCreate(c) \/ JoinOrCreateFails(c))
    /\ WF_vars(AnswerLeave(c) \/ LeaveFails(c))
    /\ WF_vars(RunCallback(c))
    /\ WF_vars(process[c].spinning /\ PressStart(c))

FairSpec == Spec /\ Fairness

----------------------------------------------------------------------------
(***************************************************************************)
(* Safety                                                                  *)
(***************************************************************************)

TypeOK ==
  /\ sessions \in Seq([owner : Client \cup {Stranger}, open : BOOLEAN, events : Nat])
  /\ \A c \in Client :
       /\ process[c].session \in 0 .. Len(sessions)
       /\ process[c].request \in [kind : {"none", "join", "create", "leave"},
                                  session : 0 .. Len(sessions)]
       /\ process[c].views \in Nat
       /\ process[c].mainQueue \in
            Seq([kind : {"listed", "joined", "refused", "ended"}, list : Seq(BOOLEAN)])

\* However often the start button is pressed and in whatever order the answers
\* come, one text view at a time observes the notifications (two would take each
\* other's edits out of the queue): the completion handlers of all but one joining
\* get an error.  Only after a rendering has raised is that not so: its text view
\* has left the session and stays on the screen, and an old list that is answered
\* then opens another.
OneTextView ==
  \A c \in Client : process[c].views <= 1 \/ past[c].raised

\* Who has a text view is in a session, and has not asked to leave it, unless a
\* rendering has raised: what is typed is for somebody.
TextViewIsInSession ==
  \A c \in Client :
    process[c].views > 0 =>
      \/ past[c].raised
      \/ process[c].session # 0 /\ process[c].request.kind # "leave"

\* Who got into a session with an empty queue has rendered, or has in the queue,
\* the events of this session from its first to the last that arrived, in order
\* and each once: also those that arrived before there was a text view.  (A client
\* that starts with what an earlier text view left in the queue has it in front.)
DocumentIsTheSession ==
  \A c \in Client :
    LET p == process[c]
    IN p.views > 0 /\ past[c].startedClean /\ ~past[c].raised =>
         p.document \o p.incomingActions = [n \in 1 .. p.delivered |-> <<p.session, n>>]

(***************************************************************************)
(* Liveness                                                                *)
(***************************************************************************)

\* A leaving has failed, of which only the log is told: the client is in a session
\* without a text view, where the framework refuses to join or create another.
LeftBehind(p) ==
  /\ p.session # 0
  /\ p.request = NoRequest
  /\ p.views = 0
  /\ \A i \in DOMAIN p.mainQueue : p.mainQueue[i].kind # "joined"

\* A user who presses start until the spinner stops gets a text view (or the
\* process ends), once calls no longer fail: although every error leaves the spinner
\* turning and is told to nobody, none leaves anything behind that keeps the next
\* attempt from succeeding, but one: a leaving that failed.
RetryingStartGetsIn ==
  \A c \in Client :
    <>[][~CallFails(c)]_vars =>
      (process[c].spinning ~> ~process[c].spinning \/ LeftBehind(process[c]))

\* Who writes into a session that its owner has ended is told so, also if it ended
\* while the text view was being opened.
EndIsNoticed ==
  \A c \in Client :
    /\ process[c].views > 0
    /\ process[c].session # 0
    /\ process[c].session \notin OpenSessions
    ~> process[c].alert \/ process[c].views = 0

=============================================================================
