--------------------------- MODULE StackRaceProofs ---------------------------
(***************************************************************************)
(* That updating a stack never meets nil on its own, for stacks of every   *)
(* length and whatever actions are rendered: the loop of updateEditStack   *)
(* takes no more entries than there are, although it counts them only once *)
(* and the stack shrinks under it, unless the main thread takes something  *)
(* off in between; and undo finds an entry where it saw one, unless the    *)
(* loop has just taken it.                                                 *)
(*                                                                         *)
(* That the loop does without a race what UpdateEditStack says of it as a  *)
(* whole.  And that even with a race the two threads neither lose an entry *)
(* nor undo one twice, also where they make each other fail, as long as    *)
(* neither takes the very entry that the other has read.                   *)
(***************************************************************************)
EXTENDS StackRace, SequenceTheorems, FunctionTheorems, FiniteSetTheorems, TLAPS

(***************************************************************************)
(* The inductive invariant.  That failing takes a race says nothing of     *)
(* what the loop will find next.  It becomes inductive with the number of  *)
(* entries that the loop has still to take: they are all there as long as  *)
(* nothing raced.                                                          *)
(***************************************************************************)

Updates ==
  {Idle}
    \cup [at : {"loop", "counted"}, action : Placements, left : Nat]
    \cup [at : {"read"}, action : Placements, left : Nat, temp : StackEntry]
    \cup [at : {"entry"}, action : Placements, left : Nat, temp : StackEntry \cup {NoEntry}]

Undos == {Idle, Pressed} \cup [at : {"read"}, entry : StackEntry]

RaceTypeOK ==
  /\ stack \in Seq(StackEntry)
  /\ update \in Updates
  /\ undo \in Undos
  /\ undone \in Seq(Nat)
  /\ failed \in {"no", "rendering", "undo"}
  /\ created \in Nat
  /\ intoUpdate \in BOOLEAN
  /\ intoUndo \in BOOLEAN
  /\ torn \in BOOLEAN

\* The front entry is still on the stack when popFront has counted or read it.
StillToTake == IF update.at \in {"counted", "read"} THEN update.left + 1 ELSE update.left

EntriesAreThere ==
  /\ ~intoUpdate =>
       /\ update.at # "idle" => StillToTake <= Len(stack)
       /\ update.at = "entry" => update.temp # NoEntry
  /\ ~intoUndo => (undo.at = "pressed" => stack # <<>>)

RaceInv ==
  RaceTypeOK /\ EntriesAreThere /\ RenderingFailsOnlyIfRaced /\ UndoFailsOnlyIfRaced

----------------------------------------------------------------------------
(***************************************************************************)
(* Lemmas                                                                  *)
(***************************************************************************)

\* What updateEditStack is doing, by its kind.
LEMMA UpdateKinds ==
  ASSUME RaceTypeOK
  PROVE  /\ update.at \in {"idle", "loop", "counted", "read", "entry"}
         /\ update.at # "idle" => update.left \in Nat /\ update.action \in Placements
         /\ update.at = "counted" =>
              update = [at |-> "counted", action |-> update.action, left |-> update.left]
         /\ update.at = "loop" =>
              update = [at |-> "loop", action |-> update.action, left |-> update.left]
         /\ update.at = "read" =>
              /\ update.temp \in StackEntry
              /\ update = [at |-> "read", action |-> update.action, left |-> update.left,
                           temp |-> update.temp]
         /\ update.at = "entry" => update.temp \in StackEntry \cup {NoEntry}
BY DEF RaceTypeOK, Updates, Idle

\* What undo is doing, by its kind.
LEMMA UndoKinds ==
  ASSUME RaceTypeOK
  PROVE  /\ undo.at \in {"idle", "pressed", "read"}
         /\ undo.at = "read" => /\ undo.entry \in StackEntry
                                /\ undo.entry.number \in Nat
BY DEF RaceTypeOK, Undos, Idle, Pressed, StackEntry

\* Moving an entry leaves it an entry.
LEMMA ShiftedType ==
  ASSUME NEW e \in Action, NEW p \in Action
  PROVE  Shifted(e, p) \in Action
<1>1. /\ e.location \in Int /\ p.location \in Int /\ p.length \in Int
      /\ Len(p.text) \in Nat
  BY LenProperties DEF Action, Text
<1>2. e.location + Growth(p) \in Int
  BY <1>1 DEF Growth
<1>. QED  BY <1>2 DEF Shifted, Action

LEMMA MovedType ==
  ASSUME NEW temp \in StackEntry, NEW p \in Action
  PROVE  /\ [temp EXCEPT !.edit = Shifted(@, p)] \in StackEntry
         /\ [temp EXCEPT !.edit = Shifted(@, p)].number = temp.number
         /\ [temp EXCEPT !.edit = Shifted(@, p)].edit = Shifted(temp.edit, p)
<1>1. temp.edit \in Action /\ Shifted(temp.edit, p) \in Action
  BY ShiftedType DEF StackEntry
<1>. QED  BY <1>1 DEF StackEntry

\* The deque without its front, or with one more entry.
LEMMA DequeTypes ==
  ASSUME NEW deque \in Seq(StackEntry), NEW entry \in StackEntry
  PROVE  /\ Len(deque) \in Nat
         /\ deque # <<>> => /\ Len(deque) > 0
                            /\ Head(deque) \in StackEntry
                            /\ WithoutFront(deque) \in Seq(StackEntry)
                            /\ Len(WithoutFront(deque)) = Len(deque) - 1
         /\ PushBack(deque, entry) \in Seq(StackEntry)
         /\ Len(PushBack(deque, entry)) = Len(deque) + 1
         /\ PushBack(deque, entry) # <<>>
<1>1. Len(deque) \in Nat /\ (deque = <<>> <=> Len(deque) = 0)
  BY LenProperties, EmptySeq
<1>2. deque # <<>> => /\ Head(deque) \in StackEntry /\ Tail(deque) \in Seq(StackEntry)
                      /\ Len(Tail(deque)) = Len(deque) - 1
  BY HeadTailProperties
<1>3. /\ Append(deque, entry) \in Seq(StackEntry)
      /\ Len(Append(deque, entry)) = Len(deque) + 1
  BY AppendProperties
<1>4. Append(deque, entry) # <<>>
  BY <1>1, <1>3, EmptySeq
<1>. QED  BY <1>1, <1>2, <1>3, <1>4 DEF WithoutFront, PushBack

\* The last entry is one.
LEMMA LastType ==
  ASSUME NEW deque \in Seq(StackEntry), deque # <<>>
  PROVE  /\ Last(deque) \in StackEntry
         /\ Last(deque).number \in Numbers(deque)
<1>1. Len(deque) \in Nat /\ Len(deque) # 0 /\ DOMAIN deque = 1 .. Len(deque)
  BY LenProperties, EmptySeq
<1>2. Len(deque) \in DOMAIN deque /\ deque[Len(deque)] \in StackEntry
  BY <1>1, ElementOfSeq
<1>. QED  BY <1>2 DEF Last, Numbers

\* One entry less, wherever it is: those before it are where they were, and the
\* others one place further to the front.
LEMMA RemoveAtProperties ==
  ASSUME NEW entries \in Seq(StackEntry), NEW gone \in DOMAIN entries
  PROVE  LET rest == RemoveAt(entries, gone)
         IN  /\ rest \in Seq(StackEntry)
             /\ Len(rest) = Len(entries) - 1
             /\ \A i \in 1 .. Len(rest) :
                  rest[i] = IF i < gone THEN entries[i] ELSE entries[i + 1]
<1>. DEFINE end  == gone - 1
            last == Len(entries)
            start == gone + 1
            front == SubSeq(entries, 1, end)
            back  == SubSeq(entries, start, last)
            rest  == RemoveAt(entries, gone)
<1>1. /\ last \in Nat /\ DOMAIN entries = 1 .. last
      /\ gone \in Nat /\ 1 <= gone /\ gone <= last
      /\ \A i \in 1 .. last : entries[i] \in StackEntry
  BY LenProperties, ElementOfSeq
<1>2. /\ end \in Int /\ start \in Int /\ last \in Int
      /\ \A i \in 1 .. end : i \in 1 .. last
      /\ \A i \in start .. last : i \in 1 .. last
  BY <1>1
<1>3. rest = front \o back
  BY DEF RemoveAt
<1>. HIDE DEF rest
<1>4. /\ front \in Seq(StackEntry)
      /\ Len(front) = IF 1 <= end THEN end - 1 + 1 ELSE 0
      /\ \A i \in 1 .. end - 1 + 1 : front[i] = entries[1 + i - 1]
  <2>. HIDE DEF end, last, start
  <2>1. \A i \in 1 .. end : entries[i] \in StackEntry
    BY <1>1, <1>2
  <2>. QED  BY <1>2, <2>1, SubSeqProperties
<1>5. /\ back \in Seq(StackEntry)
      /\ Len(back) = IF start <= last THEN last - start + 1 ELSE 0
      /\ \A i \in 1 .. last - start + 1 : back[i] = entries[start + i - 1]
  <2>. HIDE DEF end, last, start
  <2>1. \A i \in start .. last : entries[i] \in StackEntry
    BY <1>1, <1>2
  <2>. QED  BY <1>2, <2>1, SubSeqProperties
<1>. HIDE DEF front, back
<1>6. Len(front) = gone - 1 /\ Len(back) = last - gone
  BY <1>1, <1>4, <1>5
<1>7. /\ rest \in Seq(StackEntry)
      /\ Len(rest) = Len(front) + Len(back)
      /\ \A i \in 1 .. Len(front) + Len(back) :
           rest[i] = IF i <= Len(front) THEN front[i] ELSE back[i - Len(front)]
  BY <1>3, <1>4, <1>5, ConcatProperties
<1>8. Len(rest) = last - 1
  BY <1>1, <1>6, <1>7
<1>9. ASSUME NEW i \in 1 .. last - 1
      PROVE  rest[i] = IF i < gone THEN entries[i] ELSE entries[i + 1]
  <2>1. i \in Nat /\ i \in 1 .. Len(front) + Len(back)
    BY <1>1, <1>6
  <2>2. CASE i < gone
    <3>1. i <= Len(front) /\ i \in 1 .. end - 1 + 1 /\ 1 + i - 1 = i
      BY <1>1, <1>6, <2>1, <2>2
    <3>. QED  BY <1>4, <1>7, <2>1, <2>2, <3>1
  <2>3. CASE ~(i < gone)
    <3>0. /\ ~(i <= end) /\ i - end \in 1 .. last - start + 1
          /\ start + (i - end) - 1 = i + 1
      <4>1. i >= gone /\ i <= last - 1
        BY <1>1, <2>1, <2>3
      <4>. QED  BY <1>1, <2>1, <4>1
    <3>. HIDE DEF start, last
    <3>1. /\ ~(i <= Len(front)) /\ i - Len(front) \in 1 .. last - start + 1
          /\ start + (i - Len(front)) - 1 = i + 1
      BY <1>6, <3>0
    <3>2. rest[i] = back[i - Len(front)]
      BY <1>7, <2>1, <3>1
    <3>3. back[i - Len(front)] = entries[start + (i - Len(front)) - 1]
      BY <1>5, <3>1
    <3>. QED  BY <2>3, <3>1, <3>2, <3>3
  <2>. QED  BY <2>2, <2>3
<1>. HIDE DEF last
<1>10. /\ rest \in Seq(StackEntry)
       /\ Len(rest) = Len(entries) - 1
       /\ \A i \in 1 .. Len(rest) :
            rest[i] = IF i < gone THEN entries[i] ELSE entries[i + 1]
  BY <1>7, <1>8, <1>9 DEF last
<1>. QED  BY <1>10 DEF rest

\* What undo leaves of the stack.
LEMMA WithoutType ==
  ASSUME NEW deque \in Seq(StackEntry), NEW number
  PROVE  Without(deque, number) \in Seq(StackEntry)
<1>1. CASE number \in Numbers(deque)
  <2>1. PICK gone \in DOMAIN deque :
          gone = CHOOSE i \in DOMAIN deque : deque[i].number = number
    BY <1>1 DEF Numbers
  <2>2. RemoveAt(deque, gone) \in Seq(StackEntry)
    BY RemoveAtProperties
  <2>. QED  BY <1>1, <2>1, <2>2 DEF Without
<1>2. CASE number \notin Numbers(deque)
  BY <1>2 DEF Without
<1>. QED  BY <1>1, <1>2

----------------------------------------------------------------------------
(***************************************************************************)
(* RaceInv is inductive: one lemma for each thread.                        *)
(***************************************************************************)

LEMMA InitEstablishesRaceInv == Init => RaceInv
<1>. SUFFICES ASSUME Init PROVE RaceInv
  OBVIOUS
<1>1. /\ stack \in Seq(StackEntry) /\ undone \in Seq(Nat)
      /\ update \in Updates /\ update.at = "idle"
      /\ undo \in Undos /\ undo.at = "idle"
  BY EmptySeq DEF Init, Updates, Undos, Idle
<1>2. /\ failed = "no" /\ created = 0
      /\ intoUpdate = FALSE /\ intoUndo = FALSE /\ torn = FALSE
  BY DEF Init
<1>. QED
  BY <1>1, <1>2 DEF RaceInv, RaceTypeOK, EntriesAreThere, RenderingFailsOnlyIfRaced,
                    UndoFailsOnlyIfRaced

\* What a step of the framework's thread does for the invariant.
LEMMA InvOfFrameworkStep ==
  ASSUME RaceInv, failed = "no",
         UNCHANGED <<undo, undone>>,
         stack' \in Seq(StackEntry), update' \in Updates, created' \in Nat,
         intoUpdate' \in BOOLEAN, intoUndo' \in BOOLEAN, torn' \in BOOLEAN,
         failed' = "no" \/ (failed' = "rendering" /\ intoUpdate'),
         ~intoUpdate' =>
           /\ update'.at # "idle" => StillToTake' <= Len(stack')
           /\ update'.at = "entry" => update'.temp # NoEntry,
         ~intoUndo' /\ undo.at = "pressed" => stack' # <<>>
  PROVE  RaceInv'
BY DEF RaceInv, RaceTypeOK, EntriesAreThere, RenderingFailsOnlyIfRaced, UndoFailsOnlyIfRaced

LEMMA BeginUpdateKeepsRaceInv ==
  ASSUME RaceInv, failed = "no", BeginUpdate
  PROVE  RaceInv'
<1>1. RaceTypeOK /\ stack \in Seq(StackEntry) /\ Len(stack) \in Nat
  BY LenProperties DEF RaceInv, RaceTypeOK
<1>2. PICK p \in Placements :
        update' = [at |-> "loop", action |-> p, left |-> Len(stack)]
  BY DEF BeginUpdate, Iterations
<1>3. update' \in Updates /\ update'.at = "loop" /\ StillToTake' = Len(stack)
  BY <1>1, <1>2 DEF Updates, StillToTake
<1>4. /\ UNCHANGED <<stack, undo, undone, failed, created, intoUndo, torn>>
      /\ intoUpdate' = FALSE
  BY DEF BeginUpdate
<1>5. /\ intoUndo \in BOOLEAN /\ torn \in BOOLEAN /\ created \in Nat
      /\ ~intoUndo => (undo.at = "pressed" => stack # <<>>)
  BY DEF RaceInv, RaceTypeOK, EntriesAreThere
<1>6. /\ stack' \in Seq(StackEntry) /\ created' \in Nat /\ failed' = "no"
      /\ intoUpdate' \in BOOLEAN /\ intoUndo' \in BOOLEAN /\ torn' \in BOOLEAN
  BY <1>1, <1>4, <1>5
<1>7. ~intoUndo' /\ undo.at = "pressed" => stack' # <<>>
  BY <1>4, <1>5
<1>8. StillToTake' <= Len(stack') /\ update'.at # "entry"
  BY <1>1, <1>3, <1>4
<1>. QED  BY <1>3, <1>4, <1>6, <1>7, <1>8, InvOfFrameworkStep

LEMMA CountFrontKeepsRaceInv ==
  ASSUME RaceInv, failed = "no", CountFront
  PROVE  RaceInv'
<1>1. /\ RaceTypeOK /\ stack \in Seq(StackEntry) /\ Len(stack) \in Nat
      /\ stack # <<>> => Len(stack) > 0
      /\ stack = <<>> => Len(stack) = 0
  BY LenProperties, EmptySeq DEF RaceInv, RaceTypeOK
<1>2. /\ update.left \in Nat /\ update.left > 0 /\ update.action \in Placements
      /\ update.at = "loop"
      /\ update = [at |-> "loop", action |-> update.action, left |-> update.left]
  BY <1>1, UpdateKinds DEF CountFront
<1>3. UNCHANGED <<stack, undo, undone, failed, created, intoUpdate, intoUndo, torn>>
  BY DEF CountFront
<1>4. /\ intoUpdate \in BOOLEAN /\ intoUndo \in BOOLEAN /\ torn \in BOOLEAN
      /\ created \in Nat
      /\ ~intoUndo => (undo.at = "pressed" => stack # <<>>)
      /\ ~intoUpdate => update.left <= Len(stack)
  BY <1>2 DEF RaceInv, RaceTypeOK, EntriesAreThere, StillToTake
<1>5. CASE stack = <<>>
  <2>1. update' = [at |-> "entry", action |-> update.action,
                   left |-> update.left - 1, temp |-> NoEntry]
    BY <1>5 DEF CountFront
  <2>2. update' \in Updates
    BY <1>2, <2>1 DEF Updates
  <2>3. intoUpdate
    BY <1>1, <1>2, <1>4, <1>5
  <2>. QED  BY <1>1, <1>3, <1>4, <2>2, <2>3, InvOfFrameworkStep
<1>6. CASE stack # <<>>
  <2>1. update' = [at |-> "counted", action |-> update.action, left |-> update.left - 1]
    <3>1. update' = [update EXCEPT !.at = "counted", !.left = @ - 1]
      BY <1>6 DEF CountFront
    <3>. QED  BY <1>2, <3>1
  <2>2. update' \in Updates /\ update'.at = "counted" /\ StillToTake' = update.left
    BY <1>2, <2>1 DEF Updates, StillToTake
  <2>. QED  BY <1>1, <1>3, <1>4, <2>2, InvOfFrameworkStep
<1>. QED  BY <1>5, <1>6

LEMMA ReadFrontKeepsRaceInv ==
  ASSUME RaceInv, failed = "no", ReadFront
  PROVE  RaceInv'
<1>1. /\ RaceTypeOK /\ stack \in Seq(StackEntry) /\ Len(stack) \in Nat
      /\ stack = <<>> => Len(stack) = 0
      /\ stack # <<>> => Head(stack) \in StackEntry
  BY LenProperties, EmptySeq, HeadTailProperties DEF RaceInv, RaceTypeOK
<1>2. /\ update.left \in Nat /\ update.action \in Placements /\ update.at = "counted"
      /\ update \in Updates
  BY <1>1, UpdateKinds DEF ReadFront, RaceTypeOK
<1>3. UNCHANGED <<stack, undo, undone, created, intoUpdate, intoUndo, torn>>
  BY DEF ReadFront
<1>4. /\ intoUpdate \in BOOLEAN /\ intoUndo \in BOOLEAN /\ torn \in BOOLEAN
      /\ created \in Nat
      /\ ~intoUndo => (undo.at = "pressed" => stack # <<>>)
      /\ ~intoUpdate => update.left + 1 <= Len(stack)
  BY <1>2 DEF RaceInv, RaceTypeOK, EntriesAreThere, StillToTake
<1>5. CASE stack = <<>>
  <2>1. failed' = "rendering" /\ update' = update
    BY <1>5 DEF ReadFront
  <2>2. intoUpdate
    BY <1>1, <1>2, <1>4, <1>5
  <2>. QED  BY <1>1, <1>2, <1>3, <1>4, <2>1, <2>2, InvOfFrameworkStep
<1>6. CASE stack # <<>>
  <2>1. /\ update' = [at |-> "read", action |-> update.action,
                      left |-> update.left, temp |-> Head(stack)]
        /\ failed' = failed
    BY <1>6 DEF ReadFront
  <2>2. update' \in Updates /\ update'.at = "read" /\ StillToTake' = update.left + 1
    BY <1>1, <1>2, <1>6, <2>1 DEF Updates, StillToTake
  <2>. QED  BY <1>1, <1>3, <1>4, <2>1, <2>2, InvOfFrameworkStep
<1>. QED  BY <1>5, <1>6

LEMMA RemoveFrontKeepsRaceInv ==
  ASSUME RaceInv, failed = "no", RemoveFront
  PROVE  RaceInv'
<1>1. /\ RaceTypeOK /\ stack \in Seq(StackEntry) /\ Len(stack) \in Nat
      /\ stack = <<>> => Len(stack) = 0
      /\ stack # <<>> => /\ WithoutFront(stack) \in Seq(StackEntry)
                         /\ Len(WithoutFront(stack)) = Len(stack) - 1
  BY LenProperties, EmptySeq, HeadTailProperties DEF RaceInv, RaceTypeOK, WithoutFront
<1>2. /\ update.left \in Nat /\ update.action \in Placements /\ update.at = "read"
      /\ update \in Updates /\ update.temp \in StackEntry
      /\ update = [at |-> "read", action |-> update.action, left |-> update.left,
                   temp |-> update.temp]
  BY <1>1, UpdateKinds DEF RemoveFront, RaceTypeOK
<1>3. UNCHANGED <<undo, undone, created, intoUpdate>>
  BY DEF RemoveFront
<1>4. /\ intoUpdate \in BOOLEAN /\ intoUndo \in BOOLEAN /\ torn \in BOOLEAN
      /\ created \in Nat
      /\ ~intoUndo => (undo.at = "pressed" => stack # <<>>)
      /\ ~intoUpdate => update.left + 1 <= Len(stack)
  BY <1>2 DEF RaceInv, RaceTypeOK, EntriesAreThere, StillToTake
<1>5. CASE stack = <<>>
  <2>1. /\ failed' = "rendering"
        /\ UNCHANGED <<stack, update, intoUndo, torn>>
    BY <1>5 DEF RemoveFront
  <2>2. intoUpdate
    BY <1>1, <1>2, <1>4, <1>5
  <2>. QED  BY <1>1, <1>2, <1>3, <1>4, <2>1, <2>2, InvOfFrameworkStep
<1>6. CASE stack # <<>>
  <2>1. /\ stack' = WithoutFront(stack)
        /\ update' = [update EXCEPT !.at = "entry"]
        /\ intoUndo' = (intoUndo \/ undo.at = "pressed")
        /\ torn' = (torn \/ (undo.at = "read" /\ undo.entry.number = Head(stack).number))
        /\ failed' = failed
    BY <1>6 DEF RemoveFront
  <2>2. update' = [at |-> "entry", action |-> update.action, left |-> update.left,
                   temp |-> update.temp]
    BY <1>2, <2>1
  <2>3. /\ update' \in Updates /\ StillToTake' = update.left
        /\ update'.temp # NoEntry
    BY <1>2, <2>2, NoEntryAssumption DEF Updates, StillToTake
  <2>4. torn' \in BOOLEAN /\ intoUndo' \in BOOLEAN
    BY <1>4, <2>1
  <2>5. ~intoUndo' => undo.at # "pressed"
    BY <2>1
  <2>6. stack' \in Seq(StackEntry) /\ Len(stack') = Len(stack) - 1
    BY <1>1, <1>6, <2>1
  <2>7. ~intoUpdate' => StillToTake' <= Len(stack')
    BY <1>1, <1>2, <1>3, <1>4, <2>3, <2>6
  <2>. QED  BY <1>3, <1>4, <2>1, <2>3, <2>4, <2>5, <2>6, <2>7, InvOfFrameworkStep
<1>. QED  BY <1>5, <1>6

LEMMA PushBackKeepsRaceInv ==
  ASSUME RaceInv, failed = "no", PushBackUnlessBroken
  PROVE  RaceInv'
<1>. DEFINE p     == update.action
            temp  == update.temp
            moved == [temp EXCEPT !.edit = Shifted(@, p)]
<1>1. RaceTypeOK /\ stack \in Seq(StackEntry) /\ Len(stack) \in Nat
  BY LenProperties DEF RaceInv, RaceTypeOK
<1>2. /\ p \in Placements /\ p \in Action /\ update.left \in Nat
      /\ temp \in StackEntry \cup {NoEntry}
      /\ update.at = "entry" /\ update \in Updates
  BY <1>1, UpdateKinds, PlacementsAssumption DEF PushBackUnlessBroken, RaceTypeOK
<1>3. UNCHANGED <<undo, undone, created, intoUpdate, intoUndo, torn>>
  BY DEF PushBackUnlessBroken
<1>4. /\ intoUpdate \in BOOLEAN /\ intoUndo \in BOOLEAN /\ torn \in BOOLEAN
      /\ created \in Nat
      /\ ~intoUndo => (undo.at = "pressed" => stack # <<>>)
      /\ ~intoUpdate => update.left <= Len(stack) /\ temp # NoEntry
  BY <1>2 DEF RaceInv, RaceTypeOK, EntriesAreThere, StillToTake
<1>5. CASE temp = NoEntry
  <2>1. failed' = "rendering" /\ UNCHANGED <<stack, update>>
    BY <1>5 DEF PushBackUnlessBroken
  <2>2. intoUpdate
    BY <1>4, <1>5
  <2>. QED  BY <1>1, <1>2, <1>3, <1>4, <2>1, <2>2, InvOfFrameworkStep
<1>6. CASE temp # NoEntry /\ BrokenUp(temp.edit, p)
  <2>1. /\ update' = [at |-> "loop", action |-> p, left |-> update.left]
        /\ UNCHANGED <<stack, failed>>
    BY <1>6 DEF PushBackUnlessBroken
  <2>2. update' \in Updates /\ update'.at = "loop" /\ StillToTake' = update.left
    BY <1>2, <2>1 DEF Updates, StillToTake
  <2>. HIDE DEF temp
  <2>. QED  BY <1>1, <1>3, <1>4, <2>1, <2>2, InvOfFrameworkStep
<1>7. CASE temp # NoEntry /\ ~BrokenUp(temp.edit, p)
  <2>1. /\ update' = [at |-> "loop", action |-> p, left |-> update.left]
        /\ stack' = PushBack(stack, moved)
        /\ failed' = failed
    BY <1>7 DEF PushBackUnlessBroken
  <2>2. update' \in Updates /\ update'.at = "loop" /\ StillToTake' = update.left
    BY <1>2, <2>1 DEF Updates, StillToTake
  <2>3. moved \in StackEntry
    <3>1. temp \in StackEntry
      BY <1>2, <1>7
    <3>. HIDE DEF temp, p
    <3>. QED  BY <1>2, <3>1, MovedType
  <2>. HIDE DEF moved, temp
  <2>4. stack' \in Seq(StackEntry) /\ Len(stack') = Len(stack) + 1 /\ stack' # <<>>
    BY <1>1, <2>1, <2>3, DequeTypes
  <2>5. ~intoUpdate' => StillToTake' <= Len(stack')
    BY <1>1, <1>2, <1>3, <1>4, <2>2, <2>4
  <2>. QED  BY <1>3, <1>4, <2>1, <2>2, <2>4, <2>5, InvOfFrameworkStep
<1>. QED  BY <1>5, <1>6, <1>7

LEMMA EndUpdateKeepsRaceInv ==
  ASSUME RaceInv, failed = "no", EndUpdate
  PROVE  RaceInv'
<1>1. RaceTypeOK /\ stack \in Seq(StackEntry) /\ created \in Nat
  BY DEF RaceInv, RaceTypeOK
<1>2. /\ update.action \in Action /\ created + 1 \in Nat
  BY <1>1, UpdateKinds, PlacementsAssumption DEF EndUpdate
<1>3. Entry(update.action, created + 1) \in StackEntry
  BY <1>2 DEF Entry, StackEntry
<1>4. /\ update' = Idle /\ update' \in Updates /\ update'.at = "idle"
      /\ created' = created + 1
      /\ UNCHANGED <<undo, undone, failed, intoUpdate, intoUndo, torn>>
  BY DEF EndUpdate, Updates, Idle
<1>5. /\ intoUpdate \in BOOLEAN /\ intoUndo \in BOOLEAN /\ torn \in BOOLEAN
      /\ ~intoUndo => (undo.at = "pressed" => stack # <<>>)
  BY DEF RaceInv, RaceTypeOK, EntriesAreThere
<1>6. /\ stack' = stack \/ stack' = PushBack(stack, Entry(update.action, created + 1))
  BY DEF EndUpdate
<1>7. stack' \in Seq(StackEntry) /\ (stack # <<>> => stack' # <<>>)
  BY <1>1, <1>3, <1>6, DequeTypes
<1>. QED  BY <1>2, <1>4, <1>5, <1>7, InvOfFrameworkStep

\* What the main thread takes off the stack of an update marks it as raced.
LEMMA MainThreadKeepsRaceInv ==
  ASSUME RaceInv, failed = "no", PressUndo \/ ReadBack \/ RemoveBack \/ Clear
  PROVE  RaceInv'
<1>1. /\ RaceTypeOK /\ stack \in Seq(StackEntry) /\ undone \in Seq(Nat)
      /\ update \in Updates /\ undo \in Undos /\ created \in Nat
      /\ intoUpdate \in BOOLEAN /\ intoUndo \in BOOLEAN /\ torn \in BOOLEAN
      /\ ~intoUpdate =>
           /\ update.at # "idle" => StillToTake <= Len(stack)
           /\ update.at = "entry" => update.temp # NoEntry
      /\ ~intoUndo => (undo.at = "pressed" => stack # <<>>)
  BY DEF RaceInv, RaceTypeOK, EntriesAreThere
<1>2. UNCHANGED <<update, created>> /\ StillToTake' = StillToTake
  BY DEF PressUndo, ReadBack, RemoveBack, Clear, StillToTake
<1>3. CASE PressUndo
  <2>1. /\ UNCHANGED <<stack, undone, failed, intoUpdate, torn>> /\ stack # <<>>
        /\ undo' \in Undos /\ intoUndo' = FALSE
    BY <1>3 DEF PressUndo, Undos
  <2>. QED
    BY <1>1, <1>2, <2>1 DEF RaceInv, RaceTypeOK, EntriesAreThere, RenderingFailsOnlyIfRaced,
                            UndoFailsOnlyIfRaced
<1>4. CASE ReadBack
  <2>1. UNCHANGED <<stack, undone, intoUpdate, intoUndo, torn>> /\ undo.at = "pressed"
    BY <1>4 DEF ReadBack
  <2>2. CASE stack = <<>>
    <3>1. failed' = "undo" /\ undo' = undo /\ intoUndo
      BY <1>1, <1>4, <2>1, <2>2 DEF ReadBack
    <3>. QED
      BY <1>1, <1>2, <2>1, <3>1 DEF RaceInv, RaceTypeOK, EntriesAreThere,
                                    RenderingFailsOnlyIfRaced, UndoFailsOnlyIfRaced
  <2>3. CASE stack # <<>>
    <3>1. undo' = [at |-> "read", entry |-> Last(stack)] /\ failed' = failed
      BY <1>4, <2>3 DEF ReadBack
    <3>2. undo' \in Undos /\ undo'.at = "read"
      BY <1>1, <2>3, <3>1, LastType DEF Undos
    <3>. QED
      BY <1>1, <1>2, <2>1, <3>1, <3>2 DEF RaceInv, RaceTypeOK, EntriesAreThere,
                                    RenderingFailsOnlyIfRaced, UndoFailsOnlyIfRaced
  <2>. QED  BY <2>2, <2>3
<1>5. CASE RemoveBack
  <2>. DEFINE n == undo.entry.number
  <2>1. /\ undo.at = "read" /\ undo' = Idle
        /\ stack' = Without(stack, n)
        /\ undone' = Append(undone, n)
        /\ intoUpdate' = (intoUpdate \/ (update.at # "idle" /\ stack' # stack))
        /\ torn' = (torn \/ (update.at = "read" /\ update.temp.number = n))
        /\ UNCHANGED <<failed, intoUndo>>
    BY <1>5 DEF RemoveBack
  <2>2. undo' \in Undos /\ undo'.at = "idle"
    BY <2>1 DEF Undos, Idle
  <2>3. n \in Nat
    BY <1>1, <2>1, UndoKinds
  <2>. HIDE DEF n
  <2>4. stack' \in Seq(StackEntry)
    BY <1>1, <2>1, WithoutType
  <2>5. undone' \in Seq(Nat)
    BY <1>1, <2>1, <2>3, AppendProperties
  <2>6. intoUpdate' \in BOOLEAN /\ torn' \in BOOLEAN
    BY <1>1, <2>1
  <2>7. ~intoUpdate' => ~intoUpdate /\ (update.at # "idle" => stack' = stack)
    BY <2>1
  <2>8. ~intoUpdate' =>
          /\ update'.at # "idle" => StillToTake' <= Len(stack')
          /\ update'.at = "entry" => update'.temp # NoEntry
    BY <1>1, <1>2, <2>7
  <2>9. RaceTypeOK' /\ EntriesAreThere'
    BY <1>1, <1>2, <2>1, <2>2, <2>4, <2>5, <2>6, <2>8 DEF RaceTypeOK, EntriesAreThere
  <2>. QED
    BY <2>1, <2>7, <2>9 DEF RaceInv, RenderingFailsOnlyIfRaced, UndoFailsOnlyIfRaced
<1>6. CASE Clear
  <2>1. /\ undo.at = "idle" /\ stack' = <<>>
        /\ UNCHANGED <<undo, undone, failed, intoUndo, torn>>
        /\ intoUpdate' = (intoUpdate \/ update.at # "idle")
    BY <1>6 DEF Clear
  <2>2. stack' \in Seq(StackEntry) /\ intoUpdate' \in BOOLEAN
    BY <1>1, <2>1, EmptySeq
  <2>3. ~intoUpdate' => update'.at = "idle"
    BY <1>2, <2>1
  <2>. QED
    BY <1>1, <1>2, <2>1, <2>2, <2>3 DEF RaceInv, RaceTypeOK, EntriesAreThere,
                                  RenderingFailsOnlyIfRaced, UndoFailsOnlyIfRaced
<1>. QED  BY <1>3, <1>4, <1>5, <1>6

LEMMA StepKeepsRaceInv == RaceInv /\ [Next]_vars => RaceInv'
<1>. SUFFICES ASSUME RaceInv, [Next]_vars PROVE RaceInv'
  OBVIOUS
<1>1. CASE UNCHANGED vars
  BY <1>1 DEF vars, RaceInv, RaceTypeOK, EntriesAreThere, StillToTake,
              RenderingFailsOnlyIfRaced, UndoFailsOnlyIfRaced
<1>2. CASE Next
  BY <1>2, BeginUpdateKeepsRaceInv, CountFrontKeepsRaceInv, ReadFrontKeepsRaceInv,
     RemoveFrontKeepsRaceInv, PushBackKeepsRaceInv, EndUpdateKeepsRaceInv,
     MainThreadKeepsRaceInv DEF Next
<1>. QED  BY <1>1, <1>2

----------------------------------------------------------------------------
\* The update of a stack takes no entry that is not there, unless the main thread took
\* one off the stack since it began, by undo or by clearing it.
THEOREM OnlyARaceFailsRendering == Spec => []RenderingFailsOnlyIfRaced
<1>1. RaceInv => RenderingFailsOnlyIfRaced
  BY DEF RaceInv
<1>. QED  BY <1>1, InitEstablishesRaceInv, StepKeepsRaceInv, PTL DEF Spec

\* Undo takes an entry of the stack that it found not empty, unless the update took one
\* off the stack between the two.
THEOREM OnlyARaceFailsUndo == Spec => []UndoFailsOnlyIfRaced
<1>1. RaceInv => UndoFailsOnlyIfRaced
  BY DEF RaceInv
<1>. QED  BY <1>1, InitEstablishesRaceInv, StepKeepsRaceInv, PTL DEF Spec


----------------------------------------------------------------------------
(***************************************************************************)
(* EntriesAccountedFor counts.  What the steps keep is what the counts     *)
(* stand for: no number occurs twice, in one place or in two, and all that *)
(* were given out are somewhere; what a thread has read and not removed is *)
(* still where it was read, or (for the update) there is nothing left.     *)
(***************************************************************************)

Distinct(entries) ==
  \A i, j \in DOMAIN entries : entries[i].number = entries[j].number => i = j

NoneTwice(numbers) == \A i, j \in DOMAIN numbers : numbers[i] = numbers[j] => i = j

Apart(onStack, taken, held, out) ==
  /\ onStack \cap taken = {} /\ onStack \cap held = {} /\ onStack \cap out = {}
  /\ taken \cap held = {} /\ taken \cap out = {}
  /\ held \cap out = {}

EachInOnePlace ==
  /\ Distinct(stack) /\ NoneTwice(undone)
  /\ Apart(Numbers(stack), Taken, Held, thrownOut)
  /\ Numbers(stack) \cup Taken \cup Held \cup thrownOut = 1 .. created

ReadIsThere ==
  /\ update.at = "read" => stack = <<>> \/ Head(stack).number = update.temp.number
  /\ undo.at = "read" => undo.entry.number \in Numbers(stack)

EntriesInv == RaceInv /\ (~torn => EachInOnePlace /\ ReadIsThere)

----------------------------------------------------------------------------
(***************************************************************************)
(* Lemmas about the numbers of the entries of a sequence                   *)
(***************************************************************************)

\* Distinct entries have as many numbers as they are.
LEMMA NumbersOfDistinct ==
  ASSUME NEW entries \in Seq(StackEntry), Distinct(entries)
  PROVE  /\ IsFiniteSet(Numbers(entries))
         /\ Cardinality(Numbers(entries)) = Len(entries)
<1>. DEFINE places == 1 .. Len(entries)
            number == [i \in places |-> entries[i].number]
<1>1. Len(entries) \in Nat /\ DOMAIN entries = places
  BY LenProperties
<1>2. IsFiniteSet(places) /\ Cardinality(places) = Len(entries)
  BY <1>1, FS_Interval
<1>3. number \in Bijection(places, Numbers(entries))
  <2>1. number \in [places -> Numbers(entries)]
    BY <1>1 DEF Numbers
  <2>2. \A i, j \in places : number[i] = number[j] => i = j
    BY <1>1 DEF Distinct
  <2>3. \A n \in Numbers(entries) : \E i \in places : number[i] = n
    BY <1>1 DEF Numbers
  <2>. QED  BY <2>1, <2>2, <2>3 DEF Bijection, Injection, Surjection, IsInjective
<1>4. ExistsBijection(places, Numbers(entries))
  BY <1>3 DEF ExistsBijection
<1>. HIDE DEF places
<1>. QED  BY <1>2, <1>4, FS_Bijection

\* One more entry at the end.
LEMMA NumbersOfAppend ==
  ASSUME NEW entries \in Seq(StackEntry), NEW entry \in StackEntry
  PROVE  /\ Append(entries, entry) \in Seq(StackEntry)
         /\ Numbers(Append(entries, entry)) = Numbers(entries) \cup {entry.number}
         /\ Distinct(entries) /\ entry.number \notin Numbers(entries) =>
              Distinct(Append(entries, entry))
<1>. DEFINE longer == Append(entries, entry)
            last == Len(entries) + 1
<1>1. /\ longer \in Seq(StackEntry)
      /\ Len(longer) = last
      /\ \A i \in 1 .. Len(entries) : longer[i] = entries[i]
      /\ longer[last] = entry
  BY AppendProperties
<1>2. /\ DOMAIN entries = 1 .. Len(entries) /\ Len(entries) \in Nat
      /\ DOMAIN longer = 1 .. last
  BY <1>1, LenProperties
<1>3. DOMAIN longer = DOMAIN entries \cup {last} /\ last \notin DOMAIN entries
  BY <1>2
<1>4. \A i \in DOMAIN entries : longer[i] = entries[i]
  BY <1>1, <1>2
<1>. HIDE DEF longer, last
<1>5. Numbers(longer) = Numbers(entries) \cup {entry.number}
  BY <1>1, <1>3, <1>4 DEF Numbers
<1>6. Distinct(entries) /\ entry.number \notin Numbers(entries) => Distinct(longer)
  BY <1>1, <1>3, <1>4 DEF Numbers, Distinct
<1>. QED  BY <1>1, <1>5, <1>6 DEF longer

\* A sequence of numbers of which none occurs twice, and one more at its end.
LEMMA CountOfTaken ==
  ASSUME NEW numbers \in Seq(Nat), NoneTwice(numbers)
  PROVE  LET taken == {numbers[i] : i \in DOMAIN numbers}
         IN  IsFiniteSet(taken) /\ Cardinality(taken) = Len(numbers)
<1>. DEFINE last   == Len(numbers)
            places == 1 .. last
            taken  == {numbers[i] : i \in DOMAIN numbers}
            number == [i \in places |-> numbers[i]]
<1>1. last \in Nat /\ DOMAIN numbers = places
  BY LenProperties
<1>2. IsFiniteSet(places) /\ Cardinality(places) = Len(numbers)
  <2>1. last = Len(numbers)
    OBVIOUS
  <2>. HIDE DEF last
  <2>2. IsFiniteSet(1 .. last) /\ Cardinality(1 .. last) = last
    BY <1>1, FS_Interval
  <2>. QED  BY <2>1, <2>2
<1>3. number \in Bijection(places, taken)
  <2>1. number \in [places -> taken]
    BY <1>1
  <2>2. \A i, j \in places : number[i] = number[j] => i = j
    BY <1>1 DEF NoneTwice
  <2>3. \A n \in taken : \E i \in places : number[i] = n
    BY <1>1
  <2>. QED  BY <2>1, <2>2, <2>3 DEF Bijection, Injection, Surjection, IsInjective
<1>4. ExistsBijection(places, taken)
  BY <1>3 DEF ExistsBijection
<1>. HIDE DEF places, taken
<1>5. IsFiniteSet(taken) /\ Cardinality(taken) = Len(numbers)
  BY <1>2, <1>4, FS_Bijection
<1>. QED  BY <1>5 DEF taken

LEMMA TakenAppend ==
  ASSUME NEW numbers \in Seq(Nat), NEW n \in Nat
  PROVE  LET longer == Append(numbers, n)
             taken  == {numbers[i] : i \in DOMAIN numbers}
         IN  /\ {longer[i] : i \in DOMAIN longer} = taken \cup {n}
             /\ NoneTwice(numbers) /\ n \notin taken => NoneTwice(longer)
<1>. DEFINE longer == Append(numbers, n)
            last == Len(numbers) + 1
            taken == {numbers[i] : i \in DOMAIN numbers}
<1>1. /\ longer \in Seq(Nat)
      /\ Len(longer) = last
      /\ \A i \in 1 .. Len(numbers) : longer[i] = numbers[i]
      /\ longer[last] = n
  BY AppendProperties
<1>2. /\ DOMAIN numbers = 1 .. Len(numbers) /\ Len(numbers) \in Nat
      /\ DOMAIN longer = 1 .. last
  BY <1>1, LenProperties
<1>3. DOMAIN longer = DOMAIN numbers \cup {last} /\ last \notin DOMAIN numbers
  BY <1>2
<1>4. \A i \in DOMAIN numbers : longer[i] = numbers[i]
  BY <1>1, <1>2
<1>. HIDE DEF longer, last
<1>5. {longer[i] : i \in DOMAIN longer} = taken \cup {n}
  BY <1>1, <1>3, <1>4
<1>6. NoneTwice(numbers) /\ n \notin taken => NoneTwice(longer)
  BY <1>1, <1>3, <1>4 DEF NoneTwice
<1>. QED  BY <1>5, <1>6 DEF longer, taken

\* One entry less: the others are where they were, or one place further to the front.
LEMMA NumbersOfRest ==
  ASSUME NEW entries \in Seq(StackEntry), NEW rest \in Seq(StackEntry),
         NEW gone \in DOMAIN entries,
         Len(rest) = Len(entries) - 1,
         \A i \in 1 .. Len(rest) : rest[i] = IF i < gone THEN entries[i] ELSE entries[i + 1]
  PROVE  /\ Numbers(entries) = Numbers(rest) \cup {entries[gone].number}
         /\ Distinct(entries) => /\ Distinct(rest)
                                 /\ entries[gone].number \notin Numbers(rest)
<1>. DEFINE from(i) == IF i < gone THEN i ELSE i + 1
            to(j)   == IF j < gone THEN j ELSE j - 1
<1>1. /\ DOMAIN entries = 1 .. Len(entries) /\ Len(entries) \in Nat
      /\ DOMAIN rest = 1 .. Len(rest) /\ gone \in Nat
  BY LenProperties
<1>2. \A i \in DOMAIN rest : /\ from(i) \in DOMAIN entries /\ from(i) # gone
                             /\ rest[i] = entries[from(i)]
  BY <1>1
<1>3. \A j \in DOMAIN entries : j # gone => to(j) \in DOMAIN rest /\ from(to(j)) = j
  BY <1>1
<1>4. \A i, j \in DOMAIN rest : from(i) = from(j) => i = j
  BY <1>1
<1>. HIDE DEF from, to
<1>5. Numbers(entries) = Numbers(rest) \cup {entries[gone].number}
  <2>1. ASSUME NEW j \in DOMAIN entries
        PROVE  entries[j].number \in Numbers(rest) \cup {entries[gone].number}
    <3>1. CASE j = gone
      BY <3>1
    <3>2. CASE j # gone
      BY <1>2, <1>3, <3>2 DEF Numbers
    <3>. QED  BY <3>1, <3>2
  <2>2. \A i \in DOMAIN rest : rest[i].number \in Numbers(entries)
    BY <1>2 DEF Numbers
  <2>. QED  BY <2>1, <2>2 DEF Numbers
<1>6. ASSUME Distinct(entries)
      PROVE  Distinct(rest) /\ entries[gone].number \notin Numbers(rest)
  <2>1. Distinct(rest)
    BY <1>2, <1>4, <1>6 DEF Distinct
  <2>2. entries[gone].number \notin Numbers(rest)
    BY <1>2, <1>6 DEF Distinct, Numbers
  <2>. QED  BY <2>1, <2>2
<1>. QED  BY <1>5, <1>6

LEMMA NumbersOfTail ==
  ASSUME NEW entries \in Seq(StackEntry), entries # <<>>
  PROVE  /\ Head(entries) \in StackEntry
         /\ Numbers(entries) = Numbers(Tail(entries)) \cup {Head(entries).number}
         /\ Distinct(entries) => /\ Distinct(Tail(entries))
                                 /\ Head(entries).number \notin Numbers(Tail(entries))
<1>. DEFINE rest == Tail(entries)
            gone == 1
<1>1. /\ rest \in Seq(StackEntry)
      /\ Len(rest) = Len(entries) - 1
      /\ Head(entries) \in StackEntry
      /\ Head(entries) = entries[1]
      /\ \A i \in 1 .. Len(rest) : rest[i] = entries[i + 1]
  BY HeadTailProperties
<1>2. gone \in DOMAIN entries /\ Len(rest) \in Nat
  BY <1>1, LenProperties, EmptySeq
<1>3. \A i \in 1 .. Len(rest) : rest[i] = IF i < gone THEN entries[i] ELSE entries[i + 1]
  <2>1. \A i \in 1 .. Len(rest) : ~(i < gone)
    BY <1>2
  <2>. QED  BY <1>1, <2>1
<1>. HIDE DEF rest, gone
<1>4. /\ Numbers(entries) = Numbers(rest) \cup {entries[gone].number}
      /\ Distinct(entries) => /\ Distinct(rest)
                              /\ entries[gone].number \notin Numbers(rest)
  BY <1>1, <1>2, <1>3, NumbersOfRest
<1>. QED  BY <1>1, <1>4 DEF rest, gone

\* A stack without one of its numbers has the others, and its old front unless that
\* was the one.
LEMMA NumbersOfWithout ==
  ASSUME NEW entries \in Seq(StackEntry), NEW n, n \in Numbers(entries), Distinct(entries)
  PROVE  /\ Numbers(entries) = Numbers(Without(entries, n)) \cup {n}
         /\ Distinct(Without(entries, n))
         /\ n \notin Numbers(Without(entries, n))
         /\ Head(entries).number # n =>
              /\ Without(entries, n) # <<>>
              /\ Head(Without(entries, n)) = Head(entries)
<1>. DEFINE rest == Without(entries, n)
<1>1. PICK gone \in DOMAIN entries :
        gone = (CHOOSE i \in DOMAIN entries : entries[i].number = n)
        /\ entries[gone].number = n
  BY DEF Numbers
<1>2. rest = RemoveAt(entries, gone)
  BY <1>1 DEF Without
<1>3. /\ rest \in Seq(StackEntry)
      /\ Len(rest) = Len(entries) - 1
      /\ \A i \in 1 .. Len(rest) :
           rest[i] = IF i < gone THEN entries[i] ELSE entries[i + 1]
  BY <1>2, RemoveAtProperties
<1>. HIDE DEF rest
<1>4. /\ Numbers(entries) = Numbers(rest) \cup {n}
      /\ Distinct(rest) /\ n \notin Numbers(rest)
  <2>1. /\ Numbers(entries) = Numbers(rest) \cup {entries[gone].number}
        /\ Distinct(rest) /\ entries[gone].number \notin Numbers(rest)
    BY <1>3, NumbersOfRest
  <2>. QED  BY <1>1, <2>1
<1>5. ASSUME Head(entries).number # n
      PROVE  rest # <<>> /\ Head(rest) = Head(entries)
  <2>1. /\ Len(entries) \in Nat /\ DOMAIN entries = 1 .. Len(entries)
        /\ Len(rest) \in Nat /\ gone \in Nat
    BY <1>3, LenProperties
  <2>2. entries # <<>>
    BY <2>1, EmptySeq
  <2>3. Head(entries) = entries[1]
    BY <2>2, HeadTailProperties
  <2>4. gone # 1
    BY <1>1, <1>5, <2>3
  <2>5. 1 < gone /\ 1 \in 1 .. Len(rest)
    BY <1>3, <2>1, <2>4
  <2>6. rest[1] = entries[1]
    BY <1>3, <2>5
  <2>7. rest # <<>>
    BY <2>5, EmptySeq
  <2>8. Head(rest) = rest[1]
    BY <1>3, <2>7, HeadTailProperties
  <2>. QED  BY <2>3, <2>6, <2>7, <2>8
<1>. QED  BY <1>4, <1>5 DEF rest


----------------------------------------------------------------------------
(***************************************************************************)
(* The steps: each takes an entry from one place to another, if any.       *)
(***************************************************************************)

LEMMA InvTypes ==
  ASSUME RaceInv
  PROVE  /\ stack \in Seq(StackEntry) /\ undone \in Seq(Nat)
         /\ created \in Nat
         /\ update.at \in {"idle", "loop", "counted", "read", "entry"}
         /\ update.at = "read" => update.temp \in StackEntry
         /\ update.at = "entry" => update.temp \in StackEntry \cup {NoEntry}
         /\ update.at # "idle" => update.action \in Action
         /\ undo.at = "read" => undo.entry.number \in Nat
         /\ torn \in BOOLEAN
<1>1. RaceTypeOK
  BY DEF RaceInv
<1>. QED
  BY <1>1, UpdateKinds, UndoKinds, PlacementsAssumption DEF RaceTypeOK

\* Steps that move no entry.
LEMMA StandingStill ==
  ASSUME EachInOnePlace, UNCHANGED <<stack, undone, created, thrownOut>>, Held' = Held
  PROVE  EachInOnePlace'
BY DEF EachInOnePlace, Numbers, Distinct, NoneTwice, Taken

LEMMA BeginUpdateMovesNone ==
  ASSUME RaceInv, EachInOnePlace, ReadIsThere, BeginUpdate
  PROVE  EachInOnePlace' /\ ReadIsThere'
<1>1. /\ update.at = "idle" /\ update'.at = "loop"
      /\ UNCHANGED <<stack, undo, undone, created, thrownOut>>
  BY DEF BeginUpdate
<1>2. Held = {} /\ Held' = {}
  BY <1>1 DEF Held
<1>. QED  BY <1>1, <1>2, StandingStill DEF ReadIsThere, Numbers

LEMMA CountFrontMovesNone ==
  ASSUME RaceInv, EachInOnePlace, ReadIsThere, CountFront
  PROVE  EachInOnePlace' /\ ReadIsThere'
<1>1. update.at = "loop" /\ UNCHANGED <<stack, undo, undone, created, thrownOut>>
  BY DEF CountFront
<1>2. update'.at = "counted" \/ (update'.at = "entry" /\ update'.temp = NoEntry)
  <2>1. CASE stack = <<>>
    BY <2>1 DEF CountFront
  <2>2. CASE stack # <<>>
    <3>1. update = [at |-> "loop", action |-> update.action, left |-> update.left]
      BY <1>1, UpdateKinds DEF RaceInv
    <3>2. update' = [update EXCEPT !.at = "counted", !.left = @ - 1]
      BY <2>2 DEF CountFront
    <3>3. update' = [at |-> "counted", action |-> update.action, left |-> update.left - 1]
      BY <3>1, <3>2
    <3>. QED  BY <3>3
  <2>. QED  BY <2>1, <2>2
<1>3. Held = {} /\ Held' = {}
  BY <1>1, <1>2 DEF Held
<1>. QED  BY <1>1, <1>2, <1>3, StandingStill DEF ReadIsThere, Numbers

LEMMA ReadFrontMovesNone ==
  ASSUME RaceInv, EachInOnePlace, ReadIsThere, ReadFront
  PROVE  EachInOnePlace' /\ ReadIsThere'
<1>1. update.at = "counted" /\ UNCHANGED <<stack, undo, undone, created, thrownOut>>
  BY DEF ReadFront
<1>2. \/ update' = update
      \/ update'.at = "read" /\ update'.temp = Head(stack)
  BY DEF ReadFront
<1>3. Held = {} /\ Held' = {}
  BY <1>1, <1>2 DEF Held
<1>. QED  BY <1>1, <1>2, <1>3, StandingStill DEF ReadIsThere, Numbers

LEMMA RemoveFrontMovesOne ==
  ASSUME RaceInv, EachInOnePlace, ReadIsThere, RemoveFront, ~torn'
  PROVE  EachInOnePlace' /\ ReadIsThere'
<1>1. update.at = "read" /\ UNCHANGED <<undo, undone, created, thrownOut>>
  BY DEF RemoveFront
<1>2. Held = {} /\ stack \in Seq(StackEntry) /\ update.temp \in StackEntry
  BY <1>1, InvTypes DEF Held
<1>3. Taken' = Taken /\ NoneTwice(undone)' = NoneTwice(undone)
  BY <1>1 DEF Taken, NoneTwice
<1>4. CASE stack = <<>>
  <2>1. stack' = stack /\ update' = update
    BY <1>4 DEF RemoveFront
  <2>2. Held' = Held
    BY <2>1 DEF Held
  <2>. QED  BY <1>1, <2>1, <2>2, StandingStill DEF ReadIsThere, Numbers
<1>5. CASE stack # <<>>
  <2>. DEFINE n == Head(stack).number
  <2>1. /\ Head(stack) \in StackEntry
        /\ Numbers(stack) = Numbers(Tail(stack)) \cup {n}
        /\ Distinct(stack) => Distinct(Tail(stack)) /\ n \notin Numbers(Tail(stack))
    BY <1>2, <1>5, NumbersOfTail
  <2>2. /\ stack' = Tail(stack) /\ update' = [update EXCEPT !.at = "entry"]
        /\ undo.at = "read" => undo.entry.number # n
    BY <1>5 DEF RemoveFront, WithoutFront
  <2>3. /\ update'.at = "entry" /\ update'.temp = update.temp
        /\ update'.temp # NoEntry /\ update'.temp.number = n
    <3>1. update = [at |-> "read", action |-> update.action, left |-> update.left,
                    temp |-> update.temp]
      BY <1>1, UpdateKinds DEF RaceInv
    <3>2. update' = [at |-> "entry", action |-> update.action, left |-> update.left,
                     temp |-> update.temp]
      BY <2>2, <3>1
    <3>3. update.temp.number = n
      BY <1>1, <1>5 DEF ReadIsThere
    <3>. QED  BY <1>2, <3>2, <3>3, NoEntryAssumption
  <2>4. Held' = {n}
    BY <2>3 DEF Held
  <2>5. Numbers(stack)' = Numbers(Tail(stack)) /\ Distinct(stack)' = Distinct(Tail(stack))
    BY <2>2 DEF Numbers, Distinct
  <2>. HIDE DEF n
  <2>6. EachInOnePlace'
    BY <1>1, <1>2, <1>3, <2>1, <2>4, <2>5 DEF EachInOnePlace, Apart
  <2>7. undo'.at = "read" => undo'.entry.number \in Numbers(stack)'
    BY <1>1, <2>1, <2>2, <2>5 DEF ReadIsThere
  <2>. QED  BY <2>3, <2>6, <2>7 DEF ReadIsThere
<1>. QED  BY <1>4, <1>5

LEMMA PushBackMovesOne ==
  ASSUME RaceInv, EachInOnePlace, ReadIsThere, PushBackUnlessBroken
  PROVE  EachInOnePlace' /\ ReadIsThere'
<1>. DEFINE p     == update.action
            temp  == update.temp
            moved == [temp EXCEPT !.edit = Shifted(@, p)]
<1>1. update.at = "entry" /\ UNCHANGED <<undo, undone, created>>
  BY DEF PushBackUnlessBroken
<1>2. /\ stack \in Seq(StackEntry) /\ p \in Action
      /\ temp \in StackEntry \cup {NoEntry}
  BY <1>1, InvTypes
<1>3. /\ temp = NoEntry => Held = {}
      /\ temp # NoEntry => Held = {temp.number}
  BY <1>1 DEF Held
<1>4. Taken' = Taken /\ NoneTwice(undone)' = NoneTwice(undone)
  BY <1>1 DEF Taken, NoneTwice
<1>5. CASE temp = NoEntry
  <2>1. UNCHANGED <<stack, update, thrownOut>>
    BY <1>5 DEF PushBackUnlessBroken
  <2>2. Held' = Held
    BY <2>1 DEF Held
  <2>. QED  BY <1>1, <2>1, <2>2, StandingStill DEF ReadIsThere, Numbers
<1>6. CASE temp # NoEntry /\ BrokenUp(temp.edit, p)
  <2>1. /\ stack' = stack /\ thrownOut' = thrownOut \cup {temp.number}
        /\ update'.at = "loop"
    BY <1>6 DEF PushBackUnlessBroken
  <2>2. Numbers(stack)' = Numbers(stack) /\ Distinct(stack)' = Distinct(stack)
    BY <2>1 DEF Numbers, Distinct
  <2>3. Held' = {}
    BY <2>1 DEF Held
  <2>. HIDE DEF temp
  <2>4. EachInOnePlace'
    BY <1>1, <1>3, <1>4, <1>6, <2>1, <2>2, <2>3 DEF EachInOnePlace, Apart
  <2>. QED  BY <1>1, <2>1, <2>2, <2>4 DEF ReadIsThere
<1>7. CASE temp # NoEntry /\ ~BrokenUp(temp.edit, p)
  <2>1. /\ stack' = Append(stack, moved) /\ thrownOut' = thrownOut
        /\ update'.at = "loop"
    BY <1>7 DEF PushBackUnlessBroken, PushBack
  <2>2. moved \in StackEntry /\ moved.number = temp.number
    <3>1. temp \in StackEntry
      BY <1>2, <1>7
    <3>. HIDE DEF p, temp
    <3>. QED  BY <1>2, <3>1, MovedType
  <2>3. Held' = {}
    BY <2>1 DEF Held
  <2>. HIDE DEF moved, temp
  <2>4. /\ Numbers(stack)' = Numbers(stack) \cup {moved.number}
        /\ Distinct(stack) /\ moved.number \notin Numbers(stack) => Distinct(stack)'
    <3>1. Numbers(stack)' = Numbers(Append(stack, moved))
          /\ Distinct(stack)' = Distinct(Append(stack, moved))
      BY <2>1 DEF Numbers, Distinct
    <3>. QED  BY <1>2, <2>2, <3>1, NumbersOfAppend
  <2>5. EachInOnePlace'
    BY <1>1, <1>3, <1>4, <1>7, <2>1, <2>2, <2>3, <2>4 DEF EachInOnePlace, Apart
  <2>. QED  BY <1>1, <2>1, <2>4, <2>5 DEF ReadIsThere
<1>. QED  BY <1>5, <1>6, <1>7

\* The entry that is made has a number that none had before.
LEMMA EndUpdateAddsOne ==
  ASSUME RaceInv, EachInOnePlace, ReadIsThere, EndUpdate
  PROVE  EachInOnePlace' /\ ReadIsThere'
<1>. DEFINE n == created + 1
            entry == Entry(update.action, n)
<1>1. /\ update.at = "loop" /\ update' = Idle /\ update'.at = "idle"
      /\ created' = n /\ UNCHANGED <<undo, undone>>
  BY DEF EndUpdate, Idle
<1>2. Held = {} /\ Held' = {}
  BY <1>1 DEF Held
<1>3. stack \in Seq(StackEntry) /\ created \in Nat /\ update.action \in Action
  BY <1>1, InvTypes
<1>4. n \in Nat /\ n \notin 1 .. created /\ 1 .. n = 1 .. created \cup {n}
  BY <1>3
<1>5. Taken' = Taken /\ NoneTwice(undone)' = NoneTwice(undone)
  BY <1>1 DEF Taken, NoneTwice
<1>6. CASE stack' = Append(stack, entry) /\ thrownOut' = thrownOut
  <2>1. entry \in StackEntry /\ entry.number = n
    BY <1>3, <1>4 DEF Entry, StackEntry
  <2>. HIDE DEF entry
  <2>2. /\ Numbers(stack)' = Numbers(stack) \cup {entry.number}
        /\ Distinct(stack) /\ entry.number \notin Numbers(stack) => Distinct(stack)'
    <3>1. Numbers(stack)' = Numbers(Append(stack, entry))
          /\ Distinct(stack)' = Distinct(Append(stack, entry))
      BY <1>6 DEF Numbers, Distinct
    <3>. QED  BY <1>3, <2>1, <3>1, NumbersOfAppend
  <2>. HIDE DEF n
  <2>3. EachInOnePlace'
    BY <1>1, <1>2, <1>4, <1>5, <1>6, <2>1, <2>2 DEF EachInOnePlace, Apart
  <2>. QED  BY <1>1, <2>2, <2>3 DEF ReadIsThere
<1>7. CASE thrownOut' = thrownOut \cup {n} /\ stack' = stack
  <2>1. Numbers(stack)' = Numbers(stack) /\ Distinct(stack)' = Distinct(stack)
    BY <1>7 DEF Numbers, Distinct
  <2>. HIDE DEF n
  <2>2. EachInOnePlace'
    BY <1>1, <1>2, <1>4, <1>5, <1>7, <2>1 DEF EachInOnePlace, Apart
  <2>. QED  BY <1>1, <2>1, <2>2 DEF ReadIsThere
<1>. QED  BY <1>6, <1>7 DEF EndUpdate, PushBack

LEMMA ReadBackMovesNone ==
  ASSUME RaceInv, EachInOnePlace, ReadIsThere, PressUndo \/ ReadBack
  PROVE  EachInOnePlace' /\ ReadIsThere'
<1>1. UNCHANGED <<stack, update, undone, created, thrownOut>>
  BY DEF PressUndo, ReadBack
<1>2. Held' = Held
  BY <1>1 DEF Held
<1>3. undo'.at = "read" => undo'.entry.number \in Numbers(stack)
  <2>1. CASE PressUndo
    BY <2>1 DEF PressUndo, Pressed
  <2>2. CASE ReadBack /\ stack = <<>>
    BY <2>2 DEF ReadBack
  <2>3. CASE ReadBack /\ stack # <<>>
    <3>1. undo' = [at |-> "read", entry |-> Last(stack)]
      BY <2>3 DEF ReadBack
    <3>2. Last(stack).number \in Numbers(stack)
      BY <2>3, InvTypes, LastType
    <3>. QED  BY <3>1, <3>2
  <2>. QED  BY <2>1, <2>2, <2>3
<1>. QED  BY <1>1, <1>2, <1>3, StandingStill DEF ReadIsThere, Numbers

LEMMA RemoveBackMovesOne ==
  ASSUME RaceInv, EachInOnePlace, ReadIsThere, RemoveBack, ~torn'
  PROVE  EachInOnePlace' /\ ReadIsThere'
<1>. DEFINE n == undo.entry.number
            rest == Without(stack, n)
<1>1. /\ undo.at = "read" /\ undo' = Idle /\ undo'.at = "idle"
      /\ stack' = rest /\ undone' = Append(undone, n)
      /\ update.at = "read" => update.temp.number # n
      /\ UNCHANGED <<update, created, thrownOut>>
  BY DEF RemoveBack, Idle
<1>2. /\ Held' = Held /\ stack \in Seq(StackEntry) /\ undone \in Seq(Nat) /\ n \in Nat
  BY <1>1, InvTypes DEF Held
<1>3. n \in Numbers(stack)
  BY <1>1 DEF ReadIsThere
<1>. HIDE DEF n
<1>4. /\ Numbers(stack) = Numbers(rest) \cup {n}
      /\ Distinct(rest) /\ n \notin Numbers(rest)
      /\ Head(stack).number # n => rest # <<>> /\ Head(rest) = Head(stack)
  BY <1>2, <1>3, NumbersOfWithout DEF EachInOnePlace
<1>. HIDE DEF rest
<1>5. Numbers(stack)' = Numbers(rest) /\ Distinct(stack)' = Distinct(rest)
  BY <1>1 DEF Numbers, Distinct
<1>6. /\ Taken' = Taken \cup {n}
      /\ NoneTwice(undone) /\ n \notin Taken => NoneTwice(undone)'
  <2>. DEFINE longer == Append(undone, n)
  <2>1. /\ {longer[i] : i \in DOMAIN longer} = Taken \cup {n}
        /\ NoneTwice(undone) /\ n \notin Taken => NoneTwice(longer)
    BY <1>2, TakenAppend DEF Taken
  <2>2. undone' = longer
    BY <1>1
  <2>. HIDE DEF longer
  <2>3. Taken' = {longer[i] : i \in DOMAIN longer} /\ NoneTwice(undone)' = NoneTwice(longer)
    BY <2>2 DEF Taken, NoneTwice
  <2>. QED  BY <2>1, <2>3
<1>7. EachInOnePlace'
  BY <1>1, <1>2, <1>3, <1>4, <1>5, <1>6 DEF EachInOnePlace, Apart
<1>8. update'.at = "read" => stack' = <<>> \/ Head(stack').number = update'.temp.number
  <2>1. CASE stack = <<>>
    <3>1. Numbers(stack) = {}
      BY <2>1 DEF Numbers
    <3>. QED  BY <1>3, <3>1
  <2>2. CASE stack # <<>> /\ update.at = "read"
    <3>1. Head(stack).number = update.temp.number
      BY <2>2 DEF ReadIsThere
    <3>. QED  BY <1>1, <1>4, <2>2, <3>1
  <2>. QED  BY <1>1, <2>1, <2>2
<1>. QED  BY <1>1, <1>7, <1>8 DEF ReadIsThere

LEMMA ClearMovesAll ==
  ASSUME RaceInv, EachInOnePlace, ReadIsThere, Clear
  PROVE  EachInOnePlace' /\ ReadIsThere'
<1>1. /\ stack' = <<>> /\ thrownOut' = thrownOut \cup Numbers(stack)
      /\ undo.at = "idle"
      /\ UNCHANGED <<update, undo, undone, created>>
  BY DEF Clear
<1>2. /\ Held' = Held /\ Taken' = Taken
      /\ NoneTwice(undone)' = NoneTwice(undone)
  BY <1>1 DEF Held, Taken, NoneTwice
<1>3. DOMAIN stack' = {}
  BY <1>1
<1>4. Numbers(stack)' = {} /\ Distinct(stack)'
  BY <1>3 DEF Numbers, Distinct
<1>. QED  BY <1>1, <1>2, <1>4 DEF EachInOnePlace, Apart, ReadIsThere

----------------------------------------------------------------------------
(***************************************************************************)
(* The theorem                                                             *)
(***************************************************************************)

LEMMA InitEstablishesEntriesInv == Init => EntriesInv
<1>. SUFFICES ASSUME Init PROVE EntriesInv
  OBVIOUS
<1>1. /\ stack = <<>> /\ undone = <<>> /\ thrownOut = {} /\ created = 0
      /\ update.at = "idle" /\ undo.at = "idle"
  BY DEF Init, Idle
<1>2. DOMAIN stack = {} /\ DOMAIN undone = {}
  BY <1>1
<1>3. Held = {} /\ Numbers(stack) = {} /\ Taken = {} /\ 1 .. created = {}
  BY <1>1, <1>2 DEF Held, Numbers, Taken
<1>4. Distinct(stack) /\ NoneTwice(undone)
  BY <1>2 DEF Distinct, NoneTwice
<1>. QED
  BY <1>1, <1>3, <1>4, InitEstablishesRaceInv
     DEF EntriesInv, EachInOnePlace, Apart, ReadIsThere

\* Once torn, always torn.
LEMMA StaysTorn == [Next]_vars /\ torn => torn'
BY DEF Next, vars, BeginUpdate, CountFront, ReadFront, RemoveFront, PushBackUnlessBroken,
       EndUpdate, PressUndo, ReadBack, RemoveBack, Clear

LEMMA StepKeepsEntriesInv == EntriesInv /\ [Next]_vars => EntriesInv'
<1>. SUFFICES ASSUME EntriesInv, [Next]_vars, ~torn'
              PROVE  EachInOnePlace' /\ ReadIsThere'
  BY StepKeepsRaceInv DEF EntriesInv
<1>1. RaceInv /\ EachInOnePlace /\ ReadIsThere
  BY StaysTorn DEF EntriesInv
<1>2. CASE UNCHANGED vars
  <2>1. UNCHANGED <<stack, update, undo, undone, created, thrownOut>>
    BY <1>2 DEF vars
  <2>2. Held' = Held
    BY <2>1 DEF Held
  <2>. QED  BY <1>1, <2>1, <2>2, StandingStill DEF ReadIsThere, Numbers
<1>3. CASE Next
  BY <1>1, <1>3, BeginUpdateMovesNone, CountFrontMovesNone, ReadFrontMovesNone,
     RemoveFrontMovesOne, PushBackMovesOne, EndUpdateAddsOne, ReadBackMovesNone,
     RemoveBackMovesOne, ClearMovesAll DEF Next
<1>. QED  BY <1>2, <1>3

\* Four sets that are apart have as many elements together as they have each.
LEMMA CountOfApart ==
  ASSUME NEW A, NEW B, NEW C, NEW D, Apart(A, B, C, D),
         IsFiniteSet(A), IsFiniteSet(B), IsFiniteSet(C), IsFiniteSet(D)
  PROVE  Cardinality(A \cup B \cup C \cup D)
           = Cardinality(A) + Cardinality(B) + Cardinality(C) + Cardinality(D)
<1>1. ASSUME NEW S, NEW T, IsFiniteSet(S), IsFiniteSet(T), S \cap T = {}
      PROVE  /\ IsFiniteSet(S \cup T)
             /\ Cardinality(S \cup T) = Cardinality(S) + Cardinality(T)
  <2>1. Cardinality(S \cap T) = 0
    BY <1>1, FS_EmptySet
  <2>2. Cardinality(S) \in Nat /\ Cardinality(T) \in Nat
    BY <1>1, FS_CardinalityType
  <2>3. /\ IsFiniteSet(S \cup T)
        /\ Cardinality(S \cup T) = Cardinality(S) + Cardinality(T) - Cardinality(S \cap T)
    BY <1>1, FS_Union
  <2>. QED  BY <2>1, <2>2, <2>3
<1>2. /\ IsFiniteSet(A \cup B)
      /\ Cardinality(A \cup B) = Cardinality(A) + Cardinality(B)
  BY <1>1 DEF Apart
<1>3. /\ IsFiniteSet(A \cup B \cup C)
      /\ Cardinality(A \cup B \cup C) = Cardinality(A \cup B) + Cardinality(C)
  <2>1. (A \cup B) \cap C = {}
    BY DEF Apart
  <2>. QED  BY <1>1, <1>2, <2>1
<1>4. Cardinality(A \cup B \cup C \cup D) = Cardinality(A \cup B \cup C) + Cardinality(D)
  <2>1. (A \cup B \cup C) \cap D = {}
    BY DEF Apart
  <2>. QED  BY <1>1, <1>3, <2>1
<1>. QED  BY <1>2, <1>3, <1>4

LEMMA InvCounts == EntriesInv => EntriesAccountedFor
<1>. SUFFICES ASSUME EntriesInv, ~torn
              PROVE  /\ Cardinality(Numbers(stack)) = Len(stack)
                     /\ Cardinality(Taken) = Len(undone)
                     /\ Cardinality(Numbers(stack)) + Cardinality(Taken)
                          + Cardinality(Held) + Cardinality(thrownOut) = created
                     /\ Numbers(stack) \cup Taken \cup Held \cup thrownOut = 1 .. created
  BY DEF EntriesAccountedFor
<1>0. /\ RaceInv /\ EachInOnePlace
      /\ stack \in Seq(StackEntry) /\ undone \in Seq(Nat) /\ created \in Nat
  BY InvTypes DEF EntriesInv
<1>1. /\ IsFiniteSet(Numbers(stack)) /\ Cardinality(Numbers(stack)) = Len(stack)
      /\ IsFiniteSet(Taken) /\ Cardinality(Taken) = Len(undone)
  BY <1>0, NumbersOfDistinct, CountOfTaken DEF EachInOnePlace, Taken
<1>2. IsFiniteSet(1 .. created) /\ Cardinality(1 .. created) = created
  BY <1>0, FS_Interval
<1>3. IsFiniteSet(Held)
  BY FS_EmptySet, FS_Singleton DEF Held
<1>4. IsFiniteSet(thrownOut)
  <2>1. thrownOut \in SUBSET (1 .. created)
    BY <1>0 DEF EachInOnePlace
  <2>. QED  BY <1>2, <2>1, FS_Subset
<1>5. Cardinality(Numbers(stack) \cup Taken \cup Held \cup thrownOut)
        = Cardinality(Numbers(stack)) + Cardinality(Taken)
            + Cardinality(Held) + Cardinality(thrownOut)
  BY <1>0, <1>1, <1>3, <1>4, CountOfApart DEF EachInOnePlace
<1>. QED  BY <1>0, <1>1, <1>2, <1>5 DEF EachInOnePlace

\* Whatever the two threads do to the stack, every entry that was made is on it, in the
\* hands of the update, undone, or thrown out, and in one of these places only: none is
\* lost, none is undone twice and none is undone and kept; unless one thread takes the
\* very entry that the other has read.
THEOREM EntriesAlwaysAccountedFor == Spec => []EntriesAccountedFor
BY InitEstablishesEntriesInv, StepKeepsEntriesInv, InvCounts, PTL DEF Spec


----------------------------------------------------------------------------
(***************************************************************************)
(* An update that nothing came into is UpdateEditStack.  While it is under *)
(* way the stack is a ring: what was there when it began is divided into   *)
(* the entries that were taken, perhaps the one in hand, and the rest; the *)
(* rest is still at the front, and behind it is what taking the others has *)
(* put back.                                                               *)
(***************************************************************************)

Updating == INSTANCE FoldProofs WITH Step <- PutBack

Divides(taken, rest, putBack) ==
  /\ before = (IF update.at = "entry" THEN Append(taken, update.temp) ELSE taken) \o rest
  /\ stack = rest \o putBack
  /\ Len(rest) = StillToTake
  /\ update.at = "read" => Head(rest) = update.temp
  /\ EditsOf(putBack) = UpdateEditStack(EditsOf(taken), update.action)

UpdateUnderWay ==
  update.at # "idle" /\ ~intoUpdate =>
    \E taken, rest, putBack \in Seq(StackEntry) : Divides(taken, rest, putBack)

RingInv == RaceInv /\ UpdateUnderWay

\* UpdateEditStack takes one entry after the other.
LEMMA UpdateOfAppend ==
  ASSUME NEW entries \in Seq(Action), NEW e \in Action, NEW p
  PROVE  UpdateEditStack(Append(entries, e), p)
           = PutBack(p, UpdateEditStack(entries, p), e)
<1>1. \A s : UpdateEditStack(s, p) = Updating!Looped(p, <<>>, s)
  BY DEF UpdateEditStack, Updating!Looped, FoldLeft, Updating!FoldLeft,
         MapThenFoldSet, Updating!MapThenFoldSet, Max, Updating!Max
<1>2. Updating!Looped(p, <<>>, Append(entries, e))
        = PutBack(p, Updating!Looped(p, <<>>, entries), e)
  BY Updating!LoopOfAppend
<1>. QED  BY <1>1, <1>2

LEMMA UpdateOfNothing ==
  ASSUME NEW p
  PROVE  UpdateEditStack(<<>>, p) = <<>>
<1>1. UpdateEditStack(<<>>, p) = Updating!Looped(p, <<>>, <<>>)
  BY DEF UpdateEditStack, Updating!Looped, FoldLeft, Updating!FoldLeft,
         MapThenFoldSet, Updating!MapThenFoldSet, Max, Updating!Max
<1>. QED  BY <1>1, Updating!LoopOfNothing

\* The edits of a stack that is longer by one entry.
LEMMA EditsOfAppend ==
  ASSUME NEW entries \in Seq(StackEntry), NEW entry \in StackEntry
  PROVE  /\ EditsOf(entries) \in Seq(Action)
         /\ EditsOf(<<>>) = <<>>
         /\ EditsOf(Append(entries, entry)) = Append(EditsOf(entries), entry.edit)
<1>. DEFINE longer == Append(entries, entry)
<1>1. /\ Len(entries) \in Nat /\ DOMAIN entries = 1 .. Len(entries)
      /\ \A i \in 1 .. Len(entries) : entries[i] \in StackEntry
  BY LenProperties, ElementOfSeq
<1>2. /\ longer \in Seq(StackEntry) /\ Len(longer) = Len(entries) + 1
      /\ \A i \in 1 .. Len(entries) : longer[i] = entries[i]
      /\ longer[Len(entries) + 1] = entry
      /\ DOMAIN longer = 1 .. Len(entries) + 1
  BY AppendProperties, LenProperties
<1>. HIDE DEF longer
<1>3. EditsOf(entries) \in Seq(Action) /\ Len(EditsOf(entries)) = Len(entries)
  BY <1>1, IsASeq DEF EditsOf, StackEntry
<1>4. EditsOf(longer) \in Seq(Action) /\ Len(EditsOf(longer)) = Len(entries) + 1
  <2>1. \A i \in 1 .. Len(entries) + 1 : longer[i] \in StackEntry
    BY <1>2, ElementOfSeq
  <2>. QED  BY <1>1, <1>2, <2>1, IsASeq DEF EditsOf, StackEntry
<1>5. entry.edit \in Action
  BY DEF StackEntry
<1>6. Append(EditsOf(entries), entry.edit) \in Seq(Action)
      /\ Len(Append(EditsOf(entries), entry.edit)) = Len(entries) + 1
      /\ \A i \in 1 .. Len(entries) :
           Append(EditsOf(entries), entry.edit)[i] = EditsOf(entries)[i]
      /\ Append(EditsOf(entries), entry.edit)[Len(entries) + 1] = entry.edit
  BY <1>3, <1>5, AppendProperties
<1>7. \A i \in 1 .. Len(entries) + 1 :
        EditsOf(longer)[i] = Append(EditsOf(entries), entry.edit)[i]
  BY <1>1, <1>2, <1>6 DEF EditsOf
<1>8. EditsOf(longer) = Append(EditsOf(entries), entry.edit)
  BY <1>1, <1>4, <1>6, <1>7, SeqEqual
<1>9. EditsOf(<<>>) = <<>>
  BY DEF EditsOf
<1>. QED  BY <1>3, <1>8, <1>9 DEF longer

\* What is put back of an entry is an entry's edit again.
LEMMA UpdateOfMore ==
  ASSUME NEW taken \in Seq(StackEntry), NEW putBack \in Seq(StackEntry),
         NEW temp \in StackEntry, NEW p \in Action,
         EditsOf(putBack) = UpdateEditStack(EditsOf(taken), p)
  PROVE  LET moved == [temp EXCEPT !.edit = Shifted(@, p)]
             after == IF BrokenUp(temp.edit, p) THEN putBack ELSE Append(putBack, moved)
         IN  EditsOf(after) = UpdateEditStack(EditsOf(Append(taken, temp)), p)
<1>. DEFINE moved == [temp EXCEPT !.edit = Shifted(@, p)]
<1>1. temp.edit \in Action /\ Shifted(temp.edit, p) \in Action
  BY ShiftedType DEF StackEntry
<1>2. moved \in StackEntry /\ moved.edit = Shifted(temp.edit, p)
  BY <1>1 DEF StackEntry
<1>. HIDE DEF moved
<1>3. UpdateEditStack(EditsOf(Append(taken, temp)), p)
        = PutBack(p, EditsOf(putBack), temp.edit)
  <2>1. EditsOf(taken) \in Seq(Action)
        /\ EditsOf(Append(taken, temp)) = Append(EditsOf(taken), temp.edit)
    BY EditsOfAppend
  <2>2. UpdateEditStack(Append(EditsOf(taken), temp.edit), p)
          = PutBack(p, UpdateEditStack(EditsOf(taken), p), temp.edit)
    BY <1>1, <2>1, UpdateOfAppend
  <2>. QED  BY <2>1, <2>2
<1>4. EditsOf(Append(putBack, moved)) = Append(EditsOf(putBack), Shifted(temp.edit, p))
  BY <1>2, EditsOfAppend
<1>. QED  BY <1>3, <1>4 DEF PutBack, moved

\* One entry passes from the front of the rest to the end of those that were taken.
LEMMA DivideFurther ==
  ASSUME NEW taken \in Seq(StackEntry), NEW rest \in Seq(StackEntry),
         NEW putBack \in Seq(StackEntry), rest # <<>>
  PROVE  /\ Head(rest) \in StackEntry /\ Tail(rest) \in Seq(StackEntry)
         /\ Append(taken, Head(rest)) \in Seq(StackEntry)
         /\ Len(Tail(rest)) = Len(rest) - 1
         /\ rest \o putBack # <<>>
         /\ Head(rest \o putBack) = Head(rest)
         /\ Tail(rest \o putBack) = Tail(rest) \o putBack
         /\ taken \o rest = Append(taken, Head(rest)) \o Tail(rest)
<1>. DEFINE first == Head(rest)
            others == Tail(rest)
<1>1. /\ first \in StackEntry /\ others \in Seq(StackEntry)
      /\ Len(others) = Len(rest) - 1
      /\ \A i \in 1 .. Len(others) : others[i] = rest[i + 1]
      /\ first = rest[1]
  BY HeadTailProperties, EmptySeq
<1>2. /\ Len(rest) \in Nat /\ Len(rest) # 0
      /\ Len(taken) \in Nat /\ Len(putBack) \in Nat
  BY LenProperties, EmptySeq
<1>3. /\ Append(taken, first) \in Seq(StackEntry)
      /\ Len(Append(taken, first)) = Len(taken) + 1
      /\ \A i \in 1 .. Len(taken) : Append(taken, first)[i] = taken[i]
      /\ Append(taken, first)[Len(taken) + 1] = first
  BY <1>1, AppendProperties
<1>. HIDE DEF first, others
<1>4. /\ rest \o putBack \in Seq(StackEntry)
      /\ Len(rest \o putBack) = Len(rest) + Len(putBack)
      /\ \A i \in 1 .. Len(rest) + Len(putBack) :
           (rest \o putBack)[i] = IF i <= Len(rest) THEN rest[i] ELSE putBack[i - Len(rest)]
  BY ConcatProperties
<1>5. /\ rest \o putBack # <<>>
      /\ Head(rest \o putBack) = first
      /\ Tail(rest \o putBack) \in Seq(StackEntry)
      /\ Len(Tail(rest \o putBack)) = Len(rest) + Len(putBack) - 1
      /\ \A i \in 1 .. Len(rest) + Len(putBack) - 1 :
           Tail(rest \o putBack)[i] = (rest \o putBack)[i + 1]
  <2>1. rest \o putBack # <<>>
    BY <1>2, <1>4, EmptySeq
  <2>2. Head(rest \o putBack) = (rest \o putBack)[1]
    BY <1>4, <2>1, HeadTailProperties
  <2>3. (rest \o putBack)[1] = rest[1]
    BY <1>2, <1>4
  <2>. QED  BY <1>1, <1>4, <2>1, <2>2, <2>3, HeadTailProperties
<1>6. /\ others \o putBack \in Seq(StackEntry)
      /\ Len(others \o putBack) = Len(rest) + Len(putBack) - 1
      /\ \A i \in 1 .. Len(rest) + Len(putBack) - 1 :
           (others \o putBack)[i]
             = IF i <= Len(others) THEN others[i] ELSE putBack[i - Len(others)]
  <2>1. Len(others) + Len(putBack) = Len(rest) + Len(putBack) - 1
    BY <1>1, <1>2
  <2>2. /\ others \o putBack \in Seq(StackEntry)
        /\ Len(others \o putBack) = Len(others) + Len(putBack)
        /\ \A i \in 1 .. Len(others) + Len(putBack) :
             (others \o putBack)[i]
               = IF i <= Len(others) THEN others[i] ELSE putBack[i - Len(others)]
    BY <1>1, ConcatProperties
  <2>. QED  BY <2>1, <2>2
<1>7. Tail(rest \o putBack) = others \o putBack
  <2>1. ASSUME NEW i \in 1 .. Len(rest) + Len(putBack) - 1
        PROVE  Tail(rest \o putBack)[i] = (others \o putBack)[i]
    <3>1. i + 1 \in 1 .. Len(rest) + Len(putBack) /\ i \in Nat
      BY <1>2
    <3>2. Tail(rest \o putBack)[i]
            = IF i + 1 <= Len(rest) THEN rest[i + 1] ELSE putBack[i + 1 - Len(rest)]
      BY <1>4, <1>5, <3>1
    <3>3. i <= Len(others) <=> i + 1 <= Len(rest)
      BY <1>1, <1>2, <3>1
    <3>4. i - Len(others) = i + 1 - Len(rest)
      BY <1>1, <1>2, <3>1
    <3>5. i <= Len(others) => others[i] = rest[i + 1]
      BY <1>1, <1>2, <3>1
    <3>. QED  BY <1>6, <3>2, <3>3, <3>4, <3>5
  <2>. QED  BY <1>5, <1>6, <2>1, SeqEqual
<1>8. taken \o rest = Append(taken, first) \o others
  <2>1. /\ taken \o rest \in Seq(StackEntry)
        /\ Len(taken \o rest) = Len(taken) + Len(rest)
        /\ \A i \in 1 .. Len(taken) + Len(rest) :
             (taken \o rest)[i] = IF i <= Len(taken) THEN taken[i] ELSE rest[i - Len(taken)]
    BY ConcatProperties
  <2>2. /\ Append(taken, first) \o others \in Seq(StackEntry)
        /\ Len(Append(taken, first) \o others) = Len(taken) + Len(rest)
        /\ \A i \in 1 .. Len(taken) + Len(rest) :
             (Append(taken, first) \o others)[i]
               = IF i <= Len(taken) + 1 THEN Append(taken, first)[i]
                 ELSE others[i - (Len(taken) + 1)]
    <3>. DEFINE more == Append(taken, first)
    <3>0. more \in Seq(StackEntry) /\ Len(more) = Len(taken) + 1
      BY <1>3
    <3>. HIDE DEF more
    <3>1. /\ more \o others \in Seq(StackEntry)
          /\ Len(more \o others) = Len(more) + Len(others)
          /\ \A i \in 1 .. Len(more) + Len(others) :
               (more \o others)[i]
                 = IF i <= Len(more) THEN more[i] ELSE others[i - Len(more)]
      BY <1>1, <3>0, ConcatProperties
    <3>2. Len(more) + Len(others) = Len(taken) + Len(rest)
      BY <1>1, <1>2, <3>0
    <3>3. /\ more \o others \in Seq(StackEntry)
          /\ Len(more \o others) = Len(taken) + Len(rest)
          /\ \A i \in 1 .. Len(taken) + Len(rest) :
               (more \o others)[i]
                 = IF i <= Len(taken) + 1 THEN more[i] ELSE others[i - (Len(taken) + 1)]
      BY <3>0, <3>1, <3>2
    <3>. QED  BY <3>3 DEF more
  <2>3. ASSUME NEW i \in 1 .. Len(taken) + Len(rest)
        PROVE  (taken \o rest)[i] = (Append(taken, first) \o others)[i]
    <3>1. CASE i <= Len(taken)
      <4>1. i <= Len(taken) + 1 /\ i \in 1 .. Len(taken)
        BY <1>2, <3>1
      <4>. QED  BY <1>3, <2>1, <2>2, <3>1, <4>1
    <3>2. CASE i = Len(taken) + 1
      <4>1. (taken \o rest)[i] = rest[1]
        <5>1. ~(i <= Len(taken)) /\ i - Len(taken) = 1
          BY <1>2, <3>2
        <5>. QED  BY <2>1, <5>1
      <4>. QED  BY <1>1, <1>2, <1>3, <2>2, <3>2, <4>1
    <3>3. CASE i > Len(taken) + 1
      <4>1. /\ ~(i <= Len(taken)) /\ ~(i <= Len(taken) + 1)
            /\ i - (Len(taken) + 1) \in 1 .. Len(others)
            /\ i - (Len(taken) + 1) + 1 = i - Len(taken)
        BY <1>1, <1>2, <3>3
      <4>2. others[i - (Len(taken) + 1)] = rest[i - Len(taken)]
        BY <1>1, <4>1
      <4>. QED  BY <2>1, <2>2, <4>1, <4>2
    <3>4. i \in Nat /\ (i <= Len(taken) \/ i = Len(taken) + 1 \/ i > Len(taken) + 1)
      BY <1>2
    <3>. QED  BY <3>1, <3>2, <3>3, <3>4
  <2>. QED  BY <1>2, <2>1, <2>2, <2>3, SeqEqual
<1>. QED  BY <1>1, <1>3, <1>5, <1>7, <1>8 DEF first, others

\* The same with what follows the step put back at the end.
LEMMA ConcatAppend ==
  ASSUME NEW rest \in Seq(StackEntry), NEW putBack \in Seq(StackEntry),
         NEW entry \in StackEntry
  PROVE  Append(rest \o putBack, entry) = rest \o Append(putBack, entry)
<1>1. <<entry>> \in Seq(StackEntry)
  OBVIOUS
<1>2. rest \o putBack \in Seq(StackEntry)
  BY ConcatProperties
<1>3. Append(rest \o putBack, entry) = (rest \o putBack) \o <<entry>>
  BY <1>2, AppendIsConcat
<1>4. (rest \o putBack) \o <<entry>> = rest \o (putBack \o <<entry>>)
  BY <1>1, ConcatAssociative
<1>5. Append(putBack, entry) = putBack \o <<entry>>
  BY AppendIsConcat
<1>. QED  BY <1>3, <1>4, <1>5

----------------------------------------------------------------------------
(***************************************************************************)
(* The ring is inductive                                                   *)
(***************************************************************************)

LEMMA RingTypes ==
  ASSUME RaceInv
  PROVE  /\ stack \in Seq(StackEntry)
         /\ update.at \in {"idle", "loop", "counted", "read", "entry"}
         /\ update.at # "idle" => update.left \in Nat /\ update.action \in Action
         /\ update.at = "loop" =>
              update = [at |-> "loop", action |-> update.action, left |-> update.left]
         /\ update.at = "read" =>
              update = [at |-> "read", action |-> update.action, left |-> update.left,
                        temp |-> update.temp]
         /\ update.at = "entry" => /\ update.temp \in StackEntry \cup {NoEntry}
                                   /\ ~intoUpdate => update.temp # NoEntry
         /\ intoUpdate \in BOOLEAN
<1>1. RaceTypeOK /\ EntriesAreThere
  BY DEF RaceInv
<1>. QED
  BY <1>1, UpdateKinds, PlacementsAssumption DEF RaceTypeOK, EntriesAreThere

\* As the framework's thread comes to its next step with the ring as it was.
LEMMA RingStandsStill ==
  ASSUME UpdateUnderWay, update.at # "idle",
         UNCHANGED <<stack, before, intoUpdate>>,
         update'.at # "entry", update.at # "entry",
         update'.action = update.action, StillToTake' = StillToTake,
         \A rest \in Seq(StackEntry) :
           update'.at = "read" /\ ~intoUpdate /\ Len(rest) = StillToTake
             /\ (\E putBack \in Seq(StackEntry) : stack = rest \o putBack)
             /\ (update.at = "read" => Head(rest) = update.temp)
           => Head(rest) = update'.temp
  PROVE  UpdateUnderWay'
<1>. SUFFICES ASSUME ~intoUpdate'
              PROVE  \E taken, rest, putBack \in Seq(StackEntry) :
                       Divides(taken, rest, putBack)'
  BY DEF UpdateUnderWay
<1>1. PICK taken, rest, putBack \in Seq(StackEntry) : Divides(taken, rest, putBack)
  BY DEF UpdateUnderWay
<1>2. /\ before = taken \o rest /\ stack = rest \o putBack /\ Len(rest) = StillToTake
      /\ update.at = "read" => Head(rest) = update.temp
      /\ EditsOf(putBack) = UpdateEditStack(EditsOf(taken), update.action)
  BY <1>1 DEF Divides
<1>3. update'.at = "read" => Head(rest) = update'.temp
  BY <1>2
<1>4. Divides(taken, rest, putBack)'
  BY <1>2, <1>3 DEF Divides, EditsOf
<1>. QED  BY <1>4

LEMMA BeginUpdateMakesRing ==
  ASSUME RaceInv, BeginUpdate
  PROVE  UpdateUnderWay'
<1>1. PICK p \in Placements :
        update' = [at |-> "loop", action |-> p, left |-> Len(stack)]
  BY DEF BeginUpdate, Iterations
<1>2. before' = stack /\ stack' = stack /\ stack \in Seq(StackEntry)
  BY RingTypes DEF BeginUpdate
<1>3. <<>> \in Seq(StackEntry) /\ <<>> \o stack = stack /\ stack \o <<>> = stack
  BY <1>2, EmptySeq, ConcatEmptySeq
<1>4. EditsOf(<<>>) = UpdateEditStack(EditsOf(<<>>), p)
  <2>1. EditsOf(<<>>) = <<>>
    BY DEF EditsOf
  <2>. QED  BY <2>1, UpdateOfNothing
<1>5. update'.at = "loop" /\ StillToTake' = Len(stack) /\ update'.action = p
  BY <1>1 DEF StillToTake
<1>6. Divides(<<>>, stack, <<>>)'
  BY <1>2, <1>3, <1>4, <1>5 DEF Divides, EditsOf
<1>. QED  BY <1>2, <1>3, <1>6 DEF UpdateUnderWay

LEMMA CountFrontKeepsRing ==
  ASSUME RaceInv, UpdateUnderWay, CountFront
  PROVE  UpdateUnderWay'
<1>1. /\ update.at = "loop" /\ update.left > 0 /\ update.left \in Nat
      /\ UNCHANGED <<stack, before, intoUpdate>>
      /\ update = [at |-> "loop", action |-> update.action, left |-> update.left]
  BY RingTypes DEF CountFront
<1>2. CASE stack = <<>>
  <2>1. update.left <= Len(stack) \/ intoUpdate
    BY <1>1 DEF RaceInv, EntriesAreThere, StillToTake
  <2>2. intoUpdate
    BY <1>1, <1>2, <2>1, EmptySeq
  <2>. QED  BY <1>1, <2>2 DEF UpdateUnderWay
<1>3. CASE stack # <<>>
  <2>1. update' = [update EXCEPT !.at = "counted", !.left = @ - 1]
    BY <1>3 DEF CountFront
  <2>2. update' = [at |-> "counted", action |-> update.action, left |-> update.left - 1]
    BY <1>1, <2>1
  <2>3. /\ update'.at = "counted" /\ update'.action = update.action
        /\ StillToTake' = StillToTake
    BY <1>1, <2>2 DEF StillToTake
  <2>. QED  BY <1>1, <2>3, RingStandsStill
<1>. QED  BY <1>2, <1>3

LEMMA ReadFrontKeepsRing ==
  ASSUME RaceInv, UpdateUnderWay, ReadFront
  PROVE  UpdateUnderWay'
<1>1. /\ update.at = "counted" /\ update.left \in Nat
      /\ UNCHANGED <<stack, before, intoUpdate>>
      /\ stack \in Seq(StackEntry)
  BY RingTypes DEF ReadFront
<1>2. CASE stack = <<>>
  <2>1. update' = update
    BY <1>2 DEF ReadFront
  <2>2. StillToTake' = StillToTake
    BY <2>1 DEF StillToTake
  <2>. QED  BY <1>1, <2>1, <2>2, RingStandsStill
<1>3. CASE stack # <<>>
  <2>1. update' = [at |-> "read", action |-> update.action,
                   left |-> update.left, temp |-> Head(stack)]
    BY <1>3 DEF ReadFront
  <2>2. /\ update'.at = "read" /\ update'.action = update.action
        /\ StillToTake' = StillToTake /\ StillToTake = update.left + 1
        /\ update'.temp = Head(stack)
    BY <1>1, <2>1 DEF StillToTake
  <2>3. ASSUME NEW rest \in Seq(StackEntry), Len(rest) = StillToTake,
               NEW putBack \in Seq(StackEntry), stack = rest \o putBack
        PROVE  Head(rest) = update'.temp
    <3>1. rest # <<>>
      BY <1>1, <2>2, <2>3, EmptySeq
    <3>2. Head(rest \o putBack) = Head(rest)
      <4>1. <<>> \in Seq(StackEntry)
        BY EmptySeq
      <4>. QED  BY <3>1, <4>1, DivideFurther
    <3>. QED  BY <2>2, <2>3, <3>2
  <2>. QED  BY <1>1, <2>2, <2>3, RingStandsStill
<1>. QED  BY <1>2, <1>3

LEMMA RemoveFrontKeepsRing ==
  ASSUME RaceInv, UpdateUnderWay, RemoveFront
  PROVE  UpdateUnderWay'
<1>. SUFFICES ASSUME ~intoUpdate'
              PROVE  \E taken, rest, putBack \in Seq(StackEntry) :
                       Divides(taken, rest, putBack)'
  BY DEF UpdateUnderWay
<1>1. /\ update.at = "read" /\ update.left \in Nat /\ ~intoUpdate
      /\ UNCHANGED <<before, intoUpdate>>
      /\ update = [at |-> "read", action |-> update.action, left |-> update.left,
                   temp |-> update.temp]
  BY RingTypes DEF RemoveFront
<1>2. PICK taken, rest, putBack \in Seq(StackEntry) : Divides(taken, rest, putBack)
  BY <1>1 DEF UpdateUnderWay
<1>3. /\ before = taken \o rest /\ stack = rest \o putBack
      /\ Len(rest) = update.left + 1 /\ Head(rest) = update.temp
      /\ EditsOf(putBack) = UpdateEditStack(EditsOf(taken), update.action)
  BY <1>1, <1>2 DEF Divides, StillToTake
<1>4. rest # <<>> /\ Len(rest) \in Nat
  BY <1>1, <1>3, EmptySeq, LenProperties
<1>5. stack # <<>> /\ Tail(stack) = Tail(rest) \o putBack
      /\ Tail(rest) \in Seq(StackEntry) /\ Len(Tail(rest)) = Len(rest) - 1
      /\ taken \o rest = Append(taken, Head(rest)) \o Tail(rest)
  BY <1>3, <1>4, DivideFurther
<1>6. stack' = Tail(rest) \o putBack /\ update' = [update EXCEPT !.at = "entry"]
  BY <1>5 DEF RemoveFront, WithoutFront
<1>7. update' = [at |-> "entry", action |-> update.action, left |-> update.left,
                 temp |-> update.temp]
  BY <1>1, <1>6
<1>8. /\ update'.at = "entry" /\ update'.action = update.action
      /\ StillToTake' = update.left /\ update'.temp = Head(rest)
      /\ Len(Tail(rest)) = update.left
  BY <1>1, <1>3, <1>5, <1>7 DEF StillToTake
<1>9. Divides(taken, Tail(rest), putBack)'
  BY <1>1, <1>3, <1>5, <1>6, <1>8 DEF Divides, EditsOf
<1>. QED  BY <1>5, <1>9

LEMMA PushBackKeepsRing ==
  ASSUME RaceInv, UpdateUnderWay, PushBackUnlessBroken
  PROVE  UpdateUnderWay'
<1>. SUFFICES ASSUME ~intoUpdate'
              PROVE  \E taken, rest, putBack \in Seq(StackEntry) :
                       Divides(taken, rest, putBack)'
  BY DEF UpdateUnderWay
<1>1. /\ update.at = "entry" /\ ~intoUpdate
      /\ UNCHANGED <<before, intoUpdate>>
      /\ update.temp \in StackEntry /\ update.temp # NoEntry /\ update.action \in Action
  BY RingTypes DEF PushBackUnlessBroken
<1>2. PICK temp \in StackEntry, p \in Action : temp = update.temp /\ p = update.action
  BY <1>1
<1>. DEFINE moved == [temp EXCEPT !.edit = Shifted(@, p)]
<1>3. PICK taken, rest, putBack \in Seq(StackEntry) : Divides(taken, rest, putBack)
  BY <1>1 DEF UpdateUnderWay
<1>4. /\ before = Append(taken, temp) \o rest /\ stack = rest \o putBack
      /\ Len(rest) = update.left
      /\ EditsOf(putBack) = UpdateEditStack(EditsOf(taken), p)
  BY <1>1, <1>2, <1>3 DEF Divides, StillToTake
<1>. DEFINE after == IF BrokenUp(temp.edit, p) THEN putBack ELSE Append(putBack, moved)
<1>5. moved \in StackEntry
  BY MovedType
<1>6. after \in Seq(StackEntry) /\ Append(taken, temp) \in Seq(StackEntry)
  BY <1>5, AppendProperties
<1>7. EditsOf(after) = UpdateEditStack(EditsOf(Append(taken, temp)), p)
  BY <1>4, UpdateOfMore
<1>8. stack' = rest \o after
  <2>1. CASE BrokenUp(temp.edit, p)
    BY <1>1, <1>2, <1>4, <2>1 DEF PushBackUnlessBroken
  <2>2. CASE ~BrokenUp(temp.edit, p)
    <3>1. stack' = Append(stack, moved)
      BY <1>1, <1>2, <2>2 DEF PushBackUnlessBroken, PushBack
    <3>. QED  BY <1>4, <1>5, <2>2, <3>1, ConcatAppend
  <2>. QED  BY <2>1, <2>2
<1>9. update'.at = "loop" /\ update'.action = p /\ StillToTake' = update.left
  <2>1. update' = [at |-> "loop", action |-> p, left |-> update.left]
    BY <1>1, <1>2 DEF PushBackUnlessBroken
  <2>. QED  BY <2>1 DEF StillToTake
<1>. HIDE DEF after
<1>10. Divides(Append(taken, temp), rest, after)'
  BY <1>1, <1>4, <1>7, <1>8, <1>9 DEF Divides, EditsOf
<1>. QED  BY <1>6, <1>10

\* The main thread leaves the ring alone, or is known to have come into the update.
LEMMA MainThreadKeepsRing ==
  ASSUME UpdateUnderWay, PressUndo \/ ReadBack \/ RemoveBack \/ Clear
  PROVE  UpdateUnderWay'
<1>1. UNCHANGED <<update, before>>
  BY DEF PressUndo, ReadBack, RemoveBack, Clear
<1>2. update.at # "idle" /\ ~intoUpdate' => ~intoUpdate /\ stack' = stack
  BY DEF PressUndo, ReadBack, RemoveBack, Clear
<1>3. StillToTake' = StillToTake
  BY <1>1 DEF StillToTake
<1>. SUFFICES ASSUME update.at # "idle", ~intoUpdate'
              PROVE  \E taken, rest, putBack \in Seq(StackEntry) :
                       Divides(taken, rest, putBack)'
  BY <1>1 DEF UpdateUnderWay
<1>4. stack' = stack
  BY <1>2
<1>5. PICK taken, rest, putBack \in Seq(StackEntry) : Divides(taken, rest, putBack)
  BY <1>2 DEF UpdateUnderWay
<1>6. Divides(taken, rest, putBack)'
  BY <1>1, <1>3, <1>4, <1>5 DEF Divides, EditsOf
<1>. QED  BY <1>6

LEMMA InitEstablishesRingInv == Init => RingInv
BY InitEstablishesRaceInv DEF Init, Idle, RingInv, UpdateUnderWay

LEMMA StepKeepsRingInv == RingInv /\ [Next]_vars => RingInv'
<1>. SUFFICES ASSUME RingInv, [Next]_vars PROVE UpdateUnderWay'
  BY StepKeepsRaceInv DEF RingInv
<1>1. CASE EndUpdate
  BY <1>1 DEF EndUpdate, UpdateUnderWay, Idle
<1>2. CASE UNCHANGED vars
  BY <1>2 DEF vars, RingInv, UpdateUnderWay, Divides, EditsOf, StillToTake
<1>. QED
  BY <1>1, <1>2, BeginUpdateMakesRing, CountFrontKeepsRing, ReadFrontKeepsRing,
     RemoveFrontKeepsRing, PushBackKeepsRing, MainThreadKeepsRing DEF RingInv, Next

\* When the loop has taken all there was, the ring is what it put back.
LEMMA RingComesRound == RingInv => UpdateIsAtomicUnlessRaced
<1>. SUFFICES ASSUME RingInv, update.at = "loop", update.left = 0, ~intoUpdate
              PROVE  EditsOf(stack) = UpdateEditStack(EditsOf(before), update.action)
  BY DEF UpdateIsAtomicUnlessRaced
<1>1. PICK taken, rest, putBack \in Seq(StackEntry) : Divides(taken, rest, putBack)
  BY DEF RingInv, UpdateUnderWay
<1>2. /\ before = taken \o rest /\ stack = rest \o putBack /\ Len(rest) = 0
      /\ EditsOf(putBack) = UpdateEditStack(EditsOf(taken), update.action)
  BY <1>1 DEF Divides, StillToTake
<1>3. rest = <<>>
  BY <1>2, EmptySeq
<1>4. taken \o <<>> = taken /\ <<>> \o putBack = putBack
  BY ConcatEmptySeq
<1>. QED  BY <1>2, <1>3, <1>4

\* Whatever is rendered and however long the stack: an update during which the main
\* thread took nothing off the stack leaves exactly what EditStacks says, which has it as
\* one step.  The other modules are right to do so wherever there is no race.
THEOREM UnracedUpdateIsAlwaysAtomic == Spec => []UpdateIsAtomicUnlessRaced
BY InitEstablishesRingInv, StepKeepsRingInv, RingComesRound, PTL DEF Spec
=============================================================================
