---------------------------- MODULE ChannelProofs ----------------------------
(***************************************************************************)
(* Proofs about a Discord channel, from what people say to the turns of a  *)
(* box, for any catch-ups, sessions, queues, pages and bounds.             *)
(*                                                                         *)
(* Whatever runs beside whatever, one task goes through the channel in     *)
(* order (FilesInOrder).  Where no catch-up has met a connection, the      *)
(* tasks take turns at the cursor (Alone): it is at the message in hand,   *)
(* the history lies before it (Grows), what waits for a box lies between   *)
(* the last turn and that message (Queued), and what lies before it is in  *)
(* the history, in hand, or was cut short (Covered).                       *)
(***************************************************************************)
EXTENDS Conversation, SequenceTheorems, TLAPS

\* What a catch-up can be asked to fetch is within its pages.
WithinPages == MaxSaid <= MaxPages * PageSize

CatchUpStep == {"idle", "cursor", "page", "each", "handle"}

CatchUp == [step : CatchUpStep, pass : Nat, after : 0..MaxSaid, pages : Nat, full : BOOLEAN,
            msgs : Seq(Message)]

Hand == [msg : 0..MaxSaid, step : {"none", "file", "route", "open"}]

Entry == [msg : Message, by : Nat]

TypeOK ==
  /\ said \in 0..MaxSaid
  /\ cursor \in [at : 0..MaxSaid, there : BOOLEAN]
  /\ link \in {"down", "up", "lost"}
  /\ seen \in 0..MaxSaid
  /\ hand \in [Handlers -> Hand]
  /\ catchUp \in [CatchUps -> CatchUp]
  /\ passes \in Nat /\ baseline \in 0..MaxSaid /\ missed \in SUBSET Nat /\ crossed \in BOOLEAN
  /\ faults \in [drops : Nat, hiccups : Nat, crashes : Nat]
  /\ history \in Seq(Entry)

Busy(c) == catchUp[c].step # "idle"
Held(h) == hand[h].step # "none"

\* A catch-up is where its step says: its page is what follows the message it is at.
Place(k) ==
  /\ k.step = "idle" => k = Idle
  /\ k.step = "cursor" => k.after = 0
  /\ k.step = "page" => k.after <= said /\ k.pages > 0
  /\ k.step = "each" =>
       /\ Len(k.msgs) > 0 /\ k.after + Len(k.msgs) <= said
       /\ \A i \in 1..Len(k.msgs) : k.msgs[i] = k.after + i
  /\ k.step = "handle" =>
       /\ Len(k.msgs) > 0 /\ k.after - 1 + Len(k.msgs) <= said /\ k.after > 0
       /\ \A i \in 1..Len(k.msgs) : k.msgs[i] = k.after - 1 + i

\* A task holds a message while it handles it, and no other.
InStep ==
  /\ \A c \in CatchUps : Place(catchUp[c])
  /\ \A h \in Handlers : ~Held(h) => hand[h] = Empty
  /\ \A c \in CatchUps : IF catchUp[c].step = "handle" THEN Held(c) /\ hand[c].msg = catchUp[c].after
                         ELSE ~Held(c)
  /\ Held(Reader) => link = "up" /\ hand[Reader].msg = seen /\ seen > 0
  /\ seen <= said /\ cursor.at <= said /\ (~cursor.there => cursor.at = 0)

\* Every catch-up has a number of its own.
Numbered ==
  /\ \A c \in CatchUps : Busy(c) => catchUp[c].pass \in 1..passes
  /\ \A c, d \in CatchUps : Busy(c) /\ Busy(d) /\ catchUp[c].pass = catchUp[d].pass => c = d

\* What a task has filed lies before what it files next.
Behind(e) ==
  /\ e.msg <= said /\ e.by <= passes
  /\ e.by = 0 => /\ link # "down" => e.msg <= seen
                 /\ hand[Reader].step = "file" => e.msg < seen
  /\ \A c \in CatchUps : Busy(c) /\ catchUp[c].pass = e.by =>
       /\ e.msg <= catchUp[c].after
       /\ hand[c].step = "file" => e.msg < catchUp[c].after

Rises == \A i, j \in 1..Len(history) :
  i < j /\ history[i].by = history[j].by => history[i].msg < history[j].msg

FilesInOrder == Rises /\ \A i \in 1..Len(history) : Behind(history[i])

\* Where a catch-up has met no connection, one task at a time moves the cursor, to the
\* message it handles.
Alone ==
  /\ \A c, d \in CatchUps : Busy(c) /\ Busy(d) => c = d
  /\ \A c \in CatchUps : Busy(c) => ~Held(Reader)
  /\ \A c \in CatchUps : catchUp[c].step \in {"page", "each", "handle"} => cursor = At(catchUp[c].after)
  /\ Held(Reader) => cursor = At(seen)
  /\ ~cursor.there => baseline = 0
  /\ link # "down" =>
       /\ cursor.at <= seen
       /\ \A c \in CatchUps :
            /\ catchUp[c].step = "each" => catchUp[c].after + Len(catchUp[c].msgs) <= seen
            /\ catchUp[c].step = "handle" => catchUp[c].after - 1 + Len(catchUp[c].msgs) <= seen

\* The history follows the cursor.
Grows ==
  /\ \A i, j \in 1..Len(history) : i < j => history[i].msg < history[j].msg
  /\ \A i \in 1..Len(history) :
       /\ history[i].msg <= cursor.at
       /\ \A h \in Handlers : hand[h].step = "file" => history[i].msg < hand[h].msg

\* What is still to be fetched once `last` is handled.
Remains(k, last) ==
  IF k.full /\ k.pages > 0 THEN MaxSaid - last <= k.pages * PageSize ELSE seen <= last

Pages == \A c \in CatchUps : LET k == catchUp[c] IN
  /\ k.step = "page" => MaxSaid - k.after <= k.pages * PageSize
  /\ k.step = "each" => Remains(k, k.after + Len(k.msgs))
  /\ k.step = "handle" => Remains(k, k.after - 1 + Len(k.msgs))

\* Filed, cut short, or about to be filed.
Kept(m) == m \in missed \/ \E i \in 1..Len(history) : history[i].msg = m
Coming(m) == Kept(m) \/ \E h \in Handlers : hand[h].step = "file" /\ hand[h].msg = m

\* Everything before the cursor is kept, but for what is under way; so is everything a
\* connection has shown, once it has caught up.
Covered ==
  /\ \A m \in (baseline + 1)..cursor.at : Coming(m)
  /\ link # "down" /\ (\A c \in CatchUps : ~Busy(c)) => \A m \in (baseline + 1)..seen : Coming(m)

Session == [state : SessionState, queue : Seq(Message)]

SessionsTyped ==
  /\ sender \in Sessions \cup {None}
  /\ session \in [Sessions -> Session]
  /\ turned \in 0..MaxSaid /\ shuffled \in BOOLEAN /\ crowded \in BOOLEAN

\* The session the map leads to is the only one.
OneSession == \A s \in Sessions : (session[s].state # "free" <=> s = sender)
                                  /\ (s # sender => session[s].queue = <<>>)

Before(m) == m <= cursor.at /\ \A h \in Handlers : Held(h) => m < hand[h].msg

\* What is queued lies between the last turn and the message in hand.
Queued ==
  /\ Before(turned) /\ ~shuffled
  /\ \A h \in Handlers : hand[h].step = "open" => sender = None
  /\ \A s \in Sessions : LET q == session[s].queue IN
       /\ \A i \in 1..Len(q) : turned < q[i] /\ Before(q[i])
       /\ \A i, j \in 1..Len(q) : i < j => q[i] < q[j]

IInv ==
  /\ TypeOK /\ InStep /\ Numbered /\ FilesInOrder
  /\ ~crossed => Alone /\ Grows
  /\ ~crossed /\ WithinPages => Pages /\ Covered
  /\ SessionsTyped
  /\ ~crossed /\ ~crowded => OneSession /\ Queued

Shape == TypeOK /\ InStep /\ Numbered

-----------------------------------------------------------------------------
(* Sequences *)

LEMMA TailOf ==
  ASSUME NEW S, NEW s \in Seq(S), s # <<>>
  PROVE  /\ Len(s) > 0 /\ Head(s) = s[1] /\ Head(s) \in S
         /\ Tail(s) \in Seq(S) /\ Len(Tail(s)) = Len(s) - 1
         /\ \A i \in 1..(Len(s) - 1) : Tail(s)[i] = s[i + 1]
<1>1. Len(s) > 0 BY EmptySeq, LenProperties
<1> QED BY <1>1, HeadTailProperties

LEMMA AppendOf ==
  ASSUME NEW S, NEW s \in Seq(S), NEW x \in S
  PROVE  /\ Append(s, x) \in Seq(S)
         /\ \A i \in 1..Len(s) : i \in 1..Len(Append(s, x)) /\ Append(s, x)[i] = s[i]
         /\ Len(s) + 1 \in 1..Len(Append(s, x)) /\ Append(s, x)[Len(s) + 1] = x
         /\ \A i \in 1..Len(Append(s, x)) : i \in 1..Len(s) \/ i = Len(s) + 1
         /\ Len(s) \in Nat
<1> DEFINE n == Len(s)
           longer == Append(s, x)
<1>1. /\ longer \in Seq(S) /\ n \in Nat /\ Len(longer) = n + 1
      /\ \A i \in 1..n : longer[i] = s[i]
      /\ longer[n + 1] = x
  BY AppendProperties, LenProperties
<1> HIDE DEF n, longer
<1>2. /\ \A i \in 1..n : i \in 1..(n + 1)
      /\ n + 1 \in 1..(n + 1)
      /\ \A i \in 1..(n + 1) : i \in 1..n \/ i = n + 1
  BY <1>1
<1> QED BY <1>1, <1>2 DEF n, longer

LEMMA PageOf ==
  ASSUME NEW after \in 0..MaxSaid, said \in 0..MaxSaid, after <= said
  PROVE  /\ Page(after) \in Seq(Message) /\ Len(Page(after)) \in Nat
         /\ Len(Page(after)) = IF said - after < PageSize THEN said - after ELSE PageSize
         /\ after + Len(Page(after)) <= said
         /\ \A i \in 1..Len(Page(after)) : Page(after)[i] = after + i
         /\ Page(after) = <<>> <=> after = said
         /\ Page(after) # <<>> => Len(Page(after)) > 0
<1> DEFINE n == IF said - after < PageSize THEN said - after ELSE PageSize
<1> USE ReplayAssumption
<1>1. n \in Nat /\ after + n <= said /\ (n = 0 <=> after = said) /\ (n # 0 => n > 0)
  OBVIOUS
<1>2. \A i \in 1..n : after + i \in Message
  BY <1>1 DEF Message
<1> HIDE DEF n
<1>3. Page(after) = [i \in 1..n |-> after + i]
  BY DEF Page, n
<1>4. Page(after) \in Seq(Message) /\ Len(Page(after)) = n /\ \A i \in 1..n : Page(after)[i] = after + i
  BY <1>1, <1>2, <1>3, IsASeq
<1>5. Page(after) = <<>> <=> n = 0
  BY <1>1, <1>4, EmptySeq
<1> QED BY <1>1, <1>4, <1>5 DEF n

-----------------------------------------------------------------------------
(* What a step does to one catch-up, and to one task's hand *)

Only(c) == /\ catchUp' \in [CatchUps -> CatchUp]
           /\ \A d \in CatchUps : d # c => catchUp'[d] = catchUp[d]

OnlyHand(h) == /\ hand' \in [Handlers -> Hand]
               /\ \A g \in Handlers : g # h => hand'[g] = hand[g]

LEMMA Becomes ==
  ASSUME TypeOK, NEW c \in CatchUps, NEW k \in CatchUp, catchUp' = [catchUp EXCEPT ![c] = k]
  PROVE  Only(c) /\ catchUp'[c] = k
  BY DEF TypeOK, Only

LEMMA HandBecomes ==
  ASSUME TypeOK, NEW h \in Handlers, NEW x \in Hand, hand' = [hand EXCEPT ![h] = x]
  PROVE  OnlyHand(h) /\ hand'[h] = x
  BY DEF TypeOK, OnlyHand

LEMMA Blank ==
  /\ Idle \in CatchUp /\ Idle.step = "idle" /\ Idle.after = 0
  /\ Empty \in Hand /\ Empty.step = "none" /\ Empty.msg = 0
  /\ Reader \in Handlers /\ Reader \notin CatchUps /\ CatchUps \subseteq Handlers
  BY ReplayAssumption, EmptySeq DEF Idle, CatchUp, CatchUpStep, Empty, Hand, Handlers

LEMMA ReadyDoes ==
  ASSUME TypeOK, NEW c \in CatchUps, Ready(c)
  PROVE  /\ Only(c) /\ catchUp[c].step = "idle"
         /\ catchUp'[c].step = "cursor" /\ catchUp'[c].after = 0 /\ catchUp'[c].pass = passes + 1
<1> DEFINE p == passes + 1
           k == [Idle EXCEPT !.step = "cursor", !.pass = p]
<1>1. p \in Nat BY DEF TypeOK
<1>2. catchUp[c] = Idle /\ catchUp' = [catchUp EXCEPT ![c] = k]
  BY DEF Ready, Spawned
<1> HIDE DEF p
<1>3. k \in CatchUp /\ k.step = "cursor" /\ k.after = 0 /\ k.pass = p
  BY <1>1, Blank DEF CatchUp, CatchUpStep
<1> HIDE DEF k
<1> QED BY <1>2, <1>3, Blank, Becomes DEF p

LEMMA ReadCursorDoes ==
  ASSUME TypeOK, NEW c \in CatchUps, ReadCursor(c)
  PROVE  /\ Only(c) /\ catchUp[c].step = "cursor"
         /\ catchUp'[c].step = "page" /\ catchUp'[c].after = cursor.at
         /\ catchUp'[c].pass = catchUp[c].pass /\ catchUp'[c].pages = MaxPages
<1> DEFINE old == catchUp[c]
           at == cursor.at
           k == [old EXCEPT !.step = "page", !.after = at, !.pages = MaxPages]
<1>1. old \in CatchUp /\ at \in 0..MaxSaid /\ MaxPages \in Nat BY ReplayAssumption DEF TypeOK
<1>2. old.step = "cursor" /\ catchUp' = [catchUp EXCEPT ![c] = k]
  BY DEF ReadCursor, TypeOK
<1> HIDE DEF old, at
<1>3. k \in CatchUp /\ k.step = "page" /\ k.after = at /\ k.pass = old.pass /\ k.pages = MaxPages
  BY <1>1 DEF CatchUp, CatchUpStep
<1> HIDE DEF k
<1>4. Only(c) /\ catchUp'[c] = k BY <1>2, <1>3, Becomes
<1> QED BY <1>2, <1>3, <1>4 DEF old, at

LEMMA EndsDoes ==
  ASSUME TypeOK, NEW c \in CatchUps, Ends(c)
  PROVE  Only(c) /\ catchUp'[c] = Idle
  BY Becomes, Blank DEF Ends

LEMMA FetchDoes ==
  ASSUME TypeOK, InStep, NEW c \in CatchUps, FetchPage(c)
  PROVE  /\ Only(c) /\ catchUp[c].step = "page"
         /\ \/ catchUp'[c] = Idle /\ catchUp[c].after = said
            \/ /\ catchUp'[c].step = "each" /\ catchUp'[c].after = catchUp[c].after
               /\ catchUp'[c].pass = catchUp[c].pass
               /\ catchUp'[c].pages = catchUp[c].pages - 1
               /\ catchUp'[c].msgs = Page(catchUp[c].after) /\ Page(catchUp[c].after) # <<>>
               /\ catchUp'[c].full = (Len(Page(catchUp[c].after)) = PageSize)
<1> DEFINE k == catchUp[c]
           msgs == Page(k.after)
           full == Len(msgs) = PageSize
           left == k.pages - 1
           new == [k EXCEPT !.step = "each", !.msgs = msgs, !.pages = left, !.full = full]
<1>1. k.step = "page" /\ catchUp' = [catchUp EXCEPT ![c] = IF msgs = <<>> THEN Idle ELSE new]
  BY DEF FetchPage, Ends
<1>2. k \in CatchUp /\ k.after \in 0..MaxSaid /\ k.after <= said /\ k.pages \in Nat /\ k.pages > 0
  BY <1>1 DEF TypeOK, InStep, Place, CatchUp
<1>3. msgs \in Seq(Message) /\ (msgs = <<>> <=> k.after = said)
  BY <1>2, PageOf DEF TypeOK
<1>4. full \in BOOLEAN /\ left \in Nat BY <1>2
<1> HIDE DEF k, msgs, full, left
<1>5. /\ new \in CatchUp /\ new.step = "each" /\ new.after = k.after /\ new.pass = k.pass
      /\ new.pages = left /\ new.msgs = msgs /\ new.full = full
  BY <1>2, <1>3, <1>4 DEF CatchUp, CatchUpStep
<1> HIDE DEF new
<1>6. CASE msgs = <<>>
  <2>1. catchUp' = [catchUp EXCEPT ![c] = Idle] BY <1>1, <1>6
  <2> QED BY <1>1, <1>3, <1>6, <2>1, Blank, Becomes DEF k
<1>7. CASE msgs # <<>>
  <2>1. catchUp' = [catchUp EXCEPT ![c] = new] BY <1>1, <1>7
  <2>2. Only(c) /\ catchUp'[c] = new BY <1>5, <2>1, Becomes
  <2> QED BY <1>1, <1>5, <1>7, <2>2 DEF k, msgs, full, left
<1> QED BY <1>6, <1>7

LEMMA AdvanceDoes ==
  ASSUME TypeOK, InStep, NEW c \in CatchUps, Advance(c)
  PROVE  /\ Only(c) /\ catchUp[c].step = "each" /\ catchUp'[c].step = "handle"
         /\ catchUp'[c].after = catchUp[c].after + 1 /\ catchUp'[c].msgs = catchUp[c].msgs
         /\ catchUp'[c].pass = catchUp[c].pass
         /\ catchUp'[c].pages = catchUp[c].pages /\ catchUp'[c].full = catchUp[c].full
         /\ cursor' = At(catchUp[c].after + 1) /\ catchUp[c].after + 1 \in Message
         /\ Len(catchUp[c].msgs) > 0 /\ Len(catchUp[c].msgs) \in Nat
         /\ catchUp[c].after + Len(catchUp[c].msgs) <= said /\ catchUp[c].after + 1 <= said
         /\ OnlyHand(c) /\ hand'[c].step = "file" /\ hand'[c].msg = catchUp[c].after + 1
<1> DEFINE k == catchUp[c]
           head == Head(k.msgs)
           new == [k EXCEPT !.step = "handle", !.after = head]
           held == [msg |-> head, step |-> "file"]
<1>1. /\ k.step = "each" /\ cursor' = At(head)
      /\ catchUp' = [catchUp EXCEPT ![c].step = "handle", ![c].after = Head(catchUp[c].msgs)]
      /\ hand' = [hand EXCEPT ![c] = held]
  BY DEF Advance, TakeUp
<1>2. /\ k \in CatchUp /\ Len(k.msgs) > 0 /\ k.after + Len(k.msgs) <= said
      /\ k.msgs[1] = k.after + 1
  <2>1. k \in CatchUp BY DEF TypeOK
  <2>2. k.msgs \in Seq(Message) BY <2>1 DEF CatchUp
  <2>3. /\ Len(k.msgs) > 0 /\ k.after + Len(k.msgs) <= said
        /\ \A i \in 1..Len(k.msgs) : k.msgs[i] = k.after + i
    BY <1>1 DEF InStep, Place
  <2>4. 1 \in 1..Len(k.msgs) BY <2>2, <2>3, LenProperties
  <2> HIDE DEF k
  <2> QED BY <2>1, <2>3, <2>4
<1>3. k.msgs \in Seq(Message) /\ k.msgs # <<>> /\ Len(k.msgs) \in Nat
  BY <1>2, EmptySeq, LenProperties DEF CatchUp
<1>4. head = k.after + 1 /\ head \in Message
  BY <1>2, <1>3, TailOf
<1>5. head \in 0..MaxSaid /\ head <= said
  BY <1>2, <1>3, <1>4 DEF Message, CatchUp, TypeOK
<1>6. catchUp' = [catchUp EXCEPT ![c] = new]
  BY <1>1 DEF TypeOK
<1> HIDE DEF k, head
<1>7. /\ new \in CatchUp /\ new.step = "handle" /\ new.after = head /\ new.pages = k.pages
      /\ new.msgs = k.msgs /\ new.full = k.full /\ new.pass = k.pass
  BY <1>2, <1>5 DEF CatchUp, CatchUpStep
<1>8. held \in Hand /\ held.step = "file" /\ held.msg = head
  BY <1>5 DEF Hand
<1> HIDE DEF new, held
<1>9. Only(c) /\ catchUp'[c] = new
  BY <1>6, <1>7, Becomes
<1>10. OnlyHand(c) /\ hand'[c] = held
  BY <1>1, <1>8, HandBecomes, Blank
<1> QED BY <1>1, <1>2, <1>3, <1>4, <1>5, <1>7, <1>8, <1>9, <1>10 DEF k

LEMMA ReadEventDoes ==
  ASSUME TypeOK, ReadEvent
  PROVE  /\ OnlyHand(Reader) /\ hand'[Reader].step = "file" /\ hand'[Reader].msg = seen + 1
         /\ ~Held(Reader) /\ seen' = seen + 1 /\ cursor' = At(seen + 1)
         /\ seen + 1 \in Message /\ seen + 1 <= said /\ link = "up"
<1> DEFINE m == seen + 1
           held == [msg |-> m, step |-> "file"]
<1>1. m \in 0..MaxSaid /\ m \in Message /\ m <= said
  BY ReplayAssumption DEF ReadEvent, TypeOK, Message
<1>2. hand' = [hand EXCEPT ![Reader] = held] /\ hand[Reader] = Empty /\ seen' = m /\ cursor' = At(m)
      /\ link = "up"
  BY DEF ReadEvent, TakeUp
<1> HIDE DEF m
<1>3. held \in Hand /\ held.step = "file" /\ held.msg = m
  BY <1>1 DEF Hand
<1> HIDE DEF held
<1> QED BY <1>1, <1>2, <1>3, HandBecomes, Blank DEF Held, m

LEMMA MovesDoes ==
  ASSUME TypeOK, NEW h \in Handlers, NEW from \in {"file", "route", "open"},
         NEW to \in {"route", "open"}, Moves(h, from, to)
  PROVE  /\ OnlyHand(h) /\ hand[h].step = from /\ Held(h)
         /\ hand'[h].step = to /\ hand'[h].msg = hand[h].msg
<1> DEFINE held == [hand[h] EXCEPT !.step = to]
<1>1. hand[h].step = from /\ hand' = [hand EXCEPT ![h] = held]
  BY DEF Moves, TypeOK
<1>2. held \in Hand /\ held.step = to /\ held.msg = hand[h].msg
  BY DEF Hand, TypeOK
<1> HIDE DEF held
<1> QED BY <1>1, <1>2, HandBecomes DEF Held

\* How a catch-up goes on.
LEMMA GoesOnWith ==
  ASSUME TypeOK, InStep, NEW c \in CatchUps, NEW from \in {"route", "open"}, Done(c, from)
  PROVE  /\ Only(c) /\ catchUp[c].step = "handle"
         /\ Len(catchUp[c].msgs) \in Nat /\ Len(catchUp[c].msgs) > 0
         /\ catchUp[c].after - 1 + Len(catchUp[c].msgs) <= said
         /\ \/ /\ catchUp'[c].step = "each" /\ Len(catchUp[c].msgs) > 1
               /\ catchUp'[c].after = catchUp[c].after /\ catchUp'[c].pass = catchUp[c].pass
               /\ catchUp'[c].pages = catchUp[c].pages /\ catchUp'[c].full = catchUp[c].full
               /\ Len(catchUp'[c].msgs) = Len(catchUp[c].msgs) - 1
               /\ \A i \in 1..(Len(catchUp[c].msgs) - 1) :
                    catchUp'[c].msgs[i] = catchUp[c].msgs[i + 1]
            \/ /\ catchUp'[c].step = "page" /\ Len(catchUp[c].msgs) = 1
               /\ catchUp'[c].after = catchUp[c].after /\ catchUp'[c].pass = catchUp[c].pass
               /\ catchUp'[c].pages = catchUp[c].pages
               /\ catchUp[c].full /\ catchUp[c].pages > 0
            \/ /\ catchUp'[c] = Idle /\ Len(catchUp[c].msgs) = 1
               /\ ~(catchUp[c].full /\ catchUp[c].pages > 0)
<1> DEFINE k == catchUp[c]
           rest == Tail(k.msgs)
           more == k.full /\ k.pages > 0
           each == [k EXCEPT !.step = "each", !.msgs = rest]
           page == [k EXCEPT !.step = "page", !.msgs = <<>>]
<1>0. c # Reader BY Blank
<1>1. catchUp' = [catchUp EXCEPT ![c] = IF rest # <<>> THEN each ELSE IF more THEN page ELSE Idle]
  BY <1>0 DEF Done
<1>2. k.step = "handle"
  BY DEF Done, InStep, Held
<1>3. /\ k \in CatchUp /\ Len(k.msgs) > 0 /\ k.after - 1 + Len(k.msgs) <= said
  BY <1>2 DEF TypeOK, InStep, Place
<1>4. k.msgs \in Seq(Message) /\ k.msgs # <<>> /\ Len(k.msgs) \in Nat
  BY <1>3, EmptySeq, LenProperties DEF CatchUp
<1>5. /\ rest \in Seq(Message) /\ Len(rest) = Len(k.msgs) - 1
      /\ \A i \in 1..(Len(k.msgs) - 1) : rest[i] = k.msgs[i + 1]
  BY <1>4, TailOf
<1>6. (rest = <<>> => Len(k.msgs) = 1) /\ (rest # <<>> => Len(k.msgs) > 1)
  <2>1. rest = <<>> <=> Len(rest) = 0 BY <1>5, EmptySeq
  <2> HIDE DEF rest, k
  <2> QED BY <1>3, <1>4, <1>5, <2>1
<1>7. <<>> \in Seq(Message) BY EmptySeq
<1> HIDE DEF k, rest
<1>8. /\ each \in CatchUp /\ each.step = "each" /\ each.after = k.after /\ each.pages = k.pages
      /\ each.msgs = rest /\ each.full = k.full /\ each.pass = k.pass
  BY <1>3, <1>5 DEF CatchUp, CatchUpStep
<1>9. /\ page \in CatchUp /\ page.step = "page" /\ page.after = k.after /\ page.pages = k.pages
      /\ page.pass = k.pass
  BY <1>3, <1>7 DEF CatchUp, CatchUpStep
<1> HIDE DEF each, page
<1>10. CASE rest # <<>>
  <2>1. Only(c) /\ catchUp'[c] = each
    BY <1>1, <1>8, <1>10, Becomes
  <2>2. Len(k.msgs) > 1 BY <1>6, <1>10
  <2>3. /\ catchUp'[c].step = "each" /\ catchUp'[c].after = k.after /\ catchUp'[c].pass = k.pass
        /\ catchUp'[c].pages = k.pages /\ catchUp'[c].full = k.full
        /\ Len(catchUp'[c].msgs) = Len(k.msgs) - 1
        /\ \A i \in 1..(Len(k.msgs) - 1) : catchUp'[c].msgs[i] = k.msgs[i + 1]
    BY <1>5, <1>8, <2>1
  <2> QED BY <1>2, <1>3, <1>4, <2>1, <2>2, <2>3 DEF k
<1>11. CASE rest = <<>> /\ more
  <2>1. Only(c) /\ catchUp'[c] = page
    BY <1>1, <1>9, <1>11, Becomes
  <2> QED BY <1>2, <1>3, <1>4, <1>6, <1>9, <1>11, <2>1 DEF k
<1>12. CASE rest = <<>> /\ ~more
  <2>1. Only(c) /\ catchUp'[c] = Idle
    BY <1>1, <1>12, Blank, Becomes
  <2> QED BY <1>2, <1>3, <1>4, <1>6, <1>12, <2>1 DEF k
<1> QED BY <1>10, <1>11, <1>12

LEMMA DoneDoes ==
  ASSUME TypeOK, NEW h \in Handlers, NEW from \in {"route", "open"}, Done(h, from)
  PROVE  /\ OnlyHand(h) /\ hand[h].step = from /\ Held(h) /\ hand'[h] = Empty
         /\ h = Reader => UNCHANGED catchUp
  BY HandBecomes, Blank DEF Done, Held

-----------------------------------------------------------------------------
(* Every task is where its step says *)

LEMMA InitShape == Init => Shape
<1> SUFFICES ASSUME Init PROVE Shape
  OBVIOUS
<1> USE ReplayAssumption
<1>1. /\ catchUp = [c \in CatchUps |-> Idle] /\ hand = [h \in Handlers |-> Empty]
      /\ history = <<>> /\ cursor \in {Absent, At(0)}
      /\ said = 0 /\ seen = 0 /\ link = "down" /\ passes = 0 /\ baseline = 0 /\ missed = {} /\ crossed = FALSE
      /\ faults = [drops |-> 0, hiccups |-> 0, crashes |-> 0]
  BY DEF Init, ReplayInit
<1>2. /\ catchUp \in [CatchUps -> CatchUp] /\ hand \in [Handlers -> Hand]
      /\ \A c \in CatchUps : catchUp[c] = Idle /\ catchUp[c].step = "idle"
      /\ \A h \in Handlers : hand[h] = Empty /\ hand[h].step = "none"
  BY <1>1, Blank
<1>3. 0 \in 0..MaxSaid OBVIOUS
<1>4. cursor \in [at : 0..MaxSaid, there : BOOLEAN] /\ cursor.at = 0
  <2>1. Absent \in [at : 0..MaxSaid, there : BOOLEAN] /\ Absent.at = 0 BY <1>3 DEF Absent
  <2>2. At(0) \in [at : 0..MaxSaid, there : BOOLEAN] /\ At(0).at = 0 BY <1>3 DEF At
  <2> QED BY <1>1, <2>1, <2>2
<1>5. history \in Seq(Entry) BY <1>1, EmptySeq
<1>6. missed \in SUBSET Nat /\ faults \in [drops : Nat, hiccups : Nat, crashes : Nat]
  BY <1>1
<1>7. TypeOK BY <1>1, <1>2, <1>3, <1>4, <1>5, <1>6 DEF TypeOK
<1>8. InStep BY <1>1, <1>2, <1>4, Blank DEF InStep, Place, Held
<1>9. Numbered BY <1>2 DEF Numbered, Busy
<1> QED BY <1>7, <1>8, <1>9 DEF Shape

\* The other catch-ups, and the numbers, under a step that adds none.
LEMMA OthersStay ==
  ASSUME InStep, NEW c \in CatchUps, Only(c), UNCHANGED said, Place(catchUp[c])'
  PROVE  \A d \in CatchUps : Place(catchUp[d])'
<1> SUFFICES ASSUME NEW d \in CatchUps, d # c PROVE Place(catchUp[d])'
  OBVIOUS
<1>1. catchUp'[d] = catchUp[d] BY DEF Only
<1> QED BY <1>1 DEF InStep, Place

LEMMA NumbersStay ==
  ASSUME Numbered, NEW c \in CatchUps, Only(c), UNCHANGED passes,
         \/ catchUp'[c].step = "idle"
         \/ catchUp[c].step # "idle" /\ catchUp'[c].pass = catchUp[c].pass
  PROVE  Numbered'
  BY DEF Numbered, Only, Busy

LEMMA SayShape == ASSUME Shape, Say, UNCHANGED history PROVE Shape'
<1> USE DEF Shape
<1>1. /\ said' = said + 1 /\ said' \in 0..MaxSaid /\ said \in Nat
      /\ UNCHANGED <<cursor, link, seen, hand, catchUp, passes, baseline, missed, crossed, faults>>
  BY ReplayAssumption DEF Say, TypeOK
<1>2. TypeOK' BY <1>1 DEF TypeOK
<1>3. ASSUME NEW c \in CatchUps PROVE Place(catchUp[c])'
  <2> DEFINE k == catchUp[c]
             n == Len(k.msgs)
             a == k.after
  <2>1. Place(k) /\ a \in Nat /\ n \in Nat
    <3>1. k \in CatchUp BY DEF TypeOK
    <3>2. k.msgs \in Seq(Message) /\ k.after \in 0..MaxSaid BY <3>1 DEF CatchUp
    <3> QED BY <3>2, LenProperties DEF InStep
  <2>2. /\ a <= said => a <= said'
        /\ a + n <= said => a + n <= said'
        /\ a - 1 + n <= said => a - 1 + n <= said'
    <3> HIDE DEF a, n
    <3> QED BY <1>1, <2>1
  <2>3. catchUp'[c] = k BY <1>1
  <2> QED BY <2>1, <2>2, <2>3 DEF Place
<1>4. seen <= said' /\ cursor.at <= said'
  BY <1>1 DEF TypeOK, InStep
<1>5. InStep' BY <1>1, <1>3, <1>4 DEF InStep, Held
<1>6. Numbered' BY <1>1 DEF Numbered, Busy
<1> QED BY <1>2, <1>5, <1>6

LEMMA LinkShape ==
  ASSUME Shape, UNCHANGED history, NEW next \in {"up", "down", "lost"}, Drop(next) \/ Redial(next)
  PROVE  Shape'
<1> USE DEF Shape
<1>1. /\ UNCHANGED <<said, cursor, seen, hand, catchUp, passes, baseline, missed, crossed>>
      /\ link' = next /\ ~Held(Reader)
  BY Blank DEF Drop, Redial, InStep, Held
<1>2. faults' \in [drops : Nat, hiccups : Nat, crashes : Nat]
  <2>1. CASE Drop(next) BY <2>1 DEF Drop, Fault, TypeOK
  <2>2. CASE Redial(next) BY <2>2 DEF Redial, TypeOK
  <2> QED BY <2>1, <2>2
<1>3. TypeOK' BY <1>1, <1>2 DEF TypeOK
<1>4. InStep' BY <1>1 DEF InStep, Place, Held
<1>5. Numbered' BY <1>1 DEF Numbered, Busy
<1> QED BY <1>3, <1>4, <1>5

LEMMA ReadEventShape == ASSUME Shape, ReadEvent, UNCHANGED history PROVE Shape'
<1> USE DEF Shape
<1>1. /\ OnlyHand(Reader) /\ hand'[Reader].step = "file" /\ hand'[Reader].msg = seen + 1
      /\ seen' = seen + 1 /\ cursor' = At(seen + 1) /\ seen + 1 \in Message /\ seen + 1 <= said
      /\ link = "up"
  BY ReadEventDoes
<1>2. /\ UNCHANGED <<said, link, catchUp, passes, baseline, missed, faults>> /\ crossed' \in BOOLEAN
  BY DEF ReadEvent, CatchingUp, TypeOK
<1>3. seen' \in 0..MaxSaid /\ seen' > 0 /\ cursor' \in [at : 0..MaxSaid, there : BOOLEAN]
      /\ cursor'.at = seen + 1 /\ cursor'.there
  BY <1>1, ReplayAssumption DEF Message, At
<1>4. TypeOK' BY <1>1, <1>2, <1>3 DEF TypeOK, OnlyHand
<1>5. \A c \in CatchUps : hand'[c] = hand[c] BY <1>1, Blank DEF OnlyHand
<1>6. \A h \in Handlers : ~Held(h)' => hand'[h] = Empty
  BY <1>1 DEF InStep, Held, OnlyHand
<1>7. \A c \in CatchUps : Place(catchUp[c])' BY <1>2 DEF InStep, Place
<1>8. InStep' BY <1>1, <1>2, <1>3, <1>5, <1>6, <1>7 DEF InStep, Held
<1>9. Numbered' BY <1>2 DEF Numbered, Busy
<1> QED BY <1>4, <1>8, <1>9

LEMMA ReadyShape ==
  ASSUME Shape, NEW c \in CatchUps, Ready(c), UNCHANGED history PROVE Shape'
<1> USE DEF Shape
<1>1. /\ Only(c) /\ catchUp[c].step = "idle"
      /\ catchUp'[c].step = "cursor" /\ catchUp'[c].after = 0 /\ catchUp'[c].pass = passes + 1
  BY ReadyDoes
<1>2. /\ UNCHANGED <<said, cursor, hand, baseline, missed, faults>> /\ crossed' \in BOOLEAN
      /\ link = "down" /\ link' = "up" /\ seen' = said /\ passes' = passes + 1 /\ passes \in Nat
  BY DEF Ready, CatchingUp, TypeOK
<1>3. TypeOK' BY <1>1, <1>2 DEF TypeOK, Only
<1>4. Place(catchUp[c])' BY <1>1 DEF Place
<1>5. \A d \in CatchUps : Place(catchUp[d])' BY <1>1, <1>2, <1>4, OthersStay
<1>6. \A d \in CatchUps : IF catchUp'[d].step = "handle" THEN Held(d)' /\ hand'[d].msg = catchUp'[d].after
                          ELSE ~Held(d)'
  BY <1>1, <1>2 DEF InStep, Held, Only
<1>7. said <= said BY DEF TypeOK
<1>8. InStep' BY <1>2, <1>5, <1>6, <1>7 DEF InStep, Held
<1>9. Numbered'
  <2>1. \A d \in CatchUps : d # c /\ Busy(d)' => catchUp'[d].pass \in 1..passes /\ Busy(d) /\ catchUp'[d] = catchUp[d]
    BY <1>1 DEF Numbered, Only, Busy
  <2>2. passes + 1 \in 1..(passes + 1) /\ passes + 1 \notin 1..passes /\ 1..passes \subseteq 1..(passes + 1)
    BY <1>2
  <2> QED BY <1>1, <1>2, <2>1, <2>2 DEF Numbered, Busy
<1> QED BY <1>3, <1>8, <1>9

LEMMA ReadCursorShape ==
  ASSUME Shape, NEW c \in CatchUps, ReadCursor(c), UNCHANGED history PROVE Shape'
<1> USE DEF Shape
<1>1. /\ Only(c) /\ catchUp[c].step = "cursor"
      /\ catchUp'[c].step = "page" /\ catchUp'[c].after = cursor.at
      /\ catchUp'[c].pass = catchUp[c].pass /\ catchUp'[c].pages = MaxPages
  BY ReadCursorDoes
<1>2. UNCHANGED <<said, cursor, link, seen, hand, passes, baseline, missed, crossed, faults>>
  BY DEF ReadCursor
<1>3. TypeOK' BY <1>1, <1>2 DEF TypeOK, Only
<1>4. Place(catchUp[c])' BY <1>1, <1>2, ReplayAssumption DEF Place, InStep
<1>5. \A d \in CatchUps : Place(catchUp[d])' BY <1>1, <1>2, <1>4, OthersStay
<1>6. InStep' BY <1>1, <1>2, <1>5 DEF InStep, Held, Only
<1>7. Numbered' BY <1>1, <1>2, NumbersStay
<1> QED BY <1>3, <1>6, <1>7

LEMMA EndsShape ==
  ASSUME Shape, NEW c \in CatchUps, Baseline(c) \/ Hiccup(c), UNCHANGED history PROVE Shape'
<1> USE DEF Shape
<1>1. /\ Only(c) /\ catchUp[c].step \in {"cursor", "page"} /\ catchUp'[c] = Idle /\ catchUp'[c].step = "idle"
  BY EndsDoes, Blank DEF Baseline, Hiccup
<1>2. UNCHANGED <<said, link, seen, hand, passes>> BY DEF Baseline, Hiccup
<1>3. /\ cursor' \in [at : 0..MaxSaid, there : BOOLEAN] /\ baseline' \in 0..MaxSaid
      /\ missed' \in SUBSET Nat /\ crossed' \in BOOLEAN
      /\ faults' \in [drops : Nat, hiccups : Nat, crashes : Nat]
      /\ cursor'.at <= said /\ (~cursor'.there => cursor'.at = 0)
  <2>1. CASE Baseline(c)
    <3>1. said \in 0..MaxSaid /\ said <= said BY DEF TypeOK
    <3>2. At(said) \in [at : 0..MaxSaid, there : BOOLEAN] /\ At(said).at = said /\ At(said).there
      BY <3>1 DEF At
    <3> QED BY <2>1, <3>1, <3>2 DEF TypeOK, Baseline, InStep, Ahead
  <2>2. CASE Hiccup(c)
    <3> DEFINE after == catchUp[c].after
               cut == (after + 1)..said
    <3>1. missed' = missed \cup cut /\ UNCHANGED <<cursor, baseline, crossed>>
      BY <2>2 DEF Hiccup
    <3>2. after \in Nat /\ said \in Nat BY DEF TypeOK, CatchUp
    <3>3. cut \in SUBSET Nat
      <4> HIDE DEF after
      <4> QED BY <3>2
    <3> HIDE DEF cut
    <3>4. missed' \in SUBSET Nat BY <3>1, <3>3 DEF TypeOK
    <3>5. faults' \in [drops : Nat, hiccups : Nat, crashes : Nat]
      BY <2>2 DEF Hiccup, Fault, TypeOK
    <3> QED BY <3>1, <3>4, <3>5 DEF TypeOK, InStep
  <2> QED BY <2>1, <2>2
<1>4. TypeOK' BY <1>1, <1>2, <1>3 DEF TypeOK, Only
<1>5. Place(catchUp[c])' BY <1>1 DEF Place
<1>6. \A d \in CatchUps : Place(catchUp[d])' BY <1>1, <1>2, <1>5, OthersStay
<1>7. InStep' BY <1>1, <1>2, <1>3, <1>6 DEF InStep, Held, Only
<1>8. Numbered' BY <1>1, <1>2, NumbersStay
<1> QED BY <1>4, <1>7, <1>8

LEMMA FetchShape ==
  ASSUME Shape, NEW c \in CatchUps, FetchPage(c), UNCHANGED history PROVE Shape'
<1> USE DEF Shape
<1> DEFINE k == catchUp[c]
           new == catchUp'[c]
<1>1. /\ Only(c) /\ k.step = "page"
      /\ \/ new = Idle /\ k.after = said
         \/ /\ new.step = "each" /\ new.after = k.after /\ new.pass = k.pass
            /\ new.msgs = Page(k.after) /\ Page(k.after) # <<>>
  BY FetchDoes
<1>2. /\ UNCHANGED <<said, cursor, link, seen, hand, passes, baseline, missed, faults>>
      /\ crossed' \in BOOLEAN
  BY DEF FetchPage, TypeOK
<1>3. TypeOK' BY <1>1, <1>2 DEF TypeOK, Only
<1>4. Place(catchUp[c])'
  <2>1. CASE new = Idle BY <2>1, Blank DEF Place
  <2>2. CASE new.step = "each" /\ new.after = k.after /\ new.msgs = Page(k.after) /\ Page(k.after) # <<>>
    <3>1. k.after \in 0..MaxSaid /\ k.after <= said /\ said \in 0..MaxSaid
      BY <1>1 DEF TypeOK, CatchUp, InStep, Place
    <3>2. /\ Len(Page(k.after)) > 0 /\ k.after + Len(Page(k.after)) <= said
          /\ \A i \in 1..Len(Page(k.after)) : Page(k.after)[i] = k.after + i
      BY <2>2, <3>1, PageOf
    <3> HIDE DEF k
    <3> QED BY <1>2, <2>2, <3>2 DEF Place
  <2> QED BY <1>1, <2>1, <2>2
<1>5. \A d \in CatchUps : Place(catchUp[d])' BY <1>1, <1>2, <1>4, OthersStay
<1>6. new.step \in {"idle", "each"} BY <1>1, Blank
<1>7. InStep' BY <1>1, <1>2, <1>5, <1>6 DEF InStep, Held, Only
<1>8. Numbered' BY <1>1, <1>2, <1>6, Blank, NumbersStay
<1> QED BY <1>3, <1>7, <1>8

LEMMA AdvanceShape ==
  ASSUME Shape, NEW c \in CatchUps, Advance(c), UNCHANGED history PROVE Shape'
<1> USE DEF Shape
<1> DEFINE k == catchUp[c]
           new == catchUp'[c]
           n == Len(k.msgs)
<1>1. /\ Only(c) /\ k.step = "each" /\ new.step = "handle" /\ new.after = k.after + 1
      /\ new.msgs = k.msgs /\ new.pass = k.pass
      /\ cursor' = At(k.after + 1) /\ k.after + 1 \in Message
      /\ n > 0 /\ n \in Nat /\ k.after + n <= said /\ k.after + 1 <= said
      /\ OnlyHand(c) /\ hand'[c].step = "file" /\ hand'[c].msg = k.after + 1
  BY AdvanceDoes
<1>2. UNCHANGED <<said, link, seen, passes, baseline, missed, crossed, faults>>
  BY DEF Advance
<1>3. /\ cursor' \in [at : 0..MaxSaid, there : BOOLEAN] /\ cursor'.at = k.after + 1 /\ cursor'.there
      /\ k.after \in Nat
  BY <1>1 DEF At, Message, TypeOK, CatchUp
<1>4. TypeOK' BY <1>1, <1>2, <1>3 DEF TypeOK, Only, OnlyHand
<1>5. Place(catchUp[c])'
  <2>1. /\ new.step = "handle" /\ Len(new.msgs) > 0 /\ new.after - 1 = k.after /\ new.after > 0
        /\ new.msgs = k.msgs
    BY <1>1, <1>3
  <2>2. new.after - 1 + Len(new.msgs) <= said' BY <1>1, <1>2, <2>1
  <2>3. \A i \in 1..Len(new.msgs) : new.msgs[i] = new.after - 1 + i
    BY <1>1, <2>1 DEF InStep, Place
  <2> HIDE DEF k
  <2> QED BY <2>1, <2>2, <2>3 DEF Place
<1>6. \A d \in CatchUps : Place(catchUp[d])' BY <1>1, <1>2, <1>5, OthersStay
<1>7. /\ c # Reader /\ c \in Handlers BY Blank
<1>8. \A d \in CatchUps : IF catchUp'[d].step = "handle" THEN Held(d)' /\ hand'[d].msg = catchUp'[d].after
                          ELSE ~Held(d)'
  BY <1>1, Blank DEF InStep, Held, Only, OnlyHand
<1>9. /\ Held(Reader)' => Held(Reader) /\ hand'[Reader] = hand[Reader]
      /\ \A h \in Handlers : ~Held(h)' => hand'[h] = Empty
  BY <1>1, <1>7, Blank DEF InStep, Held, OnlyHand
<1>10. InStep' BY <1>1, <1>2, <1>3, <1>6, <1>8, <1>9 DEF InStep
<1>11. Numbered' BY <1>1, <1>2, NumbersStay
<1> QED BY <1>4, <1>10, <1>11

\* On within handle_message, with or without a line in the history.
LEMMA MovesShape ==
  ASSUME Shape, NEW h \in Handlers, NEW from \in {"file", "route", "open"},
         NEW to \in {"route", "open"}, Moves(h, from, to), history' \in Seq(Entry)
  PROVE  Shape'
<1> USE DEF Shape
<1>1. /\ OnlyHand(h) /\ Held(h) /\ hand'[h].step = to /\ hand'[h].msg = hand[h].msg
  BY MovesDoes
<1>2. UNCHANGED <<said, cursor, link, seen, catchUp, passes, baseline, missed, crossed, faults>>
  BY DEF Moves
<1>3. TypeOK' BY <1>1, <1>2 DEF TypeOK, OnlyHand
<1>4. \A g \in Handlers : (Held(g)' <=> Held(g)) /\ hand'[g].msg = hand[g].msg
  BY <1>1 DEF Held, OnlyHand
<1>5. \A g \in Handlers : ~Held(g) => hand'[g] = hand[g]
  BY <1>1 DEF OnlyHand
<1>6. \A c \in CatchUps : Place(catchUp[c])' BY <1>2 DEF InStep, Place
<1>7. InStep' BY <1>2, <1>4, <1>5, <1>6, Blank DEF InStep
<1>8. Numbered' BY <1>2 DEF Numbered, Busy
<1> QED BY <1>3, <1>7, <1>8

LEMMA DoneShape ==
  ASSUME Shape, NEW h \in Handlers, NEW from \in {"route", "open"}, Done(h, from), UNCHANGED history
  PROVE  Shape'
<1> USE DEF Shape
<1>1. OnlyHand(h) /\ Held(h) /\ hand'[h] = Empty /\ ~Held(h)'
  BY DoneDoes, Blank DEF Held
<1>2. UNCHANGED <<said, cursor, link, seen, passes, baseline, missed, crossed, faults>>
  BY DEF Done
<1>3. \A g \in Handlers : ~Held(g)' => hand'[g] = Empty
  BY <1>1 DEF InStep, Held, OnlyHand
<1>4. CASE h = Reader
  <2>1. UNCHANGED catchUp BY <1>4 DEF Done
  <2>2. TypeOK' BY <1>1, <1>2, <2>1 DEF TypeOK, OnlyHand
  <2>3. \A c \in CatchUps : hand'[c] = hand[c] /\ Place(catchUp[c])'
    BY <1>1, <1>2, <1>4, <2>1, Blank DEF OnlyHand, InStep, Place
  <2>4. InStep' BY <1>1, <1>2, <1>3, <1>4, <2>1, <2>3 DEF InStep, Held
  <2>5. Numbered' BY <1>2, <2>1 DEF Numbered, Busy
  <2> QED BY <2>2, <2>4, <2>5
<1>5. ASSUME NEW c \in CatchUps, h = c PROVE Shape'
  <2> DEFINE k == catchUp[c]
             new == catchUp'[c]
             n == Len(k.msgs)
  <2>1. /\ Only(c) /\ k.step = "handle" /\ n \in Nat /\ n > 0 /\ k.after - 1 + n <= said
        /\ \/ /\ new.step = "each" /\ n > 1 /\ new.after = k.after /\ new.pass = k.pass
              /\ Len(new.msgs) = n - 1 /\ \A i \in 1..(n - 1) : new.msgs[i] = k.msgs[i + 1]
           \/ /\ new.step = "page" /\ n = 1 /\ new.after = k.after /\ new.pass = k.pass
              /\ new.pages = k.pages /\ k.pages > 0
           \/ new = Idle
    BY <1>5, GoesOnWith
  <2>2. TypeOK' BY <1>1, <1>2, <2>1 DEF TypeOK, OnlyHand, Only
  <2>3. Place(catchUp[c])'
    <3> DEFINE after == k.after
    <3>1. after \in Nat /\ said \in Nat /\ \A i \in 1..n : k.msgs[i] = after - 1 + i
      BY <2>1 DEF TypeOK, CatchUp, InStep, Place
    <3>2. CASE new = Idle BY <3>2, Blank DEF Place
    <3>3. CASE new.step = "page"
      <4>1. n = 1 /\ new.after = after /\ new.pages > 0 BY <2>1, <3>3, Blank
      <4>2. after <= said
        <5> HIDE DEF n, after
        <5> QED BY <2>1, <3>1, <4>1 DEF after
      <4> QED BY <1>2, <3>3, <4>1, <4>2 DEF Place
    <3>4. CASE new.step = "each"
      <4>1. n > 1 /\ new.after = after /\ Len(new.msgs) = n - 1
            /\ \A i \in 1..(n - 1) : new.msgs[i] = k.msgs[i + 1]
        BY <2>1, <3>4, Blank
      <4>2. after - 1 + n <= said BY <2>1
      <4>3. \A i \in 1..(n - 1) : new.msgs[i] = after + i
        <5> TAKE i \in 1..(n - 1)
        <5>1. new.msgs[i] = k.msgs[i + 1] BY <4>1
        <5>2. i + 1 \in 1..n BY <2>1
        <5>3. k.msgs[i + 1] = after - 1 + (i + 1) BY <3>1, <5>2
        <5> HIDE DEF after, n
        <5> QED BY <2>1, <3>1, <5>1, <5>3
      <4> HIDE DEF after, n
      <4>4. n - 1 > 0 /\ after + (n - 1) <= said BY <2>1, <3>1, <4>1, <4>2
      <4> QED BY <1>2, <3>4, <4>1, <4>3, <4>4 DEF Place
    <3> HIDE DEF k, n
    <3> QED BY <2>1, <3>2, <3>3, <3>4
  <2>4. \A d \in CatchUps : Place(catchUp[d])' BY <1>2, <2>1, <2>3, OthersStay
  <2>5. new.step # "handle" BY <2>1, Blank
  <2>6. \A d \in CatchUps : IF catchUp'[d].step = "handle" THEN Held(d)' /\ hand'[d].msg = catchUp'[d].after
                            ELSE ~Held(d)'
    BY <1>1, <1>5, <2>1, <2>5, Blank DEF InStep, Held, Only, OnlyHand
  <2>7. hand'[Reader] = hand[Reader] BY <1>1, <1>5, Blank DEF OnlyHand
  <2>8. InStep' BY <1>2, <1>3, <2>4, <2>6, <2>7 DEF InStep, Held
  <2>9. Numbered' BY <1>2, <2>1, Blank, NumbersStay
  <2> QED BY <2>2, <2>8, <2>9
<1> QED BY <1>4, <1>5 DEF Handlers

LEMMA CrashShape == ASSUME Shape, ReplayCrash, UNCHANGED history PROVE Shape'
<1> USE DEF Shape
<1>1. /\ link' = "down" /\ seen' = 0 /\ UNCHANGED <<said, cursor, passes, baseline, crossed>>
      /\ catchUp' = [c \in CatchUps |-> Idle] /\ hand' = [h \in Handlers |-> Empty]
  BY DEF ReplayCrash
<1>2. /\ \A c \in CatchUps : catchUp'[c] = Idle /\ catchUp'[c].step = "idle"
      /\ \A h \in Handlers : hand'[h] = Empty /\ hand'[h].step = "none"
      /\ catchUp' \in [CatchUps -> CatchUp] /\ hand' \in [Handlers -> Hand]
  BY <1>1, Blank
<1>3. missed' \in SUBSET Nat
  <2> DEFINE cut == {hand[h].msg : h \in {x \in Handlers : hand[x].step = "file"}}
  <2>1. missed' = missed \cup cut BY DEF ReplayCrash
  <2>2. \A h \in Handlers : hand[h].msg \in Nat BY DEF TypeOK, Hand
  <2>3. cut \subseteq Nat BY <2>2
  <2> HIDE DEF cut
  <2> QED BY <2>1, <2>3 DEF TypeOK
<1>4. faults' \in [drops : Nat, hiccups : Nat, crashes : Nat]
  <2>1. Fault("crashes") BY DEF ReplayCrash
  <2>2. faults \in [drops : Nat, hiccups : Nat, crashes : Nat] BY DEF TypeOK
  <2> QED BY <2>1, <2>2 DEF Fault
<1>5. seen' \in 0..MaxSaid /\ 0 <= said BY <1>1, ReplayAssumption DEF TypeOK
<1>6. TypeOK' BY <1>1, <1>2, <1>3, <1>4, <1>5 DEF TypeOK
<1>7. InStep' BY <1>1, <1>2, <1>5, Blank DEF InStep, Place, Held
<1>8. Numbered' BY <1>2 DEF Numbered, Busy
<1> QED BY <1>6, <1>7, <1>8

\* A line of the history: the message in hand, of the task that files it.
LEMMA FileDoes ==
  ASSUME Shape, NEW h \in Handlers, File(h)
  PROVE  /\ hand[h].step = "file" /\ Moves(h, "file", "route")
         /\ [msg |-> hand[h].msg, by |-> Source(h)] \in Entry
         /\ history' = Append(history, [msg |-> hand[h].msg, by |-> Source(h)])
         /\ history' \in Seq(Entry)
<1> DEFINE m == hand[h].msg
           by == Source(h)
           e == [msg |-> m, by |-> by]
<1>1. hand[h].step = "file" /\ Moves(h, "file", "route") /\ history' = Append(history, e)
  BY DEF File, Moves
<1>2. m \in Message
  <2>1. m \in 0..MaxSaid /\ Held(h) BY <1>1 DEF Shape, TypeOK, Hand, Held
  <2>2. m > 0
    <3>1. CASE h = Reader BY <2>1, <3>1 DEF Shape, InStep
    <3>2. CASE h \in CatchUps BY <2>1, <3>2 DEF Shape, InStep, Place
    <3> QED BY <3>1, <3>2 DEF Handlers
  <2> QED BY <2>1, <2>2 DEF Message
<1>3. by \in Nat
  <2>1. CASE h = Reader BY <2>1 DEF Source
  <2>2. CASE h \in CatchUps BY <2>2, Blank DEF Shape, TypeOK, CatchUp, Source
  <2> QED BY <2>1, <2>2 DEF Handlers
<1> HIDE DEF m, by
<1>4. e \in Entry BY <1>2, <1>3 DEF Entry
<1> HIDE DEF e
<1>5. Append(history, e) \in Seq(Entry) BY <1>4, AppendProperties DEF Shape, TypeOK
<1> QED BY <1>1, <1>4, <1>5 DEF m, by, e

\* The steps of Next that touch the listener.
ReplayStep(h) ==
  \/ UNCHANGED <<replay, history>>
  \/ ReplayInternal /\ UNCHANGED history
  \/ File(h)
  \/ Moves(h, "route", "open") /\ UNCHANGED history
  \/ (Done(h, "route") \/ Done(h, "open")) /\ UNCHANGED history
  \/ ReplayCrash /\ UNCHANGED history

LEMMA StepsOfNext == [Next]_vars => \E h \in Handlers : ReplayStep(h)
  BY Blank DEF Next, vars, Deliver, Open, Crash, ReplayStep

LEMMA NextShape == Shape /\ [Next]_vars => Shape'
<1> SUFFICES ASSUME Shape, NEW h \in Handlers, ReplayStep(h) PROVE Shape'
  BY StepsOfNext
<1>1. CASE UNCHANGED <<replay, history>>
  BY <1>1 DEF replay, Shape, TypeOK, InStep, Place, Held, Numbered, Busy
<1>2. CASE ReplayInternal /\ UNCHANGED history
  <2>1. ASSUME NEW next \in {"up", "down", "lost"}, Drop(next) \/ Redial(next) PROVE Shape'
    BY <1>2, <2>1, LinkShape
  <2>2. ASSUME NEW c \in CatchUps,
               Ready(c) \/ Baseline(c) \/ ReadCursor(c) \/ FetchPage(c) \/ Hiccup(c) \/ Advance(c)
        PROVE  Shape'
    BY <1>2, <2>2, ReadyShape, EndsShape, ReadCursorShape, FetchShape, AdvanceShape
  <2> QED BY <1>2, <2>1, <2>2, SayShape, ReadEventShape DEF ReplayInternal
<1>3. CASE File(h) BY <1>3, FileDoes, MovesShape
<1>4. CASE Moves(h, "route", "open") /\ UNCHANGED history
  BY <1>4, MovesShape DEF Shape, TypeOK
<1>5. CASE (Done(h, "route") \/ Done(h, "open")) /\ UNCHANGED history
  BY <1>5, DoneShape
<1>6. CASE ReplayCrash /\ UNCHANGED history BY <1>6, CrashShape
<1> QED BY <1>1, <1>2, <1>3, <1>4, <1>5, <1>6 DEF ReplayStep

-----------------------------------------------------------------------------
(* One task goes through the channel in order *)

\* Of a line that is filed, under every step but the filing of another.
LEMMA BehindStays ==
  ASSUME Shape, NEW e \in Entry, Behind(e),
         \/ UNCHANGED replay
         \/ ReplayInternal
         \/ \E h \in Handlers : Moves(h, "route", "open") \/ Done(h, "route") \/ Done(h, "open")
         \/ ReplayCrash
  PROVE  Behind(e)'
<1> USE DEF Shape
<1>1. /\ e.msg \in Nat /\ e.by \in Nat /\ e.msg > 0 /\ said \in Nat /\ passes \in Nat /\ seen \in Nat
      /\ \A c \in CatchUps : catchUp[c].after \in Nat /\ catchUp[c].pass \in Nat
  BY ReplayAssumption DEF Entry, Message, TypeOK, CatchUp
<1>2. CASE UNCHANGED replay BY <1>2 DEF replay, Behind, Busy
<1>3. CASE Say BY <1>1, <1>3 DEF Say, Behind, Busy
<1>4. ASSUME NEW next \in {"up", "down", "lost"}, Drop(next) \/ Redial(next) PROVE Behind(e)'
  BY <1>4 DEF Drop, Redial, Behind, Busy
<1>5. CASE ReadEvent
  <2>1. OnlyHand(Reader) /\ seen' = seen + 1 /\ link = "up" BY <1>5, ReadEventDoes
  <2>2. UNCHANGED <<said, link, catchUp, passes>> BY <1>5 DEF ReadEvent
  <2>3. \A c \in CatchUps : hand'[c] = hand[c] BY <2>1, Blank DEF OnlyHand
  <2>4. e.by = 0 => e.msg <= seen /\ e.msg <= seen + 1 /\ e.msg < seen + 1
    BY <1>1, <2>1 DEF Behind
  <2> QED BY <2>1, <2>2, <2>3, <2>4 DEF Behind, Busy
<1>6. ASSUME NEW c \in CatchUps, Ready(c) PROVE Behind(e)'
  <2>1. Only(c) /\ catchUp'[c].pass = passes + 1 BY <1>6, ReadyDoes
  <2>2. UNCHANGED <<said, hand>> /\ seen' = said /\ passes' = passes + 1 /\ link = "down"
    BY <1>6 DEF Ready
  <2>3. e.by # passes + 1 /\ e.by <= passes + 1 /\ e.msg <= said BY <1>1 DEF Behind
  <2>4. hand[Reader].step # "file" BY <2>2, Blank DEF InStep, Held
  <2> QED BY <2>1, <2>2, <2>3, <2>4 DEF Behind, Busy, Only
<1>7. ASSUME NEW c \in CatchUps, Baseline(c) \/ Hiccup(c) PROVE Behind(e)'
  <2>1. Only(c) /\ catchUp'[c] = Idle /\ ~Busy(c)'
    BY <1>7, EndsDoes, Blank DEF Baseline, Hiccup, Busy
  <2>2. UNCHANGED <<said, link, seen, hand, passes>> BY <1>7 DEF Baseline, Hiccup
  <2> QED BY <2>1, <2>2 DEF Behind, Busy, Only
<1>8. ASSUME NEW c \in CatchUps, ReadCursor(c) PROVE Behind(e)'
  <2>1. Only(c) /\ catchUp[c].step = "cursor" /\ catchUp'[c].pass = catchUp[c].pass
    BY <1>8, ReadCursorDoes
  <2>2. UNCHANGED <<said, link, seen, hand, passes>> BY <1>8 DEF ReadCursor
  <2>3. e.by # catchUp[c].pass
    <3>1. catchUp[c].after = 0 /\ Busy(c) BY <2>1 DEF InStep, Place, Busy
    <3> QED BY <1>1, <3>1 DEF Behind
  <2> QED BY <2>1, <2>2, <2>3 DEF Behind, Busy, Only
<1>9. ASSUME NEW c \in CatchUps, FetchPage(c) PROVE Behind(e)'
  <2>1. /\ Only(c) /\ Busy(c)
        /\ \/ ~Busy(c)'
           \/ catchUp'[c].after = catchUp[c].after /\ catchUp'[c].pass = catchUp[c].pass
    BY <1>9, FetchDoes, Blank DEF Busy
  <2>2. UNCHANGED <<said, link, seen, hand, passes>> BY <1>9 DEF FetchPage
  <2> QED BY <2>1, <2>2 DEF Behind, Busy, Only
<1>10. ASSUME NEW c \in CatchUps, Advance(c) PROVE Behind(e)'
  <2>1. /\ Only(c) /\ Busy(c) /\ catchUp'[c].pass = catchUp[c].pass
        /\ catchUp'[c].after = catchUp[c].after + 1 /\ OnlyHand(c)
    BY <1>10, AdvanceDoes DEF Busy
  <2>2. UNCHANGED <<said, link, seen, passes>> BY <1>10 DEF Advance
  <2>3. hand'[Reader] = hand[Reader] BY <2>1, Blank DEF OnlyHand
  <2>4. catchUp[c].pass = e.by => e.msg <= catchUp[c].after + 1 /\ e.msg < catchUp[c].after + 1
    BY <1>1, <2>1 DEF Behind
  <2>5. \A d \in CatchUps : d # c => hand'[d] = hand[d] BY <2>1, Blank DEF OnlyHand
  <2> QED BY <2>1, <2>2, <2>3, <2>4, <2>5 DEF Behind, Busy, Only
<1>11. ASSUME NEW h \in Handlers, Moves(h, "route", "open") PROVE Behind(e)'
  <2>1. OnlyHand(h) /\ hand'[h].step = "open" BY <1>11, MovesDoes
  <2>2. \A g \in Handlers : hand'[g].step = "file" => hand[g].step = "file"
    BY <2>1 DEF OnlyHand
  <2>3. UNCHANGED <<said, link, seen, passes, catchUp>> BY <1>11 DEF Moves
  <2> QED BY <2>2, <2>3, Blank DEF Behind, Busy
<1>12. ASSUME NEW h \in Handlers, NEW from \in {"route", "open"}, Done(h, from) PROVE Behind(e)'
  <2>1. OnlyHand(h) /\ hand'[h] = Empty BY <1>12, DoneDoes
  <2>2. \A g \in Handlers : hand'[g].step = "file" => hand[g].step = "file"
    BY <2>1, Blank DEF OnlyHand
  <2>3. UNCHANGED <<said, link, seen, passes>> BY <1>12 DEF Done
  <2>4. \A d \in CatchUps : Busy(d)' =>
          Busy(d) /\ catchUp'[d].pass = catchUp[d].pass /\ catchUp'[d].after = catchUp[d].after
    <3>1. CASE h = Reader BY <1>12, <3>1 DEF Done, Busy
    <3>2. CASE h \in CatchUps
      <4>1. /\ Only(h) /\ Busy(h)
            /\ \/ ~Busy(h)'
               \/ catchUp'[h].after = catchUp[h].after /\ catchUp'[h].pass = catchUp[h].pass
        BY <1>12, <3>2, GoesOnWith, Blank DEF Busy
      <4> QED BY <4>1 DEF Only, Busy
    <3> QED BY <3>1, <3>2 DEF Handlers
  <2> QED BY <2>2, <2>3, <2>4, Blank DEF Behind
<1>13. CASE ReplayCrash
  <2>1. /\ link' = "down" /\ UNCHANGED <<said, passes>> /\ hand'[Reader].step # "file"
        /\ \A c \in CatchUps : ~Busy(c)'
    BY <1>13, Blank DEF ReplayCrash, Busy
  <2> QED BY <2>1 DEF Behind
<1> QED BY <1>2, <1>3, <1>4, <1>5, <1>6, <1>7, <1>8, <1>9, <1>10, <1>11, <1>12, <1>13 DEF ReplayInternal

\* A task files what lies behind all it will file, and beyond all it has filed.
LEMMA FilesBehind ==
  ASSUME Shape, NEW h \in Handlers, File(h),
         NEW new \in Entry, new = [msg |-> hand[h].msg, by |-> Source(h)]
  PROVE  /\ Behind(new)'
         /\ \A e \in Entry : Behind(e) => Behind(e)' /\ (e.by = new.by => e.msg < new.msg)
<1> USE DEF Shape
<1>1. hand[h].step = "file" /\ Moves(h, "file", "route")
  BY FileDoes
<1>2. OnlyHand(h) /\ Held(h) /\ hand'[h].step = "route"
  BY <1>1, MovesDoes
<1>3. UNCHANGED <<said, link, seen, passes, catchUp>> BY <1>1 DEF Moves
<1>4. \A g \in Handlers : hand'[g].step = "file" => hand[g].step = "file"
  BY <1>2 DEF OnlyHand
<1>5. \A e \in Entry : Behind(e) => Behind(e)'
  BY <1>3, <1>4, Blank DEF Behind, Busy
<1>6. new.msg = hand[h].msg /\ new.by = Source(h) /\ new.msg \in Nat
  BY DEF Entry, Message
<1>7. CASE h = Reader
  <2>1. new.msg = seen /\ new.by = 0 /\ seen <= said /\ 0 <= passes /\ seen <= seen
    BY <1>2, <1>6, <1>7 DEF InStep, Source, TypeOK
  <2>2. \A c \in CatchUps : Busy(c) => catchUp[c].pass # 0
    BY DEF Numbered
  <2>3. Behind(new)' BY <1>2, <1>3, <1>7, <2>1, <2>2 DEF Behind, Busy
  <2>4. \A e \in Entry : Behind(e) => (e.by = new.by => e.msg < new.msg)
    BY <1>1, <1>7, <2>1 DEF Behind
  <2> QED BY <1>5, <2>3, <2>4
<1>8. CASE h \in CatchUps
  <2>1. /\ catchUp[h].step = "handle" /\ new.msg = catchUp[h].after /\ new.by = catchUp[h].pass /\ Busy(h)
    BY <1>2, <1>6, <1>8, Blank DEF InStep, Source, Busy
  <2>2. new.by \in 1..passes /\ passes \in Nat /\ said \in Nat
    BY <1>8, <2>1 DEF Numbered, TypeOK
  <2>3. new.msg <= said
    <3> DEFINE n == Len(catchUp[h].msgs)
               m == new.msg
    <3>1. n \in Nat
      <4>1. catchUp[h].msgs \in Seq(Message) BY <1>8 DEF TypeOK, CatchUp
      <4> QED BY <4>1, LenProperties
    <3>2. n > 0 /\ m - 1 + n <= said BY <1>8, <2>1 DEF InStep, Place
    <3>3. m \in Nat BY <1>6
    <3> HIDE DEF n, m
    <3>4. m <= said BY <2>2, <3>1, <3>2, <3>3
    <3> QED BY <3>4 DEF m
  <2>4. \A d \in CatchUps : Busy(d) /\ catchUp[d].pass = new.by => d = h
    BY <1>8, <2>1 DEF Numbered
  <2>5. \A e \in Entry : Behind(e) => (e.by = new.by => e.msg < new.msg)
    BY <1>1, <1>8, <2>1 DEF Behind
  <2>6. new.by # 0 /\ new.by <= passes /\ new.msg <= new.msg BY <1>6, <2>2
  <2>7. Behind(new)' BY <1>2, <1>3, <2>1, <2>3, <2>4, <2>6 DEF Behind, Busy
  <2> QED BY <1>5, <2>5, <2>7
<1> QED BY <1>7, <1>8 DEF Handlers

LEMMA NextFilesInOrder == Shape /\ FilesInOrder /\ [Next]_vars => FilesInOrder'
<1> SUFFICES ASSUME Shape, FilesInOrder, NEW h \in Handlers, ReplayStep(h) PROVE FilesInOrder'
  BY StepsOfNext
<1>1. history \in Seq(Entry) /\ \A i \in 1..Len(history) : history[i] \in Entry
  BY DEF Shape, TypeOK
<1>2. CASE File(h)
  <2>1. PICK new \in Entry : /\ new = [msg |-> hand[h].msg, by |-> Source(h)]
                             /\ history' = Append(history, new)
    BY <1>2, FileDoes
  <2>2. /\ Behind(new)'
        /\ \A e \in Entry : Behind(e) => Behind(e)' /\ (e.by = new.by => e.msg < new.msg)
    BY <1>2, <2>1, FilesBehind
  <2> DEFINE n == Len(history)
             longer == history'
  <2>3. /\ \A i \in 1..n : i \in 1..Len(longer) /\ longer[i] = history[i]
        /\ longer[n + 1] = new /\ n \in Nat
        /\ \A i \in 1..Len(longer) : i \in 1..n \/ i = n + 1
    BY <1>1, <2>1, AppendOf
  <2>4. \A i \in 1..n : /\ history[i] \in Entry /\ Behind(history[i])
                        /\ history[i].by = new.by => history[i].msg < new.msg
    BY <1>1, <2>2 DEF FilesInOrder
  <2>5. ASSUME NEW i \in 1..Len(history') PROVE Behind(history[i])'
    <3>1. PICK e \in Entry : e = history'[i] /\ Behind(e)'
      <4>1. CASE i \in 1..n
        <5>1. PICK e \in Entry : e = history[i] /\ Behind(e) BY <2>4, <4>1
        <5> QED BY <2>2, <2>3, <4>1, <5>1
      <4>2. CASE i = n + 1 BY <2>2, <2>3, <4>2
      <4> QED BY <2>3, <4>1, <4>2
    <3> QED BY <3>1 DEF Behind
  <2>6. \A i, j \in 1..n : i < j /\ history[i].by = history[j].by => history[i].msg < history[j].msg
    BY DEF FilesInOrder, Rises
  <2>7. \A i, j \in 1..(n + 1) : i < j => i \in 1..n
    <3> HIDE DEF n
    <3> QED BY <2>3
  <2>8. \A i \in 1..Len(longer) : i \in 1..(n + 1)
    <3> HIDE DEF n
    <3> QED BY <2>3
  <2>9. \A i, j \in 1..Len(longer) : i < j /\ longer[i].by = longer[j].by => longer[i].msg < longer[j].msg
    <3> HIDE DEF n, longer
    <3> TAKE i, j \in 1..Len(longer)
    <3> HAVE i < j /\ longer[i].by = longer[j].by
    <3>1. i \in 1..n /\ longer[i] = history[i] BY <2>3, <2>7, <2>8
    <3>2. CASE j \in 1..n BY <2>3, <2>6, <3>1, <3>2
    <3>3. CASE j = n + 1 BY <2>3, <2>4, <3>1, <3>3
    <3> QED BY <2>3, <3>2, <3>3
  <2> QED BY <2>5, <2>9 DEF FilesInOrder, Rises
<1>3. CASE ~File(h)
  <2>1. /\ UNCHANGED history
        /\ \/ UNCHANGED replay
           \/ ReplayInternal
           \/ \E g \in Handlers : Moves(g, "route", "open") \/ Done(g, "route") \/ Done(g, "open")
           \/ ReplayCrash
    BY <1>3 DEF ReplayStep
  <2>2. ASSUME NEW i \in 1..Len(history) PROVE Behind(history[i])'
    <3>1. PICK e \in Entry : e = history[i] /\ Behind(e)
      BY <1>1 DEF FilesInOrder
    <3>2. Behind(e)' BY <2>1, <3>1, BehindStays
    <3> QED BY <2>1, <3>1, <3>2 DEF Behind
  <2> QED BY <2>1, <2>2 DEF FilesInOrder, Rises
<1> QED BY <1>2, <1>3

-----------------------------------------------------------------------------
(* Where no catch-up has met a connection, they take turns *)

LEMMA OneHand ==
  ASSUME Shape, Alone, NEW h \in Handlers, Held(h)
  PROVE  /\ cursor = At(hand[h].msg) /\ cursor.at = hand[h].msg /\ cursor.there
         /\ \A g \in Handlers : Held(g) => g = h
         /\ h = Reader => \A c \in CatchUps : ~Busy(c)
<1> USE DEF Shape
<1>1. \A c \in CatchUps : Held(c) => Busy(c) /\ catchUp[c].step = "handle" /\ hand[c].msg = catchUp[c].after
  BY Blank DEF InStep, Busy
<1>2. CASE h = Reader
  <2>1. cursor = At(hand[h].msg) /\ \A c \in CatchUps : ~Busy(c)
    BY <1>2 DEF Alone, InStep
  <2> QED BY <1>1, <1>2, <2>1 DEF Handlers, At
<1>3. CASE h \in CatchUps
  <2>1. Busy(h) /\ cursor = At(hand[h].msg) /\ h # Reader
    BY <1>1, <1>3, Blank DEF Alone
  <2> QED BY <1>1, <1>3, <2>1 DEF Handlers, At, Alone
<1> QED BY <1>2, <1>3 DEF Handlers

LEMMA OnlyBusy ==
  ASSUME Shape, Alone, NEW c \in CatchUps, Busy(c), Only(c)
  PROVE  /\ \A d \in CatchUps : d # c => ~Busy(d) /\ ~Busy(d)'
         /\ ~Held(Reader) /\ \A h \in Handlers : h # c => ~Held(h)
<1>1. \A d \in CatchUps : d # c => ~Busy(d) /\ ~Busy(d)' BY DEF Alone, Only, Busy
<1>2. ~Held(Reader) BY DEF Alone
<1>3. \A d \in CatchUps : d # c => ~Held(d)
  BY <1>1 DEF Shape, InStep, Busy
<1> QED BY <1>1, <1>2, <1>3 DEF Handlers

LEMMA AllIdle == ASSUME ~CatchingUp, NEW c \in CatchUps PROVE ~Busy(c) /\ catchUp[c] = Idle
  BY Blank DEF CatchingUp, Busy

LEMMA ReadEventAlone ==
  ASSUME Shape, Alone, ReadEvent, ~crossed' PROVE Alone'
<1>1. ~CatchingUp BY DEF ReadEvent
<1>2. /\ cursor' = At(seen + 1) /\ seen' = seen + 1 /\ UNCHANGED catchUp /\ seen + 1 \in Nat
      /\ \A c \in CatchUps : ~Busy(c) /\ catchUp[c].step = "idle"
  BY <1>1, AllIdle, Blank DEF ReadEvent, Shape, TypeOK
<1>3. cursor'.at <= seen' /\ cursor'.there BY <1>2 DEF At
<1>4. \A c \in CatchUps : catchUp'[c].step = "idle" BY <1>2
<1> QED BY <1>2, <1>3, <1>4 DEF Alone, Busy

LEMMA ReadyAlone ==
  ASSUME Shape, Alone, NEW c \in CatchUps, Ready(c), ~crossed' PROVE Alone'
<1>1. ~CatchingUp BY DEF Ready
<1>2. /\ Only(c) /\ catchUp'[c].step = "cursor" /\ \A d \in CatchUps : d # c => catchUp'[d].step = "idle"
  BY <1>1, ReadyDoes, AllIdle, Blank DEF Shape, Only
<1>3. UNCHANGED <<cursor, hand, baseline>> /\ seen' = said /\ ~Held(Reader) /\ cursor.at <= said
  BY DEF Ready, Shape, InStep
<1> QED BY <1>2, <1>3 DEF Alone, Busy, Held

LEMMA EndsAlone ==
  ASSUME Shape, Alone, NEW c \in CatchUps, Baseline(c) \/ Hiccup(c), ~crossed' PROVE Alone'
<1>1. /\ Only(c) /\ Busy(c) /\ catchUp'[c].step = "idle"
  BY EndsDoes, Blank DEF Baseline, Hiccup, Busy, Shape
<1>2. /\ \A d \in CatchUps : catchUp'[d].step = "idle"
      /\ ~Held(Reader)
  BY <1>1, OnlyBusy DEF Busy
<1>3. UNCHANGED <<hand, link, seen>> BY DEF Baseline, Hiccup
<1>4. CASE Hiccup(c)
  <2>1. UNCHANGED <<cursor, baseline>> BY <1>4 DEF Hiccup
  <2> QED BY <1>2, <1>3, <2>1 DEF Alone, Busy, Held
<1>5. CASE Baseline(c)
  <2>1. link # "down" => said <= seen
    <3>1. ~Ahead(said) BY <1>5 DEF Baseline
    <3>2. said \in Nat /\ seen \in Nat BY DEF Shape, TypeOK
    <3> QED BY <3>1, <3>2 DEF Ahead
  <2>2. CASE said > 0
    <3>1. cursor'.at = said /\ cursor'.there BY <1>5, <2>2 DEF Baseline, At
    <3> QED BY <1>2, <1>3, <2>1, <3>1 DEF Alone, Busy, Held
  <2>3. CASE ~(said > 0)
    <3>1. UNCHANGED <<cursor, baseline>> BY <1>5, <2>3 DEF Baseline
    <3> QED BY <1>2, <1>3, <3>1 DEF Alone, Busy, Held
  <2> QED BY <2>2, <2>3
<1> QED BY <1>4, <1>5

LEMMA ReadCursorAlone ==
  ASSUME Shape, Alone, NEW c \in CatchUps, ReadCursor(c) PROVE Alone'
<1>1. /\ Only(c) /\ Busy(c) /\ catchUp'[c].step = "page" /\ catchUp'[c].after = cursor.at
  BY ReadCursorDoes DEF Busy, Shape
<1>2. /\ \A d \in CatchUps : d # c => catchUp'[d].step = "idle"
      /\ ~Held(Reader)
  BY <1>1, OnlyBusy DEF Busy
<1>3. UNCHANGED <<hand, link, seen, cursor, baseline>> /\ cursor = At(cursor.at)
  BY DEF ReadCursor, Shape, TypeOK, At
<1> QED BY <1>1, <1>2, <1>3 DEF Alone, Busy, Held

LEMMA FetchAlone ==
  ASSUME Shape, Alone, NEW c \in CatchUps, FetchPage(c), ~crossed' PROVE Alone'
<1> DEFINE k == catchUp[c]
           new == catchUp'[c]
           after == k.after
           n == Len(Page(after))
<1>1. /\ Only(c) /\ k.step = "page" /\ Busy(c)
      /\ \/ new = Idle
         \/ /\ new.step = "each" /\ new.after = after
            /\ new.msgs = Page(after) /\ Page(after) # <<>>
  BY FetchDoes DEF Busy, Shape
<1>2. /\ \A d \in CatchUps : d # c => catchUp'[d].step = "idle"
      /\ ~Held(Reader)
  BY <1>1, OnlyBusy DEF Busy
<1>3. UNCHANGED <<hand, link, seen, cursor, baseline>> BY DEF FetchPage
<1>4. CASE new = Idle
  BY <1>2, <1>3, <1>4, Blank DEF Alone, Busy, Held
<1>5. CASE new.step = "each" /\ new.after = after /\ new.msgs = Page(after) /\ Page(after) # <<>>
  <2>1. cursor = At(after) /\ after \in 0..MaxSaid /\ after <= said /\ said \in 0..MaxSaid /\ seen \in Nat
    BY <1>1 DEF Alone, Shape, TypeOK, CatchUp, InStep, Place
  <2>2. n > 0 /\ n \in Nat /\ \A i \in 1..n : Page(after)[i] = after + i
    BY <1>5, <2>1, PageOf
  <2>3. link # "down" => after + n <= seen
    <3>1. \A i \in 1..n : ~Ahead(Page(after)[i]) BY DEF FetchPage
    <3> HIDE DEF after, n
    <3>2. n \in 1..n BY <2>2
    <3>3. ~Ahead(after + n) BY <2>2, <3>1, <3>2
    <3> QED BY <2>1, <2>2, <3>3 DEF Ahead
  <2> HIDE DEF k, after
  <2>4. link # "down" => new.after + Len(new.msgs) <= seen BY <1>5, <2>3
  <2> QED BY <1>2, <1>3, <1>5, <2>1, <2>4 DEF Alone, Busy, Held
<1> QED BY <1>1, <1>4, <1>5

LEMMA AdvanceAlone ==
  ASSUME Shape, Alone, NEW c \in CatchUps, Advance(c) PROVE Alone'
<1> DEFINE k == catchUp[c]
           new == catchUp'[c]
           after == k.after
           n == Len(k.msgs)
<1>1. /\ Only(c) /\ Busy(c) /\ k.step = "each" /\ new.step = "handle" /\ new.after = after + 1
      /\ new.msgs = k.msgs /\ cursor' = At(after + 1) /\ n > 0 /\ n \in Nat
      /\ OnlyHand(c)
  BY AdvanceDoes DEF Shape, Busy
<1>2. /\ \A d \in CatchUps : d # c => catchUp'[d].step = "idle"
      /\ ~Held(Reader)
  BY <1>1, OnlyBusy DEF Busy
<1>3. UNCHANGED <<link, seen, baseline>> BY DEF Advance
<1>4. ~Held(Reader)' BY <1>1, <1>2, Blank DEF Held, OnlyHand
<1>5. link # "down" => after + n <= seen BY <1>1 DEF Alone
<1>6. after \in Nat /\ seen \in Nat BY DEF Shape, TypeOK, CatchUp
<1>7. cursor'.at = after + 1 /\ cursor'.there BY <1>1 DEF At
<1>8. link # "down" => after + 1 <= seen /\ (after + 1) - 1 + n <= seen
  <2> HIDE DEF after, n
  <2> QED BY <1>1, <1>5, <1>6
<1>9. link # "down" => cursor'.at <= seen /\ new.after - 1 + Len(new.msgs) <= seen
  BY <1>1, <1>7, <1>8
<1> HIDE DEF after, n, k
<1> QED BY <1>1, <1>2, <1>3, <1>4, <1>7, <1>9 DEF Alone, Busy

LEMMA DoneAlone ==
  ASSUME Shape, Alone, NEW h \in Handlers, NEW from \in {"route", "open"}, Done(h, from)
  PROVE  Alone'
<1>1. /\ OnlyHand(h) /\ Held(h) /\ hand'[h] = Empty /\ (h = Reader => UNCHANGED catchUp)
  BY DoneDoes DEF Shape
<1>2. UNCHANGED <<link, seen, cursor, baseline>> BY DEF Done
<1>3. ~Held(Reader)' BY <1>1, OneHand, Blank DEF Held, OnlyHand
<1>4. CASE h = Reader
  BY <1>1, <1>2, <1>3, <1>4 DEF Alone, Busy
<1>5. ASSUME NEW c \in CatchUps, h = c PROVE Alone'
  <2> DEFINE k == catchUp[c]
             new == catchUp'[c]
             after == k.after
             n == Len(k.msgs)
  <2>1. /\ Only(c) /\ k.step = "handle" /\ n \in Nat /\ n > 0
        /\ \/ /\ new.step = "each" /\ new.after = after /\ Len(new.msgs) = n - 1
           \/ /\ new.step = "page" /\ new.after = after
           \/ new = Idle
    BY <1>5, GoesOnWith DEF Shape
  <2>2. Busy(c) BY <2>1 DEF Busy
  <2>3. \A d \in CatchUps : d # c => catchUp'[d].step = "idle"
    BY <2>1, <2>2, OnlyBusy DEF Busy
  <2>4. cursor = At(after) /\ (link # "down" => after - 1 + n <= seen) BY <2>1 DEF Alone
  <2>5. after \in Nat /\ seen \in Nat BY DEF Shape, TypeOK, CatchUp
  <2>6. link # "down" => after + (n - 1) <= seen
    <3> HIDE DEF after, n
    <3> QED BY <2>1, <2>4, <2>5
  <2> HIDE DEF after, n, k
  <2> QED BY <1>2, <1>3, <2>1, <2>3, <2>4, <2>6, Blank DEF Alone, Busy
<1> QED BY <1>4, <1>5 DEF Handlers

LEMMA NextAlone ==
  ASSUME Shape, Alone, ~crossed', NEW h \in Handlers, ReplayStep(h)
  PROVE  Alone'
<1>1. CASE UNCHANGED <<replay, history>> \/ Say
  <2>1. UNCHANGED <<cursor, link, seen, hand, catchUp, baseline>> BY <1>1 DEF replay, Say
  <2> QED BY <2>1 DEF Alone, Busy, Held
<1>2. ASSUME NEW next \in {"up", "down", "lost"}, Drop(next) \/ Redial(next) PROVE Alone'
  <2>1. UNCHANGED <<cursor, seen, hand, catchUp, baseline>> /\ link # "down" BY <1>2 DEF Drop, Redial
  <2> QED BY <2>1 DEF Alone, Busy, Held
<1>3. ASSUME NEW from \in {"file", "route"}, NEW to \in {"route", "open"}, Moves(h, from, to) PROVE Alone'
  <2>1. UNCHANGED <<cursor, link, seen, catchUp, baseline>> BY <1>3 DEF Moves
  <2>2. Held(Reader)' => Held(Reader) BY <1>3, MovesDoes, Blank DEF Shape, Held, OnlyHand
  <2> QED BY <2>1, <2>2 DEF Alone, Busy
<1>4. CASE ReplayCrash
  <2>1. /\ link' = "down" /\ UNCHANGED <<cursor, baseline>>
        /\ \A c \in CatchUps : catchUp'[c].step = "idle"
        /\ ~Held(Reader)'
    BY <1>4, Blank DEF ReplayCrash, Held
  <2> QED BY <2>1 DEF Alone, Busy
<1>5. ASSUME NEW c \in CatchUps,
             Ready(c) \/ Baseline(c) \/ ReadCursor(c) \/ FetchPage(c) \/ Hiccup(c) \/ Advance(c)
      PROVE  Alone'
  BY <1>5, ReadyAlone, EndsAlone, ReadCursorAlone, FetchAlone, AdvanceAlone
<1>6. CASE File(h) BY <1>3, <1>6, FileDoes
<1>7. CASE ReplayInternal BY <1>1, <1>2, <1>5, <1>7, ReadEventAlone DEF ReplayInternal
<1> QED BY <1>1, <1>3, <1>4, <1>6, <1>7, DoneAlone DEF ReplayStep

LEMMA NextGrows ==
  ASSUME Shape, Alone, Grows, ~crossed', NEW h \in Handlers, ReplayStep(h)
  PROVE  Grows'
<1>1. /\ history \in Seq(Entry) /\ \A i \in 1..Len(history) : history[i].msg \in Nat /\ history[i].msg > 0
      /\ cursor.at \in Nat /\ seen \in Nat /\ said \in Nat
  <2>1. history \in Seq(Entry) /\ cursor.at \in Nat /\ seen \in Nat /\ said \in Nat
    BY ReplayAssumption DEF Shape, TypeOK
  <2>2. \A i \in 1..Len(history) : history[i] \in Entry BY <2>1
  <2> QED BY <2>1, <2>2 DEF Entry, Message
<1>2. ASSUME UNCHANGED <<history, cursor>>, \A g \in Handlers : hand'[g].step = "file" => hand'[g] = hand[g]
      PROVE  Grows'
  BY <1>2 DEF Grows
<1>3. CASE UNCHANGED <<replay, history>> BY <1>2, <1>3 DEF replay
<1>4. CASE File(h)
  <2>1. PICK new \in Entry : /\ new = [msg |-> hand[h].msg, by |-> Source(h)]
                             /\ history' = Append(history, new)
    BY <1>4, FileDoes
  <2>2. hand[h].step = "file" /\ Moves(h, "file", "route") /\ new.msg = hand[h].msg /\ Held(h)
    BY <1>4, <2>1, FileDoes DEF Held
  <2>3. UNCHANGED cursor /\ OnlyHand(h) /\ hand'[h].step = "route"
    BY <2>2, MovesDoes DEF Moves, Shape
  <2>4. cursor.at = new.msg /\ \A g \in Handlers : Held(g) => g = h
    BY <2>2, OneHand
  <2>5. \A g \in Handlers : hand'[g].step # "file"
    BY <2>3, <2>4 DEF OnlyHand, Held
  <2> DEFINE n == Len(history)
             longer == history'
  <2>6. /\ \A i \in 1..n : i \in 1..Len(longer) /\ longer[i] = history[i]
        /\ longer[n + 1] = new /\ n \in Nat
        /\ \A i \in 1..Len(longer) : i \in 1..n \/ i = n + 1
    BY <1>1, <2>1, AppendOf
  <2>7. \A i \in 1..n : history[i].msg < new.msg /\ history[i].msg <= cursor.at
    BY <2>2 DEF Grows
  <2>8. \A i, j \in 1..(n + 1) : i < j => i \in 1..n
    <3> HIDE DEF n
    <3> QED BY <2>6
  <2>9. \A i \in 1..Len(longer) : i \in 1..(n + 1)
    <3> HIDE DEF n
    <3> QED BY <2>6
  <2>10. \A i, j \in 1..n : i < j => history[i].msg < history[j].msg BY DEF Grows
  <2>11. new.msg <= new.msg BY <1>1, <2>4
  <2>12. \A i \in 1..Len(longer) : longer[i].msg <= cursor.at
    <3> HIDE DEF n, longer
    <3> QED BY <2>4, <2>6, <2>7, <2>11
  <2>13. \A i, j \in 1..Len(longer) : i < j => longer[i].msg < longer[j].msg
    <3> HIDE DEF n, longer
    <3> TAKE i, j \in 1..Len(longer)
    <3> HAVE i < j
    <3>1. i \in 1..n /\ longer[i] = history[i] BY <2>6, <2>8, <2>9
    <3>2. CASE j \in 1..n BY <2>6, <2>10, <3>1, <3>2
    <3>3. CASE j = n + 1 BY <2>6, <2>7, <3>1, <3>3
    <3> QED BY <2>6, <3>2, <3>3
  <2> QED BY <2>3, <2>5, <2>12, <2>13 DEF Grows
<1>5. CASE Moves(h, "route", "open") /\ UNCHANGED history
  <2>1. OnlyHand(h) /\ hand'[h].step = "open" /\ UNCHANGED cursor BY <1>5, MovesDoes DEF Moves, Shape
  <2> QED BY <1>2, <1>5, <2>1 DEF OnlyHand
<1>6. ASSUME NEW from \in {"route", "open"}, Done(h, from), UNCHANGED history PROVE Grows'
  <2>1. OnlyHand(h) /\ hand'[h] = Empty /\ UNCHANGED cursor BY <1>6, DoneDoes DEF Done, Shape
  <2> QED BY <1>2, <1>6, <2>1, Blank DEF OnlyHand
<1>7. CASE ReplayCrash /\ UNCHANGED history
  BY <1>2, <1>7, Blank DEF ReplayCrash
<1>8. CASE ReadEvent /\ UNCHANGED history
  <2>1. /\ OnlyHand(Reader) /\ cursor' = At(seen + 1) /\ cursor'.at = seen + 1 /\ hand'[Reader].msg = seen + 1
        /\ link = "up" /\ ~CatchingUp
    BY <1>8, ReadEventDoes DEF Shape, ReadEvent, At
  <2>2. \A g \in Handlers : g # Reader => hand'[g] = hand[g] /\ hand[g].step = "none"
    <3>1. \A c \in CatchUps : ~Held(c) BY <2>1, AllIdle, Blank DEF Shape, InStep
    <3> QED BY <2>1, <3>1 DEF OnlyHand, Held, Handlers
  <2>3. \A i \in 1..Len(history) : history[i].msg <= seen + 1 /\ history[i].msg < seen + 1
    <3> TAKE i \in 1..Len(history)
    <3>1. history[i].msg <= cursor.at /\ cursor.at <= seen BY <2>1 DEF Grows, Alone
    <3> QED BY <1>1, <3>1
  <2> QED BY <1>8, <2>1, <2>2, <2>3 DEF Grows
<1>9. ASSUME NEW c \in CatchUps, Baseline(c), UNCHANGED history PROVE Grows'
  <2>1. UNCHANGED hand /\ cursor'.at \in {cursor.at, said} /\ cursor.at <= said
    BY <1>9 DEF Baseline, At, Shape, InStep
  <2>2. \A i \in 1..Len(history) : history[i].msg <= cursor'.at
    <3> TAKE i \in 1..Len(history)
    <3>1. history[i].msg <= cursor.at BY DEF Grows
    <3> QED BY <1>1, <2>1, <3>1
  <2> QED BY <1>9, <2>1, <2>2 DEF Grows
<1>10. ASSUME NEW c \in CatchUps, Advance(c), UNCHANGED history PROVE Grows'
  <2> DEFINE after == catchUp[c].after
  <2>1. /\ Only(c) /\ Busy(c) /\ catchUp[c].step = "each"
        /\ OnlyHand(c) /\ cursor' = At(after + 1) /\ hand'[c].msg = after + 1
    BY <1>10, AdvanceDoes DEF Shape, Busy
  <2>2. \A g \in Handlers : g # c => hand'[g].step = "none"
    BY <2>1, OnlyBusy DEF OnlyHand, Held
  <2>3. cursor = At(after) /\ cursor.at = after /\ cursor'.at = after + 1 /\ after \in Nat
    BY <2>1 DEF Alone, At, Shape, TypeOK, CatchUp
  <2>4. \A i \in 1..Len(history) : history[i].msg <= after + 1 /\ history[i].msg < after + 1
    <3> TAKE i \in 1..Len(history)
    <3>1. history[i].msg <= after BY <2>3 DEF Grows
    <3> HIDE DEF after
    <3> QED BY <1>1, <2>3, <3>1
  <2> HIDE DEF after
  <2> QED BY <1>10, <2>1, <2>2, <2>3, <2>4 DEF Grows
<1>11. ASSUME NEW c \in CatchUps, Ready(c) \/ ReadCursor(c) \/ FetchPage(c) \/ Hiccup(c), UNCHANGED history
       PROVE  Grows'
  BY <1>2, <1>11 DEF Ready, ReadCursor, FetchPage, Hiccup
<1>12. CASE (Say \/ \E next \in {"up", "down", "lost"} : Drop(next) \/ Redial(next)) /\ UNCHANGED history
  BY <1>2, <1>12 DEF Say, Drop, Redial
<1>13. CASE ReplayInternal /\ UNCHANGED history
  BY <1>8, <1>9, <1>10, <1>11, <1>12, <1>13 DEF ReplayInternal
<1> QED BY <1>3, <1>4, <1>5, <1>6, <1>7, <1>13 DEF ReplayStep

-----------------------------------------------------------------------------
(* What is kept *)

LEMMA OnePageLess ==
  ASSUME NEW n \in Nat, NEW p \in Nat, NEW k \in Nat, p > 0, n <= p * k
  PROVE  n - k <= (p - 1) * k
<1>1. (p - 1) * k = p * k - k OBVIOUS
<1>2. p * k \in Nat /\ (p - 1) * k \in Int OBVIOUS
<1> QED BY <1>1, <1>2

\* The other catch-ups have no page, when one has.
LEMMA OnePage ==
  ASSUME Shape, Alone, NEW c \in CatchUps, Busy(c), Only(c),
         /\ catchUp'[c].step = "page" => MaxSaid - catchUp'[c].after <= catchUp'[c].pages * PageSize
         /\ catchUp'[c].step = "each" =>
              Remains(catchUp[c], catchUp[c].after + Len(catchUp[c].msgs))'
         /\ catchUp'[c].step = "handle" =>
              Remains(catchUp[c], catchUp[c].after - 1 + Len(catchUp[c].msgs))'
  PROVE  Pages'
<1>1. \A d \in CatchUps : d # c => catchUp'[d].step = "idle"
  BY OnlyBusy DEF Busy
<1> QED BY <1>1 DEF Pages

LEMMA FetchPages ==
  ASSUME Shape, Alone, Pages, NEW c \in CatchUps, FetchPage(c) PROVE Pages'
<1> DEFINE k == catchUp[c]
           new == catchUp'[c]
           after == k.after
           n == Len(Page(after))
           p == k.pages
           end == after + n
<1>1. /\ Only(c) /\ k.step = "page" /\ Busy(c)
      /\ \/ new = Idle
         \/ /\ new.step = "each" /\ new.after = after /\ new.pages = p - 1
            /\ new.msgs = Page(after) /\ Page(after) # <<>> /\ new.full = (n = PageSize)
  BY FetchDoes DEF Shape, Busy
<1>2. CASE new = Idle BY <1>1, <1>2, Blank, OnePage
<1>3. CASE new.step = "each" /\ new.after = after /\ new.pages = p - 1 /\ new.msgs = Page(after)
           /\ new.full = (n = PageSize)
  <2>1. /\ after \in 0..MaxSaid /\ after <= said /\ said \in 0..MaxSaid /\ seen \in Nat /\ seen <= said
        /\ p \in Nat /\ p > 0 /\ UNCHANGED seen /\ MaxSaid - after <= p * PageSize
    BY <1>1 DEF Shape, TypeOK, CatchUp, InStep, Place, FetchPage, Pages
  <2>2. n \in Nat /\ n = IF said - after < PageSize THEN said - after ELSE PageSize
    BY <2>1, PageOf
  <2> HIDE DEF after, n, p
  <2>3. MaxSaid - after \in Nat /\ PageSize \in Nat \ {0} /\ end \in Nat
    BY <2>1, <2>2, ReplayAssumption
  <2>4. MaxSaid - after - PageSize <= (p - 1) * PageSize
    BY <2>1, <2>3, OnePageLess
  <2>5. IF n = PageSize /\ p - 1 > 0 THEN MaxSaid - end <= (p - 1) * PageSize ELSE seen <= end
    <3>1. CASE n = PageSize /\ p - 1 > 0
      <4>1. MaxSaid - end = MaxSaid - after - PageSize BY <2>1, <2>2, <3>1, ReplayAssumption
      <4> QED BY <2>4, <3>1, <4>1
    <3>2. CASE n # PageSize
      <4>1. end = said BY <2>1, <2>2, <2>3, <3>2
      <4> QED BY <2>1, <3>2, <4>1
    <3>3. CASE n = PageSize /\ p = 1
      <4>1. MaxSaid - after <= PageSize BY <2>1, <2>3, <3>3
      <4>2. seen <= end BY <2>1, <2>3, <3>3, <4>1, ReplayAssumption
      <4> QED BY <3>3, <4>2
    <3> QED BY <2>1, <3>1, <3>2, <3>3
  <2>6. Remains(catchUp[c], catchUp[c].after + Len(catchUp[c].msgs))'
    <3>1. new.full <=> n = PageSize BY <1>3
    <3>2. new.pages = p - 1 /\ new.after + Len(new.msgs) = end BY <1>3 DEF n
    <3> HIDE DEF new, end
    <3> QED BY <2>1, <2>5, <3>1, <3>2 DEF Remains, new
  <2> QED BY <1>1, <1>3, <2>6, OnePage
<1> QED BY <1>1, <1>2, <1>3

LEMMA NextPages ==
  ASSUME Shape, Alone, Pages, WithinPages, ~crossed', NEW h \in Handlers, ReplayStep(h)
  PROVE  Pages'
<1>1. ASSUME UNCHANGED <<seen, catchUp>> PROVE Pages'
  BY <1>1 DEF Pages, Remains
<1>2. ASSUME \A c \in CatchUps : catchUp'[c].step \in {"idle", "cursor"} PROVE Pages'
  BY <1>2 DEF Pages
<1>3. CASE ReadEvent
  <2>1. ~CatchingUp /\ UNCHANGED catchUp BY <1>3 DEF ReadEvent
  <2> QED BY <1>2, <2>1, AllIdle, Blank
<1>4. ASSUME NEW c \in CatchUps, Ready(c) PROVE Pages'
  <2>1. ~CatchingUp /\ Only(c) /\ catchUp'[c].step = "cursor" BY <1>4, ReadyDoes DEF Ready, Shape
  <2> QED BY <1>2, <2>1, AllIdle, Blank DEF Only
<1>5. ASSUME NEW c \in CatchUps, Baseline(c) \/ Hiccup(c) PROVE Pages'
  <2>1. /\ Only(c) /\ Busy(c) /\ catchUp'[c].step = "idle"
    BY <1>5, EndsDoes, Blank DEF Baseline, Hiccup, Busy, Shape
  <2> QED BY <2>1, OnePage
<1>6. ASSUME NEW c \in CatchUps, ReadCursor(c) PROVE Pages'
  <2>1. /\ Only(c) /\ Busy(c) /\ catchUp'[c].step = "page"
        /\ catchUp'[c].after = cursor.at /\ catchUp'[c].pages = MaxPages
    BY <1>6, ReadCursorDoes DEF Shape, Busy
  <2>2. MaxSaid - cursor.at <= MaxPages * PageSize
    <3> DEFINE limit == MaxPages * PageSize
               at == cursor.at
    <3>1. limit \in Nat /\ MaxSaid <= limit BY ReplayAssumption DEF WithinPages
    <3>2. at \in Nat /\ MaxSaid \in Nat BY ReplayAssumption DEF Shape, TypeOK
    <3> HIDE DEF limit, at
    <3>3. MaxSaid - at <= limit BY <3>1, <3>2
    <3> QED BY <3>3 DEF limit, at
  <2> QED BY <2>1, <2>2, OnePage
<1>7. ASSUME NEW c \in CatchUps, Advance(c) PROVE Pages'
  <2> DEFINE k == catchUp[c]
             new == catchUp'[c]
             after == k.after
             n == Len(k.msgs)
  <2>1. /\ Only(c) /\ Busy(c) /\ k.step = "each" /\ new.step = "handle" /\ new.after = after + 1
        /\ new.msgs = k.msgs /\ new.pages = k.pages /\ new.full = k.full /\ n \in Nat
    BY <1>7, AdvanceDoes DEF Shape, Busy
  <2>2. Remains(k, after + n) /\ UNCHANGED seen BY <1>7, <2>1 DEF Pages, Advance
  <2>3. new.after - 1 + Len(new.msgs) = after + n
    <3>1. after \in Nat BY DEF Shape, TypeOK, CatchUp
    <3> HIDE DEF after
    <3> QED BY <2>1, <3>1
  <2>4. Remains(catchUp[c], catchUp[c].after - 1 + Len(catchUp[c].msgs))'
    BY <2>1, <2>2, <2>3 DEF Remains
  <2> QED BY <2>1, <2>4, OnePage
<1>8. ASSUME NEW from \in {"route", "open"}, Done(h, from) PROVE Pages'
  <2>0. UNCHANGED seen BY <1>8 DEF Done
  <2>1. CASE h = Reader BY <1>1, <1>8, <2>0, <2>1 DEF Done
  <2>2. ASSUME NEW c \in CatchUps, h = c PROVE Pages'
    <3> DEFINE k == catchUp[c]
               new == catchUp'[c]
               after == k.after
               n == Len(k.msgs)
    <3>1. /\ Only(c) /\ k.step = "handle" /\ n \in Nat /\ n > 0
          /\ \/ /\ new.step = "each" /\ new.after = after /\ Len(new.msgs) = n - 1
                /\ new.pages = k.pages /\ new.full = k.full
             \/ /\ new.step = "page" /\ new.after = after /\ n = 1 /\ new.pages = k.pages
                /\ k.full /\ k.pages > 0
             \/ new = Idle
      BY <1>8, <2>2, GoesOnWith DEF Shape
    <3>2. Remains(k, after - 1 + n) /\ Busy(c) BY <3>1 DEF Pages, Busy
    <3>3. after \in Nat BY DEF Shape, TypeOK, CatchUp
    <3>4. after + (n - 1) = after - 1 + n /\ (n = 1 => after - 1 + n = after)
      <4> HIDE DEF after, n
      <4> QED BY <3>1, <3>3
    <3>5. CASE new.step = "each" /\ new.after = after /\ Len(new.msgs) = n - 1
               /\ new.pages = k.pages /\ new.full = k.full
      <4>1. Remains(catchUp[c], catchUp[c].after + Len(catchUp[c].msgs))'
        BY <2>0, <3>2, <3>4, <3>5 DEF Remains
      <4> QED BY <3>1, <3>2, <3>5, <4>1, OnePage
    <3>6. CASE new.step = "page" /\ new.after = after /\ n = 1 /\ new.pages = k.pages /\ k.full /\ k.pages > 0
      <4>1. MaxSaid - new.after <= new.pages * PageSize
        BY <3>2, <3>4, <3>6 DEF Remains
      <4> QED BY <3>1, <3>2, <3>6, <4>1, OnePage
    <3>7. CASE new = Idle BY <3>1, <3>2, <3>7, Blank, OnePage
    <3> QED BY <3>1, <3>5, <3>6, <3>7
  <2> QED BY <2>1, <2>2 DEF Handlers
<1>9. CASE ReplayCrash BY <1>2, <1>9, Blank DEF ReplayCrash
<1>10. CASE UNCHANGED <<replay, history>> \/ Say \/ File(h) \/ Moves(h, "route", "open")
  BY <1>1, <1>10 DEF replay, Say, File, Moves
<1>11. CASE \E next \in {"up", "down", "lost"} : Drop(next) \/ Redial(next)
  BY <1>1, <1>11 DEF Drop, Redial
<1>12. CASE ReplayInternal
  BY <1>3, <1>4, <1>5, <1>6, <1>7, <1>10, <1>11, <1>12, FetchPages DEF ReplayInternal
<1> QED BY <1>8, <1>9, <1>10, <1>12 DEF ReplayStep

\* What is filed, cut short or about to be filed stays so.
LEMMA ComingStays ==
  ASSUME Shape, NEW h \in Handlers, ReplayStep(h), NEW m, Coming(m)
  PROVE  Coming(m)'
<1>1. ASSUME UNCHANGED history, missed \subseteq missed',
             \A g \in Handlers : hand[g].step = "file" => hand'[g] = hand[g]
      PROVE  Coming(m)'
  BY <1>1 DEF Coming, Kept
<1>2. CASE UNCHANGED <<replay, history>> BY <1>1, <1>2 DEF replay
<1>3. CASE File(h)
  <2>1. PICK new \in Entry : /\ new = [msg |-> hand[h].msg, by |-> Source(h)]
                             /\ history' = Append(history, new)
    BY <1>3, FileDoes
  <2>2. /\ new.msg = hand[h].msg /\ OnlyHand(h) /\ UNCHANGED missed
    BY <1>3, <2>1, FileDoes, MovesDoes DEF Moves, Shape
  <2>3. /\ \A i \in 1..Len(history) : i \in 1..Len(history') /\ history'[i] = history[i]
        /\ Len(history) + 1 \in 1..Len(history') /\ history'[Len(history) + 1] = new
    BY <2>1, AppendOf DEF Shape, TypeOK
  <2>4. CASE Kept(m) BY <2>2, <2>3, <2>4 DEF Coming, Kept
  <2>5. ASSUME NEW g \in Handlers, hand[g].step = "file", hand[g].msg = m PROVE Coming(m)'
    <3>1. CASE g = h BY <2>2, <2>3, <2>5, <3>1 DEF Coming, Kept
    <3>2. CASE g # h BY <2>2, <2>5, <3>2 DEF Coming, OnlyHand
    <3> QED BY <3>1, <3>2
  <2> QED BY <2>4, <2>5 DEF Coming
<1>4. CASE (Moves(h, "route", "open") \/ Done(h, "route") \/ Done(h, "open")) /\ UNCHANGED history
  <2>1. OnlyHand(h) /\ hand[h].step # "file" /\ UNCHANGED missed
    BY <1>4, MovesDoes, DoneDoes DEF Moves, Done, Shape
  <2> QED BY <1>1, <1>4, <2>1 DEF OnlyHand
<1>5. CASE ReplayCrash /\ UNCHANGED history
  <2>1. missed' = missed \cup {hand[g].msg : g \in {x \in Handlers : hand[x].step = "file"}}
    BY <1>5 DEF ReplayCrash
  <2> QED BY <1>5, <2>1 DEF Coming, Kept
<1>6. CASE ReadEvent /\ UNCHANGED history
  <2>1. OnlyHand(Reader) /\ ~Held(Reader) /\ UNCHANGED missed
    BY <1>6, ReadEventDoes DEF ReadEvent, Shape
  <2> QED BY <1>1, <1>6, <2>1 DEF OnlyHand, Held
<1>7. ASSUME NEW c \in CatchUps, Advance(c), UNCHANGED history PROVE Coming(m)'
  <2>1. OnlyHand(c) /\ catchUp[c].step = "each" /\ UNCHANGED missed
    BY <1>7, AdvanceDoes DEF Advance, Shape
  <2>2. ~Held(c) BY <2>1 DEF Shape, InStep
  <2> QED BY <1>1, <1>7, <2>1, <2>2 DEF OnlyHand, Held
<1>8. ASSUME NEW c \in CatchUps,
             Ready(c) \/ Baseline(c) \/ ReadCursor(c) \/ FetchPage(c) \/ Hiccup(c), UNCHANGED history
      PROVE  Coming(m)'
  BY <1>1, <1>8 DEF Ready, Baseline, ReadCursor, FetchPage, Hiccup
<1>9. CASE (Say \/ \E next \in {"up", "down", "lost"} : Drop(next) \/ Redial(next)) /\ UNCHANGED history
  BY <1>1, <1>9 DEF Say, Drop, Redial
<1>10. CASE ReplayInternal /\ UNCHANGED history
  BY <1>6, <1>7, <1>8, <1>9, <1>10 DEF ReplayInternal
<1> QED BY <1>2, <1>3, <1>4, <1>5, <1>10 DEF ReplayStep

LEMMA NextCovered ==
  ASSUME Shape, Alone, Pages, Covered, ~crossed', NEW h \in Handlers, ReplayStep(h)
  PROVE  Covered'
<1>0. /\ baseline \in Nat /\ cursor.at \in Nat /\ seen \in Nat /\ said \in Nat /\ seen <= said
      /\ \A c \in CatchUps : catchUp[c].after \in Nat
  BY DEF Shape, TypeOK, InStep, CatchUp
<1>1. /\ \A m \in (baseline + 1)..cursor.at : Coming(m)'
      /\ link # "down" /\ (\A c \in CatchUps : ~Busy(c)) => \A m \in (baseline + 1)..seen : Coming(m)'
  BY ComingStays DEF Covered
<1>2. ASSUME UNCHANGED <<cursor, baseline>>,
             link' # "down" /\ (\A c \in CatchUps : ~Busy(c)') =>
               seen' = seen /\ link # "down" /\ (\A c \in CatchUps : ~Busy(c))
      PROVE  Covered'
  BY <1>1, <1>2 DEF Covered
<1>3. CASE UNCHANGED <<replay, history>> \/ Say \/ File(h) \/ Moves(h, "route", "open")
  BY <1>2, <1>3 DEF replay, Say, File, Moves, Busy
<1>4. ASSUME NEW next \in {"up", "down", "lost"}, Drop(next) \/ Redial(next) PROVE Covered'
  BY <1>2, <1>4 DEF Drop, Redial, Busy
<1>5. CASE ReplayCrash BY <1>2, <1>5 DEF ReplayCrash
<1>6. ASSUME NEW c \in CatchUps, Ready(c) PROVE Covered'
  <2>1. UNCHANGED <<cursor, baseline>> /\ Busy(c)' BY <1>6, ReadyDoes DEF Ready, Shape, Busy
  <2> QED BY <1>2, <2>1
<1>7. ASSUME NEW c \in CatchUps, ReadCursor(c) PROVE Covered'
  <2>1. UNCHANGED <<cursor, baseline>> /\ Busy(c)' BY <1>7, ReadCursorDoes DEF ReadCursor, Shape, Busy
  <2> QED BY <1>2, <2>1
<1>8. CASE ReadEvent
  <2>1. /\ hand'[Reader].step = "file" /\ hand'[Reader].msg = seen + 1 /\ seen' = seen + 1
        /\ cursor' = At(seen + 1) /\ link = "up" /\ ~CatchingUp /\ UNCHANGED baseline
    BY <1>8, ReadEventDoes DEF ReadEvent, Shape
  <2>2. \A m \in (baseline + 1)..seen : Coming(m)' BY <1>1, <2>1, AllIdle
  <2>3. \A m : m = seen + 1 => Coming(m)' BY <2>1, Blank DEF Coming
  <2>4. \A m \in (baseline + 1)..(seen + 1) : m \in (baseline + 1)..seen \/ m = seen + 1
    BY <1>0
  <2>5. cursor'.at = seen + 1 BY <2>1 DEF At
  <2> QED BY <2>1, <2>2, <2>3, <2>4, <2>5 DEF Covered
<1>9. ASSUME NEW c \in CatchUps, Baseline(c) PROVE Covered'
  <2>1. UNCHANGED <<link, seen>> BY <1>9 DEF Baseline
  <2>2. CASE said > 0
    <3>1. cursor'.at = said /\ baseline' = said BY <1>9, <2>2 DEF Baseline, At
    <3>2. \A m \in (said + 1)..said : FALSE BY <1>0
    <3>3. \A m \in (said + 1)..seen : FALSE BY <1>0
    <3> QED BY <2>1, <3>1, <3>2, <3>3 DEF Covered
  <2>3. CASE ~(said > 0)
    <3>1. UNCHANGED <<cursor, baseline>> BY <1>9, <2>3 DEF Baseline
    <3>2. \A m \in (baseline + 1)..seen : FALSE BY <1>0, <2>3
    <3> QED BY <1>1, <2>1, <3>1, <3>2 DEF Covered
  <2> QED BY <2>2, <2>3
<1>10. ASSUME NEW c \in CatchUps, Hiccup(c) PROVE Covered'
  <2> DEFINE after == catchUp[c].after
  <2>1. /\ UNCHANGED <<cursor, baseline, link, seen>>
        /\ missed' = missed \cup (after + 1)..said
    BY <1>10 DEF Hiccup
  <2>2. \A m \in (after + 1)..said : Coming(m)' BY <2>1 DEF Coming, Kept
  <2>3. after = cursor.at
    <3>1. CASE catchUp[c].step = "page" BY <3>1 DEF Alone, At
    <3>2. CASE catchUp[c].step = "cursor" /\ ~cursor.there BY <3>2 DEF Shape, InStep, Place
    <3> QED BY <1>10, <3>1, <3>2 DEF Hiccup
  <2>4. \A m \in (baseline + 1)..seen : m \in (baseline + 1)..cursor.at \/ m \in (after + 1)..said
    <3> HIDE DEF after
    <3> QED BY <1>0, <2>3
  <2> HIDE DEF after
  <2> QED BY <1>1, <2>1, <2>2, <2>4 DEF Covered
<1>11. ASSUME UNCHANGED <<cursor, baseline, seen>>, seen <= cursor.at PROVE Covered'
  <2>1. \A m \in (baseline + 1)..seen : m \in (baseline + 1)..cursor.at BY <1>0, <1>11
  <2> QED BY <1>1, <1>11, <2>1 DEF Covered
<1>12. ASSUME NEW c \in CatchUps, FetchPage(c) PROVE Covered'
  <2>1. UNCHANGED <<cursor, baseline, seen>> BY <1>12 DEF FetchPage
  <2>2. catchUp[c].step = "page" /\ (Busy(c)' \/ catchUp[c].after = said)
    BY <1>12, FetchDoes DEF Shape, Busy
  <2>3. CASE Busy(c)' BY <1>2, <2>1, <2>3
  <2>4. CASE catchUp[c].after = said
    <3>1. cursor.at = said BY <2>2, <2>4 DEF Alone, At
    <3> QED BY <1>0, <1>11, <2>1, <3>1
  <2> QED BY <2>2, <2>3, <2>4
<1>13. ASSUME NEW c \in CatchUps, Advance(c) PROVE Covered'
  <2> DEFINE after == catchUp[c].after
  <2>1. /\ catchUp[c].step = "each" /\ Busy(c)' /\ cursor' = At(after + 1)
        /\ hand'[c].step = "file" /\ hand'[c].msg = after + 1
    BY <1>13, AdvanceDoes DEF Shape, Busy
  <2>2. UNCHANGED baseline /\ cursor.at = after /\ cursor'.at = after + 1
    BY <1>13, <2>1 DEF Advance, Alone, At
  <2>3. \A m : m = after + 1 => Coming(m)' BY <2>1, Blank DEF Coming
  <2>4. \A m \in (baseline + 1)..(after + 1) : m \in (baseline + 1)..after \/ m = after + 1
    <3>1. after \in Nat BY <1>0
    <3> HIDE DEF after
    <3> QED BY <1>0, <3>1
  <2> HIDE DEF after
  <2> QED BY <1>1, <2>1, <2>2, <2>3, <2>4 DEF Covered
<1>14. ASSUME NEW from \in {"route", "open"}, Done(h, from) PROVE Covered'
  <2>1. UNCHANGED <<cursor, baseline, link, seen>> BY <1>14 DEF Done
  <2>2. CASE h = Reader
    <3>1. UNCHANGED catchUp BY <1>14, <2>2 DEF Done
    <3> QED BY <1>2, <2>1, <3>1 DEF Busy
  <2>3. ASSUME NEW c \in CatchUps, h = c PROVE Covered'
    <3> DEFINE k == catchUp[c]
               after == k.after
               n == Len(k.msgs)
    <3>1. /\ k.step = "handle"
          /\ Busy(c)' \/ (n = 1 /\ ~(k.full /\ k.pages > 0))
      BY <1>14, <2>3, GoesOnWith DEF Shape, Busy
    <3>2. CASE Busy(c)' BY <1>2, <2>1, <3>2
    <3>3. CASE n = 1 /\ ~(k.full /\ k.pages > 0)
      <4>1. Remains(k, after - 1 + n) /\ cursor.at = after BY <3>1 DEF Pages, Alone, At
      <4>2. seen <= after - 1 + 1 BY <3>3, <4>1 DEF Remains
      <4>3. after \in Nat BY <1>0
      <4> HIDE DEF after
      <4>4. seen <= cursor.at BY <1>0, <4>1, <4>2, <4>3
      <4> QED BY <1>11, <2>1, <4>4
    <3> QED BY <3>1, <3>2, <3>3
  <2> QED BY <2>2, <2>3 DEF Handlers
<1>15. CASE ReplayInternal
  BY <1>3, <1>4, <1>6, <1>7, <1>8, <1>9, <1>10, <1>12, <1>13, <1>15 DEF ReplayInternal
<1> QED BY <1>3, <1>5, <1>14, <1>15 DEF ReplayStep

LEMMA KeptWhenSettled ==
  ASSUME Shape, Covered, Settled, NEW m \in (baseline + 1)..said
  PROVE  m \in missed \cup Filed
<1>1. \A h \in Handlers : hand[h].step = "none"
  <2>1. \A c \in CatchUps : catchUp[c] = Idle BY AllIdle DEF Settled
  <2>2. \A c \in CatchUps : hand[c].step = "none" BY <2>1, Blank DEF Shape, InStep, Held
  <2> QED BY <2>2, Blank DEF Settled, Handlers
<1>2. Coming(m)
  <2>1. \A c \in CatchUps : ~Busy(c) BY AllIdle DEF Settled
  <2> QED BY <2>1 DEF Settled, Covered
<1> QED BY <1>1, <1>2 DEF Coming, Kept, Filed

-----------------------------------------------------------------------------
(* Sessions *)

\* What lies before the message in hand does so for good.
LEMMA BeforeStays ==
  ASSUME Shape, Alone, ~crossed', NEW h \in Handlers, ReplayStep(h), NEW m \in Nat, Before(m)
  PROVE  Before(m)'
<1>0. cursor.at \in Nat /\ said \in Nat /\ seen \in Nat /\ \A c \in CatchUps : catchUp[c].after \in Nat
  BY DEF Shape, TypeOK, CatchUp
<1>1. ASSUME UNCHANGED cursor,
             \A g \in Handlers : Held(g)' => Held(g) /\ hand'[g].msg = hand[g].msg
      PROVE  Before(m)'
  BY <1>1 DEF Before
<1>2. CASE UNCHANGED <<replay, history>> \/ Say BY <1>1, <1>2 DEF replay, Say, Held
<1>3. ASSUME NEW next, Drop(next) \/ Redial(next) PROVE Before(m)'
  BY <1>1, <1>3 DEF Drop, Redial, Held
<1>4. ASSUME NEW from \in {"file", "route"}, NEW to \in {"route", "open"}, Moves(h, from, to)
      PROVE  Before(m)'
  <2>1. UNCHANGED cursor /\ OnlyHand(h) /\ Held(h) /\ hand'[h].msg = hand[h].msg
    BY <1>4, MovesDoes DEF Moves, Shape
  <2> QED BY <1>1, <2>1 DEF OnlyHand, Held
<1>5. ASSUME NEW from \in {"route", "open"}, Done(h, from) PROVE Before(m)'
  <2>1. UNCHANGED cursor /\ OnlyHand(h) /\ hand'[h] = Empty
    BY <1>5, DoneDoes DEF Done, Shape
  <2> QED BY <1>1, <2>1, Blank DEF OnlyHand, Held
<1>6. CASE ReplayCrash BY <1>1, <1>6, Blank DEF ReplayCrash, Held
<1>7. ASSUME NEW c \in CatchUps, Ready(c) \/ ReadCursor(c) \/ FetchPage(c) \/ Hiccup(c)
      PROVE  Before(m)'
  BY <1>1, <1>7 DEF Ready, ReadCursor, FetchPage, Hiccup, Held
<1>8. CASE ReadEvent
  <2>1. /\ OnlyHand(Reader) /\ hand'[Reader].msg = seen + 1 /\ cursor' = At(seen + 1)
        /\ link = "up" /\ ~CatchingUp
    BY <1>8, ReadEventDoes DEF ReadEvent, Shape
  <2>2. \A g \in Handlers : Held(g)' => g = Reader
    <3>1. \A c \in CatchUps : ~Held(c) BY <2>1, AllIdle, Blank DEF Shape, InStep
    <3> QED BY <2>1, <3>1 DEF OnlyHand, Held, Handlers
  <2>3. m < seen + 1 /\ m <= seen + 1 BY <1>0, <2>1 DEF Before, Alone
  <2>4. cursor'.at = seen + 1 BY <2>1 DEF At
  <2> QED BY <2>1, <2>2, <2>3, <2>4 DEF Before
<1>9. ASSUME NEW c \in CatchUps, Baseline(c) PROVE Before(m)'
  <2>1. UNCHANGED hand /\ cursor'.at \in {cursor.at, said} /\ cursor.at <= said
    BY <1>9 DEF Baseline, At, Shape, InStep
  <2>2. m <= cursor'.at BY <1>0, <2>1 DEF Before
  <2> QED BY <2>1, <2>2 DEF Before, Held
<1>10. ASSUME NEW c \in CatchUps, Advance(c) PROVE Before(m)'
  <2> DEFINE after == catchUp[c].after
  <2>1. /\ Only(c) /\ Busy(c) /\ catchUp[c].step = "each"
        /\ OnlyHand(c) /\ cursor' = At(after + 1) /\ hand'[c].msg = after + 1
    BY <1>10, AdvanceDoes DEF Shape, Busy
  <2>2. \A g \in Handlers : Held(g)' => g = c
    BY <2>1, OnlyBusy DEF OnlyHand, Held
  <2>3. cursor.at = after /\ cursor'.at = after + 1 BY <2>1 DEF Alone, At
  <2>4. m < after + 1 /\ m <= after + 1
    <3>1. after \in Nat /\ m <= after BY <1>0, <2>3 DEF Before
    <3> HIDE DEF after
    <3> QED BY <3>1
  <2> HIDE DEF after
  <2> QED BY <2>1, <2>2, <2>3, <2>4 DEF Before
<1>11. CASE ReplayInternal
  BY <1>2, <1>3, <1>7, <1>8, <1>9, <1>10, <1>11 DEF ReplayInternal
<1> QED BY <1>2, <1>4, <1>5, <1>6, <1>11 DEF ReplayStep, File

Answering == OneSession /\ Queued

LEMMA QueueOf ==
  ASSUME SessionsTyped, NEW s \in Sessions
  PROVE  /\ session[s].queue \in Seq(Message)
         /\ \A i \in 1..Len(session[s].queue) : session[s].queue[i] \in Nat
         /\ turned \in Nat
<1>1. session[s].queue \in Seq(Message) BY DEF SessionsTyped, Session
<1>2. \A i \in 1..Len(session[s].queue) : session[s].queue[i] \in Message BY <1>1
<1> QED BY <1>1, <1>2 DEF Message, SessionsTyped

\* Nothing is queued or answered.
LEMMA AnsweringStays ==
  ASSUME Shape, Alone, ~crossed', SessionsTyped, Answering, NEW h \in Handlers, ReplayStep(h),
         UNCHANGED <<sender, turned, shuffled>>,
         \A s \in Sessions : /\ session'[s].queue = session[s].queue
                             /\ session'[s].state = "free" <=> session[s].state = "free",
         \A g \in Handlers : hand'[g].step = "open" => hand[g].step = "open" \/ sender = None
  PROVE  Answering'
<1>1. OneSession' BY DEF Answering, OneSession
<1>2. \A m \in Nat : Before(m) => Before(m)' BY BeforeStays
<1>3. \A s \in Sessions : \A i \in 1..Len(session'[s].queue) :
        turned < session'[s].queue[i] /\ Before(session[s].queue[i])'
  <2> TAKE s \in Sessions
  <2> TAKE i \in 1..Len(session'[s].queue)
  <2>1. PICK m \in Nat : m = session[s].queue[i] /\ turned < m /\ Before(m)
    BY QueueOf DEF Answering, Queued
  <2>2. Before(m)' /\ session'[s].queue[i] = m BY <1>2, <2>1
  <2> QED BY <2>1, <2>2 DEF Before, Held
<1>4. Before(turned)'
  <2>1. PICK m \in Nat : m = turned /\ Before(m) BY DEF Answering, Queued, SessionsTyped
  <2>2. Before(m)' BY <1>2, <2>1
  <2> QED BY <2>1, <2>2 DEF Before, Held
<1>5. \A g \in Handlers : hand'[g].step = "open" => sender' = None
  BY DEF Answering, Queued
<1>6. \A s \in Sessions : \A i, j \in 1..Len(session'[s].queue) :
        i < j => session'[s].queue[i] < session'[s].queue[j]
  BY DEF Answering, Queued
<1>7. Queued'
  <2>1. turned' = turned /\ ~shuffled' BY DEF Answering, Queued
  <2> QED BY <1>3, <1>4, <1>5, <1>6, <2>1 DEF Queued
<1> QED BY <1>1, <1>7 DEF Answering

\* One session changes.
LEMMA SessionBecomes ==
  ASSUME SessionsTyped, NEW s \in Sessions, NEW x \in Session, session' = [session EXCEPT ![s] = x]
  PROVE  /\ session' \in [Sessions -> Session] /\ session'[s] = x
         /\ \A r \in Sessions : r # s => session'[r] = session[r]
  BY DEF SessionsTyped

LEMMA NoQueue == <<>> \in Seq(Message) /\ Len(<<>>) = 0
  BY EmptySeq

LEMMA EnterDoes ==
  ASSUME SessionsTyped, NEW s \in Sessions, NEW from, NEW to \in SessionState \ {"free"},
         "free" \notin from, Enter(s, from, to)
  PROVE  /\ SessionsTyped' /\ UNCHANGED <<sender, turned, shuffled, crowded>>
         /\ \A r \in Sessions : /\ session'[r].queue = session[r].queue
                                /\ session'[r].state = "free" <=> session[r].state = "free"
<1> DEFINE x == [session[s] EXCEPT !.state = to]
<1>1. /\ session[s].state \in from /\ session' = [session EXCEPT ![s] = x]
      /\ UNCHANGED <<sender, turned, shuffled, crowded>>
  BY DEF Enter, SessionsTyped, Records
<1>2. x \in Session /\ x.state = to /\ x.queue = session[s].queue
  BY DEF SessionsTyped, Session
<1> HIDE DEF x
<1>3. /\ session' \in [Sessions -> Session] /\ session'[s] = x
      /\ \A r \in Sessions : r # s => session'[r] = session[r]
  BY <1>1, <1>2, SessionBecomes
<1> QED BY <1>1, <1>2, <1>3 DEF SessionsTyped

LEMMA FeedDoes ==
  ASSUME SessionsTyped, NEW s \in Sessions, Feed(s)
  PROVE  LET q == session[s].queue IN
         /\ SessionsTyped' /\ UNCHANGED <<sender, crowded>>
         /\ q \in Seq(Message) /\ Len(q) \in Nat /\ Len(q) > 0
         /\ session[s].state = "idle" /\ session'[s].state = "busy"
         /\ turned' = q[1] /\ (shuffled' <=> shuffled \/ q[1] <= turned)
         /\ Len(session'[s].queue) = Len(q) - 1
         /\ \A i \in 1..(Len(q) - 1) : session'[s].queue[i] = q[i + 1]
         /\ \A r \in Sessions : r # s => session'[r] = session[r]
<1> DEFINE q == session[s].queue
           m == Head(q)
           rest == Tail(q)
           x == [state |-> "busy", queue |-> rest]
<1>1. /\ session[s].state = "idle" /\ q # <<>> /\ session' = [session EXCEPT ![s] = x]
      /\ turned' = m /\ shuffled' = (shuffled \/ m <= turned) /\ UNCHANGED <<sender, crowded>>
  BY DEF Feed, SessionsTyped
<1>2. q \in Seq(Message) BY QueueOf
<1> HIDE DEF q
<1>3. /\ Len(q) > 0 /\ Len(q) \in Nat /\ m = q[1] /\ m \in Message
      /\ rest \in Seq(Message) /\ Len(rest) = Len(q) - 1
      /\ \A i \in 1..(Len(q) - 1) : rest[i] = q[i + 1]
  BY <1>1, <1>2, TailOf, LenProperties
<1> HIDE DEF rest, m
<1>4. x \in Session /\ x.state = "busy" /\ x.queue = rest
  BY <1>3 DEF Session, SessionState
<1> HIDE DEF x
<1>5. /\ session' \in [Sessions -> Session] /\ session'[s] = x
      /\ \A r \in Sessions : r # s => session'[r] = session[r]
  BY <1>1, <1>4, SessionBecomes
<1>6. m \in 0..MaxSaid BY <1>3 DEF Message
<1>7. shuffled' \in BOOLEAN BY <1>1 DEF SessionsTyped
<1>8. SessionsTyped' BY <1>1, <1>5, <1>6, <1>7 DEF SessionsTyped
<1> QED BY <1>1, <1>2, <1>3, <1>4, <1>5, <1>8 DEF q

LEMMA FeedAnswers ==
  ASSUME Shape, SessionsTyped, Answering, NEW s \in Sessions, Feed(s), UNCHANGED replay
  PROVE  Answering'
<1> DEFINE q == session[s].queue
           n == Len(q)
<1>1. /\ UNCHANGED <<sender, hand, cursor>> /\ n \in Nat /\ n > 0
      /\ session[s].state = "idle" /\ session'[s].state = "busy"
      /\ turned' = q[1] /\ (shuffled' <=> shuffled \/ q[1] <= turned)
      /\ Len(session'[s].queue) = n - 1
      /\ \A i \in 1..(n - 1) : session'[s].queue[i] = q[i + 1]
      /\ \A r \in Sessions : r # s => session'[r] = session[r]
  BY FeedDoes DEF replay
<1>2. /\ \A i \in 1..n : turned < q[i] /\ Before(q[i]) /\ q[i] \in Nat
      /\ \A i, j \in 1..n : i < j => q[i] < q[j]
      /\ turned \in Nat
  BY QueueOf DEF Answering, Queued
<1>3. 1 \in 1..n /\ \A i \in 1..(n - 1) : i + 1 \in 1..n /\ 1 < i + 1 /\ i \in Nat
  <2> HIDE DEF n
  <2> QED BY <1>1
<1>4. s = sender /\ \A r \in Sessions : r # s => session[r].queue = <<>>
  BY <1>1 DEF Answering, OneSession
<1>5. ~shuffled' BY <1>1, <1>2, <1>3 DEF Answering, Queued
<1>6. \A m : Before(m) => m <= cursor'.at /\ \A h \in Handlers : hand'[h].step # "none" => m < hand'[h].msg
  BY <1>1 DEF Before, Held
<1>7. \A i \in 1..(n - 1) : /\ q[1] < session'[s].queue[i]
                           /\ session'[s].queue[i] <= cursor'.at
                           /\ \A h \in Handlers : hand'[h].step # "none" => session'[s].queue[i] < hand'[h].msg
  BY <1>1, <1>2, <1>3, <1>6
<1>8. \A i, j \in 1..(n - 1) : i < j => session'[s].queue[i] < session'[s].queue[j]
  <2> TAKE i, j \in 1..(n - 1)
  <2> HAVE i < j
  <2>1. i + 1 < j + 1 BY <1>3
  <2> QED BY <1>1, <1>2, <1>3, <2>1
<1>9. OneSession' BY <1>1, <1>4 DEF Answering, OneSession
<1>10. q[1] <= cursor'.at /\ \A h \in Handlers : hand'[h].step # "none" => q[1] < hand'[h].msg
  BY <1>2, <1>3, <1>6
<1>11. ASSUME NEW r \in Sessions
       PROVE  LET t == session'[r].queue IN
              /\ \A i \in 1..Len(t) : /\ turned' < t[i] /\ t[i] <= cursor'.at
                                      /\ \A h \in Handlers : hand'[h].step # "none" => t[i] < hand'[h].msg
              /\ \A i, j \in 1..Len(t) : i < j => t[i] < t[j]
  <2>1. CASE r = s BY <1>1, <1>7, <1>8, <2>1
  <2>2. CASE r # s
    <3>1. session'[r].queue = <<>> BY <1>1, <1>4, <2>2
    <3> QED BY <3>1, NoQueue
  <2> QED BY <2>1, <2>2
<1>12. \A h \in Handlers : hand'[h].step = "open" => sender' = None
  BY <1>1 DEF Answering, Queued
<1>13. Queued' BY <1>1, <1>5, <1>10, <1>11, <1>12 DEF Queued, Before, Held
<1> QED BY <1>9, <1>13 DEF Answering

LEMMA ReturnsDoes ==
  ASSUME SessionsTyped, NEW s \in Sessions, Returns(s)
  PROVE  /\ SessionsTyped' /\ UNCHANGED <<turned, shuffled, crowded>>
         /\ session[s].state # "free" /\ session'[s].state = "free" /\ session'[s].queue = <<>>
         /\ sender' = IF sender = s THEN None ELSE sender
         /\ \A r \in Sessions : r # s => session'[r] = session[r]
<1>1. /\ session[s].state \in {"ending", "failing"} /\ session' = [session EXCEPT ![s] = FreeSession]
      /\ sender' = (IF sender = s THEN None ELSE sender) /\ UNCHANGED <<turned, shuffled, crowded>>
  BY DEF Returns
<1>2. FreeSession \in Session /\ FreeSession.state = "free" /\ FreeSession.queue = <<>>
  BY NoQueue DEF Session, SessionState, FreeSession
<1>3. /\ session' \in [Sessions -> Session] /\ session'[s] = FreeSession
      /\ \A r \in Sessions : r # s => session'[r] = session[r]
  BY <1>1, <1>2, SessionBecomes
<1> QED BY <1>1, <1>2, <1>3 DEF SessionsTyped

\* A session that is over, alone or with the daemon, leaves nothing behind.
LEMMA NoneLeft ==
  ASSUME Shape, SessionsTyped, Answering, UNCHANGED <<turned, shuffled>>, sender' = None,
         \A r \in Sessions : session'[r].state = "free" /\ session'[r].queue = <<>>,
         UNCHANGED cursor, \A h \in Handlers : Held(h)' => Held(h) /\ hand'[h].msg = hand[h].msg
  PROVE  Answering'
<1>1. OneSession' BY WarmSessionAssumption DEF OneSession
<1>2. Before(turned)' BY DEF Answering, Queued, Before
<1>3. \A r \in Sessions : Len(session'[r].queue) = 0 BY NoQueue
<1>4. Queued'
  <2>1. ~shuffled' BY DEF Answering, Queued
  <2> QED BY <1>2, <1>3, <2>1 DEF Queued
<1> QED BY <1>1, <1>4 DEF Answering

LEMMA StepAnswers ==
  ASSUME Shape, Alone, ~crossed', SessionsTyped, Answering, NEW s \in Sessions, UNCHANGED <<replay, history>>,
         \/ BootOk(s) \/ BootFails(s) \/ Feed(s) \/ TurnEnds(s)
         \/ WindsDown(s) \/ BoxDies(s) \/ TurnCeiling(s) \/ Returns(s)
  PROVE  Answering'
<1>1. CASE Feed(s) BY <1>1, FeedAnswers DEF replay
<1>2. CASE Returns(s)
  <2>1. /\ UNCHANGED <<turned, shuffled, hand, cursor>>
        /\ session[s].state # "free" /\ session'[s].state = "free" /\ session'[s].queue = <<>>
        /\ sender' = IF sender = s THEN None ELSE sender
        /\ \A r \in Sessions : r # s => session'[r] = session[r]
    BY <1>2, ReturnsDoes DEF replay
  <2>2. s = sender /\ \A r \in Sessions : r # s => session[r].queue = <<>> /\ session[r].state = "free"
    BY <2>1 DEF Answering, OneSession
  <2> QED BY <2>1, <2>2, NoneLeft DEF Held
<1>3. ASSUME NEW from, NEW to \in SessionState \ {"free"}, "free" \notin from, Enter(s, from, to)
      PROVE  Answering'
  <2>1. ReplayStep(Reader) /\ UNCHANGED hand BY DEF ReplayStep, replay
  <2>2. /\ UNCHANGED <<sender, turned, shuffled>>
        /\ \A r \in Sessions : /\ session'[r].queue = session[r].queue
                               /\ session'[r].state = "free" <=> session[r].state = "free"
    BY <1>3, EnterDoes
  <2> QED BY <2>1, <2>2, AnsweringStays, Blank
<1> QED BY <1>1, <1>2, <1>3 DEF BootOk, BootFails, TurnEnds, WindsDown, BoxDies, TurnCeiling, SessionState

LEMMA MessageInHand ==
  ASSUME Shape, NEW h \in Handlers, Held(h) PROVE hand[h].msg \in Message
<1>1. hand[h].msg \in 0..MaxSaid BY DEF Shape, TypeOK, Hand
<1>2. hand[h].msg > 0
  <2>1. CASE h = Reader BY <2>1 DEF Shape, InStep
  <2>2. CASE h \in CatchUps BY <2>2 DEF Shape, InStep, Place
  <2> QED BY <2>1, <2>2 DEF Handlers
<1> QED BY <1>1, <1>2 DEF Message

LEMMA SendToDoes ==
  ASSUME SessionsTyped, NEW m \in Message, SendTo(m)
  PROVE  /\ SessionsTyped' /\ UNCHANGED <<sender, turned, shuffled, crowded>> /\ sender \in Sessions
         /\ session'[sender].queue = Append(session[sender].queue, m)
         /\ session'[sender].state = session[sender].state
         /\ \A r \in Sessions : r # sender => session'[r] = session[r]
<1> DEFINE s == sender
           longer == Append(session[s].queue, m)
           x == [session[s] EXCEPT !.queue = longer]
<1>1. /\ s \in Sessions /\ session' = [session EXCEPT ![s] = x]
      /\ UNCHANGED <<sender, turned, shuffled, crowded>>
  BY DEF SendTo, Takes, SessionsTyped, Records
<1>2. longer \in Seq(Message) BY <1>1, QueueOf, AppendOf
<1> HIDE DEF s, longer
<1>3. x \in Session /\ x.queue = longer /\ x.state = session[s].state
  BY <1>1, <1>2 DEF SessionsTyped, Session
<1> HIDE DEF x
<1>4. /\ session' \in [Sessions -> Session] /\ session'[s] = x
      /\ \A r \in Sessions : r # s => session'[r] = session[r]
  BY <1>1, <1>3, SessionBecomes
<1>5. SessionsTyped' BY <1>1, <1>4 DEF SessionsTyped
<1> QED BY <1>1, <1>3, <1>4, <1>5 DEF s, longer

\* A task that returns has nothing in hand, and its message is at the cursor.
LEMMA HandOver ==
  ASSUME Shape, Alone, NEW h \in Handlers, NEW from \in {"route", "open"}, Done(h, from)
  PROVE  /\ Held(h) /\ cursor.at = hand[h].msg /\ UNCHANGED cursor
         /\ \A g \in Handlers : hand'[g].step = "none"
<1>1. OnlyHand(h) /\ Held(h) /\ hand'[h] = Empty /\ UNCHANGED cursor
  BY DoneDoes DEF Done, Shape
<1>2. cursor.at = hand[h].msg /\ \A g \in Handlers : Held(g) => g = h
  BY <1>1, OneHand
<1> QED BY <1>1, <1>2, Blank DEF OnlyHand, Held

\* A message goes behind every message that waits.
LEMMA SendToAnswers ==
  ASSUME Shape, Alone, SessionsTyped, Answering, NEW h \in Handlers, Done(h, "route"), SendTo(hand[h].msg)
  PROVE  Answering'
<1>0. PICK m \in Message : m = hand[h].msg
  BY HandOver, MessageInHand
<1>1. /\ Held(h) /\ cursor.at = m /\ UNCHANGED cursor /\ \A g \in Handlers : hand'[g].step = "none"
  BY <1>0, HandOver
<1> DEFINE s == sender
           q == session[s].queue
           longer == session'[s].queue
           n == Len(q)
<1>2. /\ UNCHANGED <<sender, turned, shuffled>> /\ s \in Sessions
      /\ longer = Append(q, m) /\ session'[s].state = session[s].state
      /\ \A r \in Sessions : r # s => session'[r] = session[r]
  BY <1>0, SendToDoes
<1>3. q \in Seq(Message) BY <1>2, QueueOf
<1>4. /\ \A i \in 1..n : i \in 1..Len(longer) /\ longer[i] = q[i]
      /\ longer[n + 1] = m /\ n \in Nat
      /\ \A i \in 1..Len(longer) : i \in 1..n \/ i = n + 1
  BY <1>2, <1>3, AppendOf
<1>5. /\ \A i \in 1..n : turned < q[i] /\ q[i] <= cursor.at /\ q[i] < m
      /\ \A i, j \in 1..n : i < j => q[i] < q[j]
      /\ turned <= cursor.at /\ turned < m
  BY <1>0, <1>1, <1>2 DEF Answering, Queued, Before
<1>6. m <= m BY DEF Message
<1>7. \A i, j \in 1..(n + 1) : i < j => i \in 1..n
  <2> HIDE DEF n
  <2> QED BY <1>4
<1>8. \A i \in 1..Len(longer) : i \in 1..(n + 1)
  <2> HIDE DEF n
  <2> QED BY <1>4
<1>9. \A i, j \in 1..Len(longer) : i < j => longer[i] < longer[j]
  <2> HIDE DEF n, longer, q
  <2> TAKE i, j \in 1..Len(longer)
  <2> HAVE i < j
  <2>1. i \in 1..n /\ longer[i] = q[i] BY <1>4, <1>7, <1>8
  <2>2. CASE j \in 1..n BY <1>4, <1>5, <2>1, <2>2
  <2>3. CASE j = n + 1 BY <1>4, <1>5, <2>1, <2>3
  <2> QED BY <1>4, <2>2, <2>3
<1>10. \A i \in 1..Len(longer) : turned < longer[i] /\ longer[i] <= cursor.at
  <2> HIDE DEF n, longer, q
  <2> QED BY <1>1, <1>4, <1>5, <1>6
<1>11. OneSession'
  BY <1>2 DEF Answering, OneSession
<1>12. ASSUME NEW r \in Sessions
       PROVE  LET t == session'[r].queue IN
              /\ \A i \in 1..Len(t) : turned < t[i] /\ t[i] <= cursor.at
              /\ \A i, j \in 1..Len(t) : i < j => t[i] < t[j]
  <2>1. CASE r = s BY <1>9, <1>10, <2>1
  <2>2. CASE r # s BY <1>2, <2>2 DEF Answering, Queued, Before
  <2> QED BY <2>1, <2>2
<1>13. Queued'
  <2>1. ~shuffled' BY <1>2 DEF Answering, Queued
  <2> HIDE DEF s, q, longer, n
  <2> QED BY <1>1, <1>2, <1>5, <1>12, <2>1 DEF Queued, Before, Held
<1> QED BY <1>11, <1>13 DEF Answering

LEMMA StartWithDoes ==
  ASSUME SessionsTyped, NEW m \in Message, StartWith(m)
  PROVE  /\ SessionsTyped' /\ UNCHANGED <<turned, shuffled, crowded>> /\ sender' \in Sessions
         /\ session'[sender'] = [state |-> "booting", queue |-> <<m>>]
         /\ \A r \in Sessions : r # sender' => session'[r] = session[r]
<1> DEFINE s == CHOOSE x \in Sessions : session[x].state = "free"
           x == [state |-> "booting", queue |-> <<m>>]
<1>1. /\ s \in Sessions /\ session' = [session EXCEPT ![s] = x] /\ sender' = s
      /\ UNCHANGED <<turned, shuffled, crowded>>
  BY DEF StartWith, Records
<1>2. <<m>> \in Seq(Message) OBVIOUS
<1>3. x \in Session BY <1>2 DEF Session, SessionState
<1> HIDE DEF s, x
<1>4. /\ session' \in [Sessions -> Session] /\ session'[s] = x
      /\ \A r \in Sessions : r # s => session'[r] = session[r]
  BY <1>1, <1>3, SessionBecomes
<1>5. SessionsTyped' BY <1>1, <1>4 DEF SessionsTyped
<1> QED BY <1>1, <1>4, <1>5 DEF x

LEMMA StartWithAnswers ==
  ASSUME Shape, Alone, SessionsTyped, Answering, NEW h \in Handlers, Done(h, "open"), StartWith(hand[h].msg)
  PROVE  Answering'
<1>0. PICK m \in Message : m = hand[h].msg
  BY HandOver, MessageInHand
<1>1. /\ Held(h) /\ cursor.at = m /\ UNCHANGED cursor /\ \A g \in Handlers : hand'[g].step = "none"
  BY <1>0, HandOver
<1>2. hand[h].step = "open" /\ sender = None BY DEF Done, Answering, Queued
<1>3. \A r \in Sessions : session[r].state = "free" /\ session[r].queue = <<>>
  BY <1>2, WarmSessionAssumption DEF Answering, OneSession
<1>4. PICK s \in Sessions : s = sender' BY <1>0, StartWithDoes
<1>5. /\ UNCHANGED <<turned, shuffled>> /\ session'[s] = [state |-> "booting", queue |-> <<m>>]
      /\ \A r \in Sessions : r # s => session'[r] = session[r]
  BY <1>0, <1>4, StartWithDoes
<1>6. session'[s].state = "booting" /\ session'[s].queue = <<m>>
  BY <1>5
<1>7. OneSession' BY <1>3, <1>4, <1>5, <1>6 DEF OneSession
<1>8. turned <= cursor.at /\ turned < m /\ ~shuffled
  BY <1>0, <1>1 DEF Answering, Queued, Before
<1>9. m <= m BY DEF Message
<1>10. ASSUME NEW r \in Sessions
       PROVE  LET t == session'[r].queue IN
              /\ \A i \in 1..Len(t) : turned < t[i] /\ t[i] <= cursor.at
              /\ \A i, j \in 1..Len(t) : i < j => t[i] < t[j]
  <2>1. CASE r = s
    <3> DEFINE t == <<m>>
    <3>1. Len(t) = 1 /\ t[1] = m OBVIOUS
    <3>2. \A i \in 1..1 : i = 1 OBVIOUS
    <3> HIDE DEF t
    <3>3. session'[r].queue = t BY <1>6, <2>1 DEF t
    <3>4. \A i \in 1..Len(t) : turned < t[i] /\ t[i] <= cursor.at
      BY <1>1, <1>8, <1>9, <3>1, <3>2
    <3>5. \A i, j \in 1..Len(t) : ~(i < j)
      BY <3>1
    <3> QED BY <3>3, <3>4, <3>5
  <2>2. CASE r # s
    <3>1. session'[r].queue = <<>> BY <1>3, <1>5, <2>2
    <3> QED BY <3>1, NoQueue
  <2> QED BY <2>1, <2>2
<1>11. Queued' BY <1>1, <1>5, <1>8, <1>10 DEF Queued, Before, Held
<1> QED BY <1>7, <1>11 DEF Answering

LEMMA NextSessionsTyped ==
  ASSUME Shape, SessionsTyped, [Next]_vars PROVE SessionsTyped'
<1>1. CASE UNCHANGED sessions BY <1>1 DEF sessions, SessionsTyped
<1>2. ASSUME NEW h \in Handlers, Deliver(h) PROVE SessionsTyped'
  <2>1. CASE UNCHANGED sessions BY <1>1, <2>1
  <2>2. CASE Done(h, "route") /\ SendTo(hand[h].msg)
    <3>1. hand[h].msg \in Message BY <2>2, DoneDoes, MessageInHand DEF Shape
    <3> QED BY <2>2, <3>1, SendToDoes
  <2>3. CASE NoneTakes BY <2>3 DEF NoneTakes, SessionsTyped, Records
  <2> QED BY <1>2, <2>1, <2>2, <2>3 DEF Deliver
<1>3. ASSUME NEW h \in Handlers, Open(h) PROVE SessionsTyped'
  <2>1. Done(h, "open") /\ StartWith(hand[h].msg) BY <1>3 DEF Open
  <2>2. hand[h].msg \in Message BY <2>1, DoneDoes, MessageInHand DEF Shape
  <2> QED BY <2>1, <2>2, StartWithDoes
<1>4. CASE SessionCrash
  <2>1. FreeSession \in Session BY NoQueue DEF Session, SessionState, FreeSession
  <2> QED BY <1>4, <2>1 DEF SessionCrash, SessionsTyped, Records
<1>5. ASSUME NEW s \in Sessions, NEW from, NEW to \in SessionState \ {"free"}, "free" \notin from,
             Enter(s, from, to)
      PROVE  SessionsTyped'
  BY <1>5, EnterDoes
<1>6. CASE SessionStep
  BY <1>5, <1>6, FeedDoes, ReturnsDoes
     DEF SessionStep, BootOk, BootFails, TurnEnds, WindsDown, BoxDies, TurnCeiling, SessionState
<1> QED BY <1>1, <1>2, <1>3, <1>4, <1>6 DEF Next, vars, File, Crash

LEMMA NextAnswers ==
  ASSUME Shape, Alone, ~crossed', ~crowded', SessionsTyped, Answering, [Next]_vars PROVE Answering'
<1>1. ASSUME UNCHANGED sessions, NEW h \in Handlers, ReplayStep(h),
             \A g \in Handlers : hand'[g].step = "open" => hand[g].step = "open" \/ sender = None
      PROVE  Answering'
  BY <1>1, AnsweringStays DEF sessions
<1>2. CASE UNCHANGED vars
  BY <1>1, <1>2, Blank DEF vars, ReplayStep, replay
<1>3. CASE ReplayInternal /\ UNCHANGED <<sessions, history>>
  <2>1. ReplayStep(Reader) BY <1>3 DEF ReplayStep
  <2>2. \A g \in Handlers : hand'[g].step = "open" => hand[g].step = "open"
    <3>1. CASE UNCHANGED hand BY <3>1
    <3>2. CASE ReadEvent BY <3>2, ReadEventDoes DEF Shape, OnlyHand
    <3>3. ASSUME NEW c \in CatchUps, Advance(c)
          PROVE  \A g \in Handlers : hand'[g].step = "open" => hand[g].step = "open"
      BY <3>3, AdvanceDoes DEF Shape, OnlyHand
    <3> QED BY <1>3, <3>1, <3>2, <3>3
         DEF ReplayInternal, Say, Drop, Redial, Ready, Baseline, ReadCursor, FetchPage, Hiccup
  <2> QED BY <1>1, <1>3, <2>1, <2>2, Blank
<1>4. ASSUME NEW h \in Handlers, File(h) PROVE Answering'
  <2>1. OnlyHand(h) /\ hand'[h].step = "route" BY <1>4, FileDoes, MovesDoes DEF Shape
  <2> QED BY <1>1, <1>4, <2>1 DEF ReplayStep, File, OnlyHand
<1>5. ASSUME NEW h \in Handlers, Deliver(h) PROVE Answering'
  <2>0. UNCHANGED history BY <1>5 DEF Deliver
  <2>1. CASE Done(h, "route") /\ UNCHANGED sessions
    <3>1. \A g \in Handlers : hand'[g].step = "none" BY <2>1, HandOver
    <3> QED BY <1>1, <2>0, <2>1, <3>1 DEF ReplayStep
  <2>2. CASE Done(h, "route") /\ SendTo(hand[h].msg) BY <2>2, SendToAnswers
  <2>3. CASE Moves(h, "route", "open") /\ NoneTakes
    <3>1. UNCHANGED <<sender, session, turned, shuffled>> /\ sender = None
      BY <2>3 DEF NoneTakes, Records, SessionsTyped
    <3>2. ReplayStep(h) BY <2>0, <2>3 DEF ReplayStep
    <3> QED BY <3>1, <3>2, AnsweringStays
  <2> QED BY <1>5, <2>1, <2>2, <2>3 DEF Deliver
<1>6. ASSUME NEW h \in Handlers, Open(h) PROVE Answering'
  BY <1>6, StartWithAnswers DEF Open
<1>7. CASE SessionStep /\ UNCHANGED <<replay, history>>
  BY <1>7, StepAnswers DEF SessionStep
<1>8. CASE Crash
  <2>1. /\ sender' = None /\ UNCHANGED <<turned, shuffled, cursor>>
        /\ \A s \in Sessions : session'[s].state = "free" /\ session'[s].queue = <<>>
        /\ \A h \in Handlers : ~Held(h)'
    BY <1>8, Blank DEF Crash, ReplayCrash, SessionCrash, FreeSession, Records, Held
  <2> QED BY <2>1, NoneLeft
<1> QED BY <1>2, <1>3, <1>4, <1>5, <1>6, <1>7, <1>8 DEF Next

-----------------------------------------------------------------------------
(* The theorems *)

LEMMA OnceCrossed ==
  ASSUME [Next]_vars, Shape, SessionsTyped
  PROVE  (~crossed' => ~crossed) /\ (~crowded' => ~crowded)
<1>1. ~crossed' => ~crossed
  <2>1. PICK h \in Handlers : ReplayStep(h) BY StepsOfNext
  <2> QED BY <2>1 DEF ReplayStep, replay, File, Moves, Done, ReplayCrash, ReplayInternal, Say, Drop, Redial,
                      ReadEvent, Ready, Baseline, ReadCursor, FetchPage, Hiccup, Advance, Shape, TypeOK
<1>2. ~crowded' => ~crowded
  BY DEF Next, vars, sessions, File, Deliver, Open, Crash, SessionCrash, SendTo, NoneTakes, StartWith, SessionStep,
         BootOk, BootFails, Feed, TurnEnds, WindsDown, BoxDies, TurnCeiling, Returns, Enter, SessionsTyped
<1> QED BY <1>1, <1>2

LEMMA InitInvariant == Init => IInv
<1> SUFFICES ASSUME Init PROVE IInv
  OBVIOUS
<1>1. Shape BY InitShape
<1>2. /\ \A c \in CatchUps : catchUp[c].step = "idle"
      /\ \A h \in Handlers : hand[h].step = "none"
      /\ cursor.at = 0 /\ baseline = 0 /\ link = "down"
  BY Blank DEF Init, ReplayInit, Absent, At
<1>3. Len(history) = 0 BY EmptySeq DEF Init
<1>4. FilesInOrder
  <2>1. \A i \in 1..Len(history) : FALSE BY <1>3
  <2>2. Rises BY <2>1 DEF Rises
  <2>3. \A i \in 1..Len(history) : Behind(history[i]) BY <2>1
  <2> QED BY <2>2, <2>3 DEF FilesInOrder
<1>5. Alone
  <2>1. Reader \in Handlers BY DEF Handlers
  <2>2. /\ ~Held(Reader)
        /\ \A c \in CatchUps : ~Busy(c) /\ catchUp[c].step \notin {"page", "each", "handle"}
    BY <1>2, <2>1 DEF Held, Busy
  <2>3. baseline = 0 /\ link = "down" BY <1>2
  <2> QED BY <2>2, <2>3 DEF Alone
<1>6. Grows BY <1>3 DEF Grows
<1>7. Pages BY <1>2 DEF Pages
<1>8. Covered BY <1>2 DEF Covered
<1>9. /\ sender = None /\ turned = 0 /\ ~shuffled /\ shuffled \in BOOLEAN /\ crowded \in BOOLEAN
      /\ session = [s \in Sessions |-> FreeSession]
      /\ FreeSession.state = "free" /\ FreeSession.queue = <<>> /\ FreeSession \in Session
  BY NoQueue DEF Init, SessionInit, FreeSession, Session, SessionState
<1>10. SessionsTyped BY <1>9, ReplayAssumption DEF SessionsTyped
<1>11. \A s \in Sessions : Len(session[s].queue) = 0 BY <1>9, NoQueue
<1>12. OneSession BY <1>9, WarmSessionAssumption DEF OneSession
<1>13. Queued BY <1>2, <1>9, <1>11 DEF Queued, Before, Held
<1> QED BY <1>1, <1>4, <1>5, <1>6, <1>7, <1>8, <1>10, <1>12, <1>13 DEF IInv, Shape

LEMMA NextInvariant == IInv /\ [Next]_vars => IInv'
<1> SUFFICES ASSUME IInv, [Next]_vars PROVE IInv'
  OBVIOUS
<1>1. Shape /\ FilesInOrder /\ SessionsTyped BY DEF IInv, Shape
<1>2. PICK h \in Handlers : ReplayStep(h) BY StepsOfNext
<1>3. Shape' /\ FilesInOrder' /\ SessionsTyped' BY <1>1, NextShape, NextFilesInOrder, NextSessionsTyped
<1>4. (~crossed' => ~crossed) /\ (~crowded' => ~crowded) BY <1>1, OnceCrossed
<1>5. ~crossed' => Alone' /\ Grows' BY <1>1, <1>2, <1>4, NextAlone, NextGrows DEF IInv
<1>6. ~crossed' /\ WithinPages => Pages' /\ Covered' BY <1>1, <1>2, <1>4, NextPages, NextCovered DEF IInv
<1>7. ~crossed' /\ ~crowded' => OneSession' /\ Queued'
  BY <1>1, <1>4, NextAnswers DEF IInv, Answering
<1> QED BY <1>3, <1>5, <1>6, <1>7 DEF IInv, Shape, WithinPages

(* In any channel, whatever runs beside its catch-ups, each task files in the
   order people spoke, no message twice; and so does the channel as a whole for
   as long as no catch-up meets a connection, or another catch-up.            *)
THEOREM HistoryGrowsInOrder == Spec => []HistoryInOrder
<1>1. IInv => HistoryInOrder
  BY DEF IInv, FilesInOrder, Rises, Grows, HistoryInOrder
<1> QED BY <1>1, InitInvariant, NextInvariant, PTL DEF Spec

(* The turns of the sessions follow that order, no message with two of them, for
   as long as no catch-up meets a connection and no session's queue is found
   full; late messages and sessions that die or wind down included.           *)
THEOREM SessionsAnswerInOrder == Spec => []InOrder
<1>1. IInv => InOrder
  BY DEF IInv, FilesInOrder, Rises, Grows, HistoryInOrder, Queued, TurnsInOrder, InOrder
<1> QED BY <1>1, InitInvariant, NextInvariant, PTL DEF Spec

(* If a catch-up's pages hold all it can be asked for, then nothing that was said
   since the channel has a cursor is missing from its history when the listener
   has caught up, but for what a crash or a failed REST call cut short; across
   any lost connections, resumes and restarts in which no catch-up met a
   connection.                                                                *)
THEOREM CatchUpLosesNothing ==
  ASSUME WithinPages
  PROVE  Spec => []NothingLost
<1>1. IInv => NothingLost
  BY KeptWhenSettled DEF IInv, Shape, NothingLost
<1> QED BY <1>1, InitInvariant, NextInvariant, PTL DEF Spec
=============================================================================
