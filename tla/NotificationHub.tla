--------------------------- MODULE NotificationHub ---------------------------
(***************************************************************************)
(* The notification streams of one user: the hub of NotificationService    *)
(* and StreamNotifications.  The hub keeps a Go slice of channels.         *)
(* Subscribe appends to it and Unsubscribe closes the gap in place, both   *)
(* under the lock; broadcastToUser copies the slice header under the lock  *)
(* and then reads the array without it.  The arrays are therefore part of  *)
(* the model: a slice is an array and a length, and arrays are shared.     *)
(*                                                                         *)
(* Nothing in the repository calls Notify yet: the notifiers stand for the *)
(* callers it is written for.  Streams of other users only hold the lock   *)
(* for a while.                                                            *)
(***************************************************************************)
EXTENDS Integers, Sequences, FiniteSets

CONSTANTS
  Stream,     \* StreamNotifications calls of the user, each with its channel
  Notifier,   \* goroutines that call Notify
  Buffer,     \* NotificationChannelBuffer
  MaxNotify,  \* bound on the calls of Notify
  NoStream    \* a nil cell, no writer, or no channel

ASSUME NoStreamAssumption == NoStream \notin Stream
ASSUME BufferAssumption == Buffer \in Nat \ {0} /\ MaxNotify \in Nat

VARIABLES
  heap,      \* the arrays ever allocated for the slice, a sequence
  header,    \* subscribers[userID]: array and length, array 0 for none
  writer,    \* the stream that holds the lock in Unsubscribe
  moving,    \* what its append still has to store, by cell
  stream,    \* how far every StreamNotifications call is
  buffered,  \* of every channel, the number of notifications in it
  notifier,  \* the local state of every notifier
  notified,  \* number of calls of Notify
  crashed    \* a send on a closed channel has ended the process

hubVars ==
  <<heap, header, writer, moving, stream, buffered, notifier, notified, crashed>>

-----------------------------------------------------------------------------
(* Data *)

NoHeader == [array |-> 0, len |-> 0]

Cells(h) == SubSeq(IF h.array = 0 THEN <<>> ELSE heap[h.array], 1, h.len)

Capacity(h) == IF h.array = 0 THEN 0 ELSE Len(heap[h.array])

\* header: the copy of the slice.  at cell k; ch: the channel read from it.
\* subscribed, offered and raced are history: the streams subscribed when the
\* header was copied, those offered the notification so far, and whether an
\* Unsubscribe has started since.
NotifierIdle == [at |-> "idle", header |-> NoHeader, k |-> 1, ch |-> NoStream,
                 subscribed |-> {}, offered |-> <<>>, raced |-> FALSE]

Subscribed == {s \in Stream : stream[s] \in {"streaming", "leaving"}}

\* A channel is closed by its own Unsubscribe and by nothing else.
OpenChannel(s) == stream[s] # "ended"

-----------------------------------------------------------------------------
(* StreamNotifications *)

\* Append to a slice: in place when its array has room, otherwise in a new
\* array twice as long.  The lock is taken and released in this step.
Subscribe(s) ==
  LET grown == [i \in 1..(IF header.len = 0 THEN 1 ELSE 2 * header.len) |->
                  IF i <= header.len THEN Cells(header)[i]
                  ELSE IF i = header.len + 1 THEN s ELSE NoStream]
  IN  /\ ~crashed
      /\ writer = NoStream
      /\ stream[s] = "new"
      /\ IF header.len < Capacity(header)
         THEN /\ heap' = [heap EXCEPT ![header.array][header.len + 1] = s]
              /\ header' = [header EXCEPT !.len = @ + 1]
         ELSE /\ heap' = Append(heap, grown)
              /\ header' = [array |-> Len(heap) + 1, len |-> header.len + 1]
      /\ stream' = [stream EXCEPT ![s] = "streaming"]
      /\ UNCHANGED <<writer, moving, buffered, notifier, notified, crashed>>

\* Receive and Send; a failed Send ends the stream.
ReceiveAndSend(s) ==
  /\ ~crashed
  /\ stream[s] = "streaming"
  /\ buffered[s] > 0
  /\ buffered' = [buffered EXCEPT ![s] = @ - 1]
  /\ \E next \in {"streaming", "leaving"} : stream' = [stream EXCEPT ![s] = next]
  /\ UNCHANGED <<heap, header, writer, moving, notifier, notified, crashed>>

\* ctx.Done
ClientLeaves(s) ==
  /\ ~crashed
  /\ stream[s] = "streaming"
  /\ stream' = [stream EXCEPT ![s] = "leaving"]
  /\ UNCHANGED <<heap, header, writer, moving, buffered, notifier, notified,
                 crashed>>

Overtaken == [n \in Notifier |->
                [notifier[n] EXCEPT !.raced = @ \/ notifier[n].at # "idle"]]

\* The deferred Unsubscribe takes the lock and finds its channel; the append
\* then moves the channels after it one cell forward.
UnsubscribeLocks(s) ==
  LET i == CHOOSE j \in 1..header.len : Cells(header)[j] = s
  IN  /\ ~crashed
      /\ stream[s] = "leaving"
      /\ writer = NoStream
      /\ writer' = s
      /\ moving' = [j \in i..header.len - 1 |-> Cells(header)[j + 1]]
      /\ notifier' = Overtaken
      /\ UNCHANGED <<heap, header, stream, buffered, notified, crashed>>

MoveCell(s, j) ==
  /\ ~crashed
  /\ writer = s
  /\ j \in DOMAIN moving
  /\ heap' = [heap EXCEPT ![header.array][j] = moving[j]]
  /\ moving' = [m \in DOMAIN moving \ {j} |-> moving[m]]
  /\ UNCHANGED <<header, writer, stream, buffered, notifier, notified, crashed>>

\* Variant that closes the channel and leaves the slice as it was.
ShorterByNone == header

\* The key is deleted with the last channel: the next append starts afresh.
Shorter == IF header.len = 1 THEN NoHeader ELSE [header EXCEPT !.len = @ - 1]

UnsubscribeCloses(s) ==
  /\ ~crashed
  /\ writer = s
  /\ DOMAIN moving = {}
  /\ header' = Shorter
  /\ stream' = [stream EXCEPT ![s] = "ended"]
  /\ writer' = NoStream
  /\ UNCHANGED <<heap, moving, buffered, notifier, notified, crashed>>

-----------------------------------------------------------------------------
(* Notify *)

\* Create has stored the notification; broadcastToUser copies the header.
Notify(n) ==
  /\ ~crashed
  /\ notifier[n].at = "idle"
  /\ writer = NoStream
  /\ notified < MaxNotify
  /\ notifier' = [notifier EXCEPT ![n] =
                    [NotifierIdle EXCEPT !.at = "read", !.header = header,
                                         !.subscribed = Subscribed]]
  /\ notified' = notified + 1
  /\ UNCHANGED <<heap, header, writer, moving, stream, buffered, crashed>>

\* Variant that gives up at the first full channel.
MoreToSendUnlessFull(n) ==
  /\ notifier[n].k <= notifier[n].header.len
  /\ \A i \in DOMAIN notifier[n].offered :
       buffered[notifier[n].offered[i]] < Buffer

MoreToSend(n) == notifier[n].k <= notifier[n].header.len

ReadCell(n) ==
  LET me == notifier[n]
  IN  /\ ~crashed
      /\ me.at = "read"
      /\ MoreToSend(n)
      /\ notifier' = [notifier EXCEPT ![n].at = "send",
                                      ![n].ch = Cells(me.header)[me.k]]
      /\ UNCHANGED <<heap, header, writer, moving, stream, buffered, notified,
                     crashed>>

\* The select skips a full channel.  A send on a closed one panics, and no
\* interceptor recovers.
SendOrSkip(n) ==
  LET ch == notifier[n].ch
  IN  /\ ~crashed
      /\ notifier[n].at = "send"
      /\ IF OpenChannel(ch)
         THEN /\ buffered' = [buffered EXCEPT ![ch] =
                                IF @ < Buffer THEN @ + 1 ELSE @]
              /\ notifier' = [notifier EXCEPT
                                ![n].at = "read", ![n].k = @ + 1,
                                ![n].ch = NoStream,
                                ![n].offered = Append(@, ch)]
              /\ UNCHANGED crashed
         ELSE crashed' = TRUE /\ UNCHANGED <<buffered, notifier>>
      /\ UNCHANGED <<heap, header, writer, moving, stream, notified>>

NotifyEnds(n) ==
  /\ ~crashed
  /\ notifier[n].at = "read"
  /\ ~MoreToSend(n)
  /\ notifier' = [notifier EXCEPT ![n] = NotifierIdle]
  /\ UNCHANGED <<heap, header, writer, moving, stream, buffered, notified,
                 crashed>>

-----------------------------------------------------------------------------
HubInit ==
  /\ heap = <<>>
  /\ header = NoHeader
  /\ writer = NoStream
  /\ moving = <<>>
  /\ stream = [s \in Stream |-> "new"]
  /\ buffered = [s \in Stream |-> 0]
  /\ notifier = [n \in Notifier |-> NotifierIdle]
  /\ notified = 0
  /\ crashed = FALSE

Unsubscribe(s) ==
  \/ UnsubscribeLocks(s)
  \/ \E j \in 1..Cardinality(Stream) : MoveCell(s, j)
  \/ UnsubscribeCloses(s)

HubNext ==
  \/ \E s \in Stream :
       Subscribe(s) \/ ReceiveAndSend(s) \/ ClientLeaves(s) \/ Unsubscribe(s)
  \/ \E n \in Notifier :
       Notify(n) \/ ReadCell(n) \/ SendOrSkip(n) \/ NotifyEnds(n)

HubSpec == HubInit /\ [][HubNext]_hubVars

-----------------------------------------------------------------------------
(* Properties *)

Header == [array : Nat, len : Nat]

HubTypeOK ==
  /\ \A i \in DOMAIN heap : heap[i] \in Seq(Stream \cup {NoStream})
  /\ header \in Header
  /\ header.array \in 0..Len(heap) /\ header.len <= Capacity(header)
  /\ writer \in Stream \cup {NoStream}
  /\ stream \in [Stream -> {"new", "streaming", "leaving", "ended"}]
  /\ buffered \in [Stream -> 0..Buffer]
  /\ \A n \in Notifier :
       /\ notifier[n].at \in {"idle", "read", "send"}
       /\ notifier[n].header \in Header
       /\ notifier[n].k \in 1..notifier[n].header.len + 1
       /\ notifier[n].ch \in Stream \cup {NoStream}
       /\ notifier[n].subscribed \subseteq Stream
       /\ notifier[n].offered \in Seq(Stream)
  /\ notified \in 0..MaxNotify

\* Whenever nobody is inside Unsubscribe, the slice holds the channel of every
\* subscribed stream once and no other: sharing an array with slices that were
\* copied earlier never adds, loses or doubles a subscriber.
SubscribersMatch ==
  (writer = NoStream /\ ~crashed) =>
    /\ header.len = Cardinality(Subscribed)
    /\ {Cells(header)[i] : i \in 1..header.len} = Subscribed

\* A broadcast that no Unsubscribe has overtaken offers the notification to
\* every stream subscribed when it began, once, whatever streams join it; only
\* one that has been overtaken can meet a closed channel and end the process.
BroadcastSound ==
  \A n \in Notifier :
    LET me == notifier[n]
    IN  (me.at # "idle" /\ ~me.raced) =>
          /\ me.at = "send" => OpenChannel(me.ch)
          /\ \A i, j \in DOMAIN me.offered :
               me.offered[i] = me.offered[j] => i = j
          /\ {me.offered[i] : i \in DOMAIN me.offered} \subseteq me.subscribed
          /\ (me.at = "read" /\ ~MoreToSend(n)) =>
               Len(me.offered) = Cardinality(me.subscribed)

=============================================================================
