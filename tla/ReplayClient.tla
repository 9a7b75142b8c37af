----------------------------- MODULE ReplayClient -----------------------------
(***************************************************************************)
(* MarketClient and TradeClient (src/market_client, src/order_client) with *)
(* the CSVParser they read: one replays the quotes of a file, the other    *)
(* its trades, each row as long after the first as the file says, with     *)
(* heartbeats while it waits.  Its two clocks, of which one only stamps    *)
(* messages, are `now'.                                                    *)
(*                                                                         *)
(* The two classes are the same but for the row; `kind' is which of them   *)
(* runs.  A line of the file is a quote "Q" or a trade "T" with its time   *)
(* in ms, its symbol, and prices in hundred-thousandths, of which the      *)
(* parser keeps four decimals; or it is a header, a comment or empty.      *)
(*                                                                         *)
(* At the other end of the wire the quotes are put into an OrderBook.      *)
(***************************************************************************)
EXTENDS GCMDCodec, OrderBook, Sequences, SequencesExt, FiniteSetsExt

CONSTANTS
  Files,             \* the files: sequences of lines
  Symbols,           \* the strings of SYMBOL_MAX_LEN characters
  HEARTBEAT_PER_MS,  \* 50 in the code
  Word,              \* size_t arithmetic is modulo Word (2^64)
  StartTime,         \* steady_clock when the client starts
  MaxTime            \* bound: the last value of the clock

\* The numbers of a line that the parser reads.
NumbersOf(line) ==
  CASE line.type = "Q" -> {line.timestamp, line.bidPrice, line.bidQuantity,
                           line.askPrice, line.askQuantity}
    [] line.type = "T" -> {line.timestamp, line.price, line.quantity}
    [] OTHER -> {}

\* parseTimestamp computes in 32 of the 64 bits.
ASSUME ClientAssumption ==
  /\ HEARTBEAT_PER_MS \in Nat \ {0}
  /\ MaxTime \in Nat
  /\ StartTime \in 0 .. MaxTime
  /\ Word \in Nat
  /\ Word > 2 * MaxTime
  /\ symbol \in Symbols
  /\ \A f \in Files :
       /\ f \in Seq(Range(f))
       /\ \A i \in DOMAIN f :
            /\ NumbersOf(f[i]) \subseteq Nat
            /\ f[i].type \in {"Q", "T"} => 2 * f[i].timestamp < Word

VARIABLES
  file, kind,      \* what is replayed, and whether it is the quotes or the trades
  now,
  read,            \* how many lines the parser has passed
  reachedEnd,      \* the parser's reachedEnd_
  at,              \* main is at "open", "connect"; run at "first", "send first", "read",
                   \* "wait", "sleep", "done"; or the client has "crashed"
  startTimestamp,
  wakeAt,          \* when the sleep ends
  wire,            \* the frames sent
  sentAt,          \* history: when each frame was sent
  startedAt        \* history: the clock when the first row was read

clientVars == <<file, kind, now, read, reachedEnd, at, startTimestamp, wakeAt, wire,
                sentAt, startedAt>>

ClientInit ==
  /\ file \in Files
  /\ kind \in {"Q", "T"}
  /\ now = StartTime
  /\ read = 0
  /\ reachedEnd = FALSE
  /\ at = "open"
  /\ startTimestamp = 0
  /\ wakeAt = 0
  /\ wire = <<>>
  /\ sentAt = <<>>
  /\ startedAt = 0

-----------------------------------------------------------------------------
(* The parser.                                                             *)

\* The line that skipHeader passes last: the first that is neither empty nor a
\* comment, whatever it is, or the end of the file.
Header(f) ==
  Min({i \in DOMAIN f : f[i].type \notin {"empty", "comment"}} \cup {Len(f)})

\* (Faulty: a row of another type ends the file.)
RowsAheadUntilOther == {i \in {read + 1} \cap DOMAIN file : file[i].type = kind}

\* The rows that are still to come: readQuote skips what is not a quote,
\* readTrade what is not a trade.
RowsAhead == {i \in read + 1 .. Len(file) : file[i].type = kind}

\* copySymbol accepts the next row.
NextRowReadable == RowsAhead # {} /\ file[Min(RowsAhead)].symbol \in Symbols

ParsePrice(price) == price \div 10

\* The row last read, as bodyFromQuote and bodyFromTrade make a message of it.
MessageOfRow ==
  LET row == file[read]
  IN  IF kind = "Q"
      THEN Quote(row.symbol, now, row.bidQuantity, ParsePrice(row.bidPrice),
                 row.askQuantity, ParsePrice(row.askPrice))
      ELSE Trade(row.symbol, now, row.quantity, ParsePrice(row.price), "UNKNOWN", 0)

\* (Faulty: arithmetic without the wrap.)
TimeToSendNoWrap == startTimestamp + file[read].timestamp

\* size_t arithmetic.
TimeToSend == (startTimestamp + file[read].timestamp) % Word

-----------------------------------------------------------------------------
(* run.                                                                    *)

Sends(message) ==
  /\ wire' = Append(wire, Serialise(message))
  /\ sentAt' = Append(sentAt, now)

\* The constructor of CSVParser; the file may not be there.
OpenFile ==
  /\ at = "open"
  /\ \/ at' = "connect" /\ read' = Header(file)
     \/ at' = "crashed" /\ UNCHANGED read
  /\ UNCHANGED <<file, kind, now, reachedEnd, startTimestamp, wakeAt, wire, sentAt, startedAt>>

\* The constructor of ClientConnection; the server may not be there.
Connect ==
  /\ at = "connect"
  /\ at' \in {"first", "crashed"}
  /\ UNCHANGED <<file, kind, now, read, reachedEnd, startTimestamp, wakeAt, wire, sentAt,
                 startedAt>>

\* The first row, read outside the try block: if there is none, or it is
\* malformed, nobody catches the exception.
ReadFirst ==
  /\ at = "first"
  /\ IF NextRowReadable
     THEN /\ at' = "send first"
          /\ read' = Min(RowsAhead)
          /\ startTimestamp' = (now - file[read'].timestamp) % Word
          /\ startedAt' = now
          /\ UNCHANGED reachedEnd
     ELSE /\ at' = "crashed"
          /\ reachedEnd' = (RowsAhead = {})
          /\ UNCHANGED <<read, startTimestamp, startedAt>>
  /\ UNCHANGED <<file, kind, now, wakeAt, wire, sentAt>>

SendFirst ==
  /\ at = "send first"
  /\ Sends(MessageOfRow)
  /\ at' = "read"
  /\ UNCHANGED <<file, kind, now, read, reachedEnd, startTimestamp, wakeAt, startedAt>>

\* A row is read, and end tells whether that ends the file.  The end of the file
\* is an exception too, and the one that run catches; the one about a malformed
\* row is not.
ReadsUnto(end) ==
  /\ at = "read"
  /\ IF reachedEnd \/ RowsAhead = {}
     THEN at' = "done" /\ reachedEnd' = TRUE /\ UNCHANGED read
     ELSE IF NextRowReadable
     THEN at' = "wait" /\ read' = Min(RowsAhead) /\ reachedEnd' = end
     ELSE at' = "crashed" /\ UNCHANGED <<read, reachedEnd>>
  /\ UNCHANGED <<file, kind, now, startTimestamp, wakeAt, wire, sentAt, startedAt>>

\* (Faulty: the parser notes the end with the last row.)
ReadRowEndsEarly == ReadsUnto(read' = Len(file))

ReadRow == ReadsUnto(FALSE)

\* lastSentHeartbeatMS stays 0: a heartbeat goes out in every round.
SleepsUntil(time) ==
  /\ at = "wait"
  /\ now < TimeToSend
  /\ IF now > HEARTBEAT_PER_MS THEN Sends(Heartbeat(now)) ELSE UNCHANGED <<wire, sentAt>>
  /\ wakeAt' = time
  /\ at' = "sleep"
  /\ UNCHANGED <<file, kind, now, read, reachedEnd, startTimestamp, startedAt>>

\* (Faulty: the sleep is as long as the wait.)
WaitAllOfIt == SleepsUntil(TimeToSend)

Wait == SleepsUntil(now + Min({HEARTBEAT_PER_MS, TimeToSend - now}))

WakeUp ==
  /\ at = "sleep"
  /\ now >= wakeAt
  /\ at' = "wait"
  /\ UNCHANGED <<file, kind, now, read, reachedEnd, startTimestamp, wakeAt, wire, sentAt,
                 startedAt>>

SendsRowFrom(time) ==
  /\ at = "wait"
  /\ now >= time
  /\ Sends(MessageOfRow)
  /\ at' = "read"
  /\ UNCHANGED <<file, kind, now, read, reachedEnd, startTimestamp, wakeAt, startedAt>>

\* (Faulty: the row is sent when the sleep ends, or would.)
SendRowEarly == SendsRowFrom(TimeToSend - HEARTBEAT_PER_MS)

SendRow == SendsRowFrom(TimeToSend)

\* A send that fails throws what run does not catch, or the serialiser writes
\* through `buffer', a pointer that is never set.
SendFails ==
  /\ at \in {"send first", "wait"}
  /\ at' = "crashed"
  /\ UNCHANGED <<file, kind, now, read, reachedEnd, startTimestamp, wakeAt, wire, sentAt,
                 startedAt>>

ClientStep == OpenFile \/ Connect \/ ReadFirst \/ SendFirst \/ ReadRow \/ Wait \/ WakeUp \/ SendRow

ClockTicks ==
  /\ now < MaxTime
  /\ now' = now + 1
  /\ UNCHANGED <<file, kind, read, reachedEnd, at, startTimestamp, wakeAt, wire, sentAt,
                 startedAt>>

ClientNext == ClientStep \/ SendFails \/ ClockTicks

\* The client is scheduled and the clock goes on.
ClientSpec ==
  /\ ClientInit
  /\ [][ClientNext]_clientVars
  /\ WF_clientVars(ClientStep)
  /\ WF_clientVars(ClockTicks)

-----------------------------------------------------------------------------
(* Properties.                                                             *)

\* Types; a row waits to be sent exactly where run says so.
ClientTypeOK ==
  /\ now \in StartTime .. MaxTime
  /\ read \in 0 .. Len(file)
  /\ at \in {"open", "connect", "first", "send first", "read", "wait", "sleep", "done", "crashed"}
  /\ startTimestamp \in 0 .. Word - 1
  /\ reachedEnd => at \in {"done", "crashed"}
  /\ Len(sentAt) = Len(wire)

\* Those of the first n elements of s whose index is in I.
PickedUpto(s, I, n) ==
  LET upto[k \in 0 .. Len(s)] ==
        IF k = 0 THEN <<>> ELSE IF k \in I THEN Append(upto[k - 1], s[k]) ELSE upto[k - 1]
  IN  upto[n]

Picked(s, I) == PickedUpto(s, I, Len(s))

\* The rows of this client's type behind the header, in the order of the file.
\* (In a file without one, the first row is taken for it and lost.)
RowLines(f, k) == {i \in Header(f) + 1 .. Len(f) : f[i].type = k}
Rows == Picked(file, RowLines(file, kind))

\* What the other end decodes, without the heartbeats, and when it was sent.
Received(i) == DeserialiseMessage(wire[i])
DataFrames == {i \in DOMAIN wire : Received(i).type # "HEARTBEAT"}
Replayed ==
  Picked([i \in DOMAIN wire |-> [message |-> Received(i), at |-> sentAt[i]]], DataFrames)

\* A message says what a row says, with prices to four decimals and quantities
\* to 32 bits.
FourDecimals(price, written) == price * 10 \in written - 9 .. written

Says(message, row) ==
  /\ message.symbol = row.symbol
  /\ \/ /\ row.type = "Q" /\ message.type = "QUOTE"
        /\ message.bidQuantity = row.bidQuantity % QuantityWord
        /\ message.askQuantity = row.askQuantity % QuantityWord
        /\ FourDecimals(message.bidPrice, row.bidPrice)
        /\ FourDecimals(message.askPrice, row.askPrice)
     \/ /\ row.type = "T" /\ message.type = "TRADE"
        /\ message.quantity = row.quantity % QuantityWord
        /\ FourDecimals(message.price, row.price)

\* The other end gets the rows of the client's type, each once and in the order
\* of the file; at the end it has all of them.
ReplaysTheRows ==
  /\ Len(Replayed) <= Len(Rows)
  /\ \A i \in DOMAIN Replayed : Says(Replayed[i].message, Rows[i])
  /\ at = "done" => Len(Replayed) = Len(Rows)

\* From the file over the wire to the order book: whatever symbols the file
\* mixes, the book has counted the rows of its own that were sent, and shows
\* the last of them.
BookShowsTheFile ==
  kind = "Q" =>
    LET book[n \in 0 .. Len(Replayed)] ==
          IF n = 0 THEN NewBook ELSE SetQuote(book[n - 1], Replayed[n].message)
        shown == book[Len(Replayed)]
        own == Picked(SubSeq(Rows, 1, Len(Replayed)),
                      {i \in 1 .. Len(Replayed) : Rows[i].symbol = symbol})
    IN  /\ shown.quotesReceived = Len(own)
        /\ own # <<>> => Says(shown.latestQuote, Last(own))

\* No row is sent before its time: at least as long after the first as the file
\* says, though the start of the day lies before the start of the clock.
NeverEarly ==
  \A i \in DOMAIN Replayed :
    Replayed[i].at - startedAt >= Rows[i].timestamp - Rows[1].timestamp

\* The client never plans to wait for longer than HEARTBEAT_PER_MS after its
\* last heartbeat.  (It sends none between rows that are overdue.)
BeatsWhileWaiting ==
  at = "sleep"
    => \E i \in DOMAIN wire : /\ DeserialiseMessage(wire[i]).type = "HEARTBEAT"
                              /\ wakeAt - sentAt[i] <= HEARTBEAT_PER_MS

\* A client ends, at the end of its file or with a failure, also when its rows
\* are malformed or not in the order of time, or the day began before the
\* clock.  (The clock must get to the last row's time before its bound.)
ReplayEnds ==
  [](\A i \in DOMAIN Rows : startedAt + Rows[i].timestamp - Rows[1].timestamp <= MaxTime)
    => <>(at \in {"done", "crashed"})
=============================================================================
