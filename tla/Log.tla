--------------------------------- MODULE Log ---------------------------------
(***************************************************************************)
(* log.cpp: the channels of the log.  A message is a LogChannel with a     *)
(* stream of its own, whose buffer goes to the writer of the channel piece *)
(* by piece; the writer copies a piece unit by unit under its mutex.       *)
(* LogInfo and LogMsg have a writer each, and often one stream.            *)
(***************************************************************************)
EXTENDS Naturals, Sequences, SequencesExt

CONSTANTS
  Loggers,   \* threads that log
  Piece      \* units of a message the buffer of its stream holds

ASSUME LogAssumption == Piece \in Nat \ {0}

VARIABLES
  setup,     \* LogSetup::_setup: <<>>, or <<[app |-> stream, quiet |-> BOOLEAN]>>
  message,   \* of each thread what is left of its message
  out        \* the units that were written, to whatever stream

logVars == <<setup, message, out>>

\* channel is "" without a message; piece is what the writer has been given.
NoMessage == [channel |-> "", piece |-> <<>>, rest |-> <<>>]

LogInit ==
  /\ setup = <<>> /\ out = <<>>
  /\ message = [t \in Loggers |-> NoMessage]

\* LogSetup::create, which throws the second time.
CreateLog(app, quiet) == setup = <<>> /\ setup' = <<[app |-> app, quiet |-> quiet]>>

AppStream == setup[1].app
Quiet == setup[1].quiet

\* Where a channel writes to.  LogDebug, and LogInfo when it is quiet, lead nowhere.
StreamOf(channel) ==
  CASE channel = "error" -> "stderr"
    [] channel = "info" /\ ~Quiet -> "stdout"
    [] channel = "msg" -> AppStream
    [] OTHER -> "none"

\* about is what the message is about, which only the properties look at.
Units(channel, about, texts) ==
  [i \in DOMAIN texts |-> [channel |-> channel, about |-> about, n |-> i, text |-> texts[i]]]

Say(t, channel, about, texts) ==
  message' = [message EXCEPT ![t] =
    IF StreamOf(channel) = "none" \/ texts = <<>> THEN NoMessage
    ELSE [channel |-> channel, piece |-> <<>>, rest |-> Units(channel, about, texts)]]

Silent(t) == message[t] = NoMessage

-----------------------------------------------------------------------------
(* LogStream, LogSink and LogWriter.                                       *)

\* Who is in LogWriter::flush of a channel has its mutex.
Flushing(t, channel) == message[t].channel = channel /\ message[t].piece # <<>>

\* The first units of the rest become the piece.
GiveAway(t) ==
  LET rest == message[t].rest
      n == IF Len(rest) < Piece THEN Len(rest) ELSE Piece
  IN /\ ~Silent(t) /\ message[t].piece = <<>>
     /\ message' = [message EXCEPT ![t].piece = SubSeq(rest, 1, n),
                                   ![t].rest = SubSeq(rest, n + 1, Len(rest))]
     /\ UNCHANGED <<setup, out>>

\* Mutant: the mutex is not taken.
FlushUnlocked(t) == GiveAway(t)

Flush(t) ==
  /\ \A u \in Loggers \ {t} : ~Flushing(u, message[t].channel)
  /\ GiveAway(t)

\* std::copy into the stream, then the mutex is released.
Copy(t) ==
  /\ message[t].piece # <<>>
  /\ out' = Append(out, Head(message[t].piece))
  /\ LET m == message[t]
         last == Len(m.piece) = 1 /\ m.rest = <<>>
     IN message' = [message EXCEPT ![t] = IF last THEN NoMessage
                                          ELSE [m EXCEPT !.piece = Tail(m.piece)]]
  /\ UNCHANGED setup

Log(t) == Flush(t) \/ Copy(t)

-----------------------------------------------------------------------------
\* The elements of a sequence that are in a set, in their order.
Those(s, S) ==
  LET those[i \in 0..Len(s)] ==
        IF i = 0 THEN <<>>
        ELSE IF s[i] \in S THEN Append(those[i - 1], s[i]) ELSE those[i - 1]
  IN those[Len(s)]

UnitsOf(channel) == Those(out, {u \in Range(out) : u.channel = channel})

UnitsAbout(channel, about) ==
  LET units == UnitsOf(channel)
  IN Those(units, {u \in Range(units) : u.about = about})

\* The texts of what was written about something, put together again.
Written(channel, about) ==
  LET units == UnitsAbout(channel, about) IN [i \in DOMAIN units |-> units[i].text]

SamePiece(u, v) == u.about = v.about /\ (u.n - 1) \div Piece = (v.n - 1) \div Piece

\* What LogWriter's mutex is for: among the units of a channel, those of one piece are
\* not parted by those of another.
PiecesAreWhole(channel) ==
  LET units == UnitsOf(channel)
  IN \A i, k \in DOMAIN units : SamePiece(units[i], units[k]) =>
       \A j \in i..k : SamePiece(units[i], units[j])
=============================================================================
