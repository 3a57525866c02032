---- MODULE LineFraming ----
(***************************************************************************)
(* From the configuration file to a line of the agent: the server loads    *)
(* its defaults, create makes a session's config of them, and the stderr   *)
(* reader of that session frames the agent's bytes into lines, discarding  *)
(* lines longer than max_read and keeping the last few for diagnostics.    *)
(*                                                                         *)
(* A byte is "x" or "nl", the newline.  The pipe, the transport and the    *)
(* buffer of asyncio.StreamReader are external; what the reader does with  *)
(* them is acp.py.  stdout is framed by the same function.                 *)
(***************************************************************************)
EXTENDS Settings

CONSTANTS Files,      \* the texts the configuration file may have
          Arguments,  \* the settings a call of create may override
          MaxBytes,   \* bound: bytes the agent writes
          MaxChunk    \* bound: bytes the transport feeds at once

VARIABLES stage,      \* "importing", "refused", "serving", "reading" or "ended"
          place,      \* where the configuration file is
          text,       \* and what it says; not kept once it is parsed
          defaults,   \* DEFAULTS
          config,     \* the config of the session
          sent,       \* every byte the agent wrote
          pipe,       \* those the transport has not read
          exited,     \* the agent closed its end
          buffer,     \* StreamReader._buffer, _paused and _eof
          paused,
          eof,
          overflowed, \* _readline_discarding_overflow has discarded bytes of this line
          tail,       \* _stderr_tail
          taken       \* how many lines were ever put there

\* What is given to create as a size or a number is a whole number (the types
\* of SessionConfig); whether it is positive is checked.
ASSUME FramingAssumption ==
  /\ MaxChunk \in Nat
  /\ \A t \in Files : t \in Seq(LineTokens)
  /\ \A a \in Arguments : \A k \in DOMAIN a \cap NumberKeys : a[k] \in Int

settings == <<stage, place, text, defaults, config>>
agent == <<sent, pipe, exited>>
stream == <<buffer, paused, eof>>
reader == <<overflowed, tail, taken>>
vars == <<settings, agent, stream, reader>>

Overlong == <<"overlong">>  \* the marker that stands for a discarded line

Init == /\ stage = "importing" /\ place \in Places /\ text \in Files
        /\ defaults = BuiltIn /\ config = <<>>
        /\ sent = <<>> /\ pipe = <<>> /\ exited = FALSE
        /\ buffer = <<>> /\ paused = FALSE /\ eof = FALSE
        /\ overflowed = FALSE /\ tail = <<>> /\ taken = 0

(***************************************************************************)
(* The settings                                                            *)
(***************************************************************************)
\* DEFAULTS = load_defaults(), when the server is imported.
Load == /\ stage = "importing"
        /\ LET d == LoadDefaults(place, text)
           IN IF IsRefused(d) THEN stage' = "refused" /\ UNCHANGED defaults
              ELSE stage' = "serving" /\ defaults' = d
        /\ text' = <<>>
        /\ UNCHANGED <<place, config, agent, stream, reader>>

\* create: a config that does not pass is an error of the call, and nothing
\* else happens.
Create(arguments) ==
  /\ stage = "serving"
  /\ ValidateConfig(SessionConfig(defaults, arguments))
  /\ config' = SessionConfig(defaults, arguments)
  /\ stage' = "reading"
  /\ UNCHANGED <<place, text, defaults, agent, stream, reader>>

(***************************************************************************)
(* The agent and the transport                                             *)
(***************************************************************************)
limit == config["max_read"]

Write(byte) == /\ stage = "reading" /\ ~exited /\ Len(sent) < MaxBytes
               /\ sent' = Append(sent, byte) /\ pipe' = Append(pipe, byte)
               /\ UNCHANGED <<settings, exited, stream, reader>>

Exit == /\ stage = "reading" /\ ~exited
        /\ exited' = TRUE
        /\ UNCHANGED <<settings, sent, pipe, stream, reader>>

\* StreamReader.feed_data: a buffer of more than twice the limit stops the
\* transport.
Feed(n) == /\ stage = "reading" /\ ~paused /\ n \in 1..Len(pipe)
           /\ buffer' = buffer \o SubSeq(pipe, 1, n)
           /\ pipe' = SubSeq(pipe, n + 1, Len(pipe))
           /\ paused' = (Len(buffer') > 2 * limit)
           /\ UNCHANGED <<settings, sent, exited, eof, reader>>

FeedEof == /\ stage = "reading" /\ ~paused /\ ~eof /\ exited /\ pipe = <<>>
           /\ eof' = TRUE
           /\ UNCHANGED <<settings, agent, buffer, paused, reader>>

\* Bytes leave the buffer; one that is within the limit again lets the
\* transport go on.  (A reader that finds nothing to take would do so too, but
\* it never finds the transport stopped.)
Take(n) == /\ buffer' = SubSeq(buffer, n + 1, Len(buffer))
           /\ paused' = (paused /\ Len(buffer') > limit)

(***************************************************************************)
(* _readline_discarding_overflow, called in the loop of _read_stderr       *)
(***************************************************************************)
Newlines(s) == {i \in DOMAIN s : s[i] = "nl"}

\* How many bytes readuntil looked at: up to the newline, or all of them.
Scanned == IF Newlines(buffer) = {} THEN Len(buffer) ELSE Min(Newlines(buffer)) - 1

\* Mutant: the newline goes with the bytes that are discarded.
DiscardNewline == /\ stage = "reading" /\ Scanned > limit
                  /\ overflowed' = TRUE
                  /\ Take(Scanned + 1)
                  /\ UNCHANGED <<settings, agent, eof, tail, taken>>

\* Mutant: a long line is collected to its end before it is discarded.
DiscardAtNewline == /\ stage = "reading" /\ Scanned > limit
                    /\ overflowed' = TRUE
                    /\ IF Newlines(buffer) = {} THEN paused' = FALSE /\ UNCHANGED buffer
                       ELSE Take(Scanned)
                    /\ UNCHANGED <<settings, agent, eof, tail, taken>>

\* readuntil raises LimitOverrunError: what it looked at is discarded, and the
\* loop goes on.
Discard == /\ stage = "reading" /\ Scanned > limit
           /\ overflowed' = TRUE
           /\ Take(Scanned)
           /\ UNCHANGED <<settings, agent, eof, tail, taken>>

\* _stderr_tail.append, a deque that keeps so many lines.
Keep(line) == /\ tail' = LET all == Append(tail, line)
                             n == config["stderr_tail_buffer_size"]
                         IN SubSeq(all, Max({1, Len(all) - n + 1}), Len(all))
              /\ taken' = taken + 1

\* readuntil returns a line.
TakeLine == /\ stage = "reading" /\ Newlines(buffer) # {} /\ Scanned <= limit
            /\ Keep(IF overflowed THEN Overlong ELSE SubSeq(buffer, 1, Scanned + 1))
            /\ overflowed' = FALSE
            /\ Take(Scanned + 1)
            /\ UNCHANGED <<settings, agent, eof>>

\* Mutant: the end of a stream is the end, whatever was discarded.
TakeRestQuietly == /\ stage = "reading" /\ eof /\ Newlines(buffer) = {} /\ Scanned <= limit
                   /\ overflowed' = FALSE
                   /\ IF buffer = <<>> THEN stage' = "ended" /\ UNCHANGED <<tail, taken>>
                      ELSE Keep(IF overflowed THEN Overlong ELSE buffer) /\ UNCHANGED stage
                   /\ Take(Len(buffer))
                   /\ UNCHANGED <<place, text, defaults, config, agent, eof>>

\* readuntil raises IncompleteReadError: the rest is a line without a newline,
\* and nothing at all, unless bytes of it were discarded, ends the reader.
TakeRest == /\ stage = "reading" /\ eof /\ Newlines(buffer) = {} /\ Scanned <= limit
            /\ overflowed' = FALSE
            /\ IF buffer = <<>> /\ ~overflowed THEN stage' = "ended" /\ UNCHANGED <<tail, taken>>
               ELSE Keep(IF overflowed THEN Overlong ELSE buffer) /\ UNCHANGED stage
            /\ Take(Len(buffer))
            /\ UNCHANGED <<place, text, defaults, config, agent, eof>>

Read == Discard \/ TakeLine \/ TakeRest
Transport == FeedEof \/ \E n \in 1..MaxChunk : Feed(n)

Next == \/ Load \/ \E a \in Arguments : Create(a)
        \/ (\E b \in {"x", "nl"} : Write(b)) \/ Exit
        \/ Transport \/ Read

Spec == Init /\ [][Next]_vars

\* The reader task runs whenever there is something for it, and the event loop
\* delivers what is in the pipe.
FairSpec == Spec /\ WF_vars(Read) /\ WF_vars(Transport)

(***************************************************************************)
(* Properties                                                              *)
(***************************************************************************)
\* Where the lines of a stream end: at each newline and, when the stream is
\* complete, at its last byte.
Ends(s, complete) == Newlines(s) \cup (IF complete /\ s # <<>> THEN {Len(s)} ELSE {})

Rank(ends, e) == Cardinality({i \in ends : i <= e})
NthEnd(ends, k) == CHOOSE e \in ends : Rank(ends, e) = k
NthLine(s, ends, k) == SubSeq(s, IF k = 1 THEN 1 ELSE NthEnd(ends, k - 1) + 1, NthEnd(ends, k))

\* A line longer than the limit, its newline not counted, is a marker.
Framed(line) ==
  IF Len(line) > (IF line[Len(line)] = "nl" THEN limit + 1 ELSE limit) THEN Overlong ELSE line

Frames(s, complete) ==
  LET ends == Ends(s, complete)
  IN [k \in 1..Cardinality(ends) |-> Framed(NthLine(s, ends, k))]

\* However the agent's bytes are cut into chunks and wherever a line crosses
\* the limit, the lines kept are the last ones of the lines the agent wrote:
\* none is split, joined, lost or repeated, a line of exactly max_read bytes is
\* kept, and one marker stands for each longer one
\* (_readline_discarding_overflow, _read_stderr).
FramedSoFar ==
  stage \in {"reading", "ended"} =>
    LET frames == Frames(sent, eof)
    IN /\ taken <= Len(frames)
       /\ tail = SubSeq(frames, Max({1, taken - config["stderr_tail_buffer_size"] + 1}), taken)

\* A line that never ends does not fill the memory: the buffer holds at most
\* twice max_read and one chunk, because overlong bytes are discarded as they
\* come (the drain of acp.py:67).
BufferBounded == stage = "reading" => Len(buffer) <= 2 * limit + MaxChunk

\* Nothing is left behind: when the agent has exited, every line of it, the
\* last one and a discarded one included, reaches the tail and the reader ends;
\* a stopped transport is always let go again.
EverythingFramed == exited ~> stage = "ended" /\ taken = Len(Frames(sent, TRUE))

(***************************************************************************)
(* What the file is meant to say: every line that is not blank sets a key  *)
(* of its own to a valid value, and the other keys keep their defaults.    *)
(***************************************************************************)
ValidLine(l) ==
  /\ l.form = "entry" /\ l.key \in KnownKeys /\ WellFormed(l.key, l.value)
  /\ CASE l.key = "approval_mode" -> l.value.word \in ApprovalModes
       [] l.key = "stdout_overflow_retry_tolerance" -> TRUE
       [] OTHER -> l.value.n > 0 \/ l.value.fraction

Amount(k, v) ==
  CASE k = "approval_mode" -> v.word
    [] k \in SecondsKeys -> IF v.fraction THEN 2 * v.n + 1 ELSE 2 * v.n
    [] k \in PlainIntegerKeys \cup ByteKeys ->
         CASE v.unit \in {"", "b"} -> v.n
           [] v.unit \in {"kb", "kib"} -> v.n * KiB
           [] v.unit \in {"mb", "mib"} -> v.n * KiB * KiB
           [] v.unit \in {"gb", "gib"} -> v.n * KiB * KiB * KiB

SaysNothing == IF place.named THEN FALSE ELSE ~place.checkout \/ place.found = "nothing"
SaysClearly ==
  LET lines == {i \in DOMAIN text : text[i].form # "blank"}
  IN /\ place.found = "text"
     /\ \A i \in lines : ValidLine(text[i])
     /\ \A i, j \in lines : text[i].key = text[j].key => i = j

\* The server starts with the defaults that the file spells out or, where there
\* is no file, with its own; a file that is not clear in every line keeps it
\* from starting.  Defaults that were accepted never make create fail: the
\* checks of the file and of a session agree (load_defaults, validate_config).
LoadedAsWritten ==
  [][stage = "importing" =>
       IF SaysNothing THEN stage' = "serving" /\ defaults' = BuiltIn
       ELSE IF SaysClearly
       THEN /\ stage' = "serving"
            /\ \A i \in DOMAIN text : text[i].form = "entry" =>
                 defaults'[text[i].key] = Amount(text[i].key, text[i].value)
            /\ \A k \in KnownKeys :
                 (\A i \in DOMAIN text : text[i].key # k) => defaults'[k] = BuiltIn[k]
            /\ ValidateConfig(SessionConfig(defaults', <<>>))
       ELSE stage' = "refused"]_vars
====
