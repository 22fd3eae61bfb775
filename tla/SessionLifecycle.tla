-------------------------- MODULE SessionLifecycle --------------------------
(***************************************************************************)
(* One session behind the Session trait (session/types.rs), of either      *)
(* kind.  A managed session (session/managed.rs) is a CLI process in a     *)
(* pseudo terminal: a reader thread turns what it prints into events, an   *)
(* idle detector watches those events, and close() types ^C and ^D.  An    *)
(* observed session (session/observed.rs) belongs to a terminal: a task    *)
(* tails its JSONL file until close() stops it.  All of them store into    *)
(* one atomic state word without reading it first, and send into one       *)
(* broadcast channel.  Requests type messages into the session meanwhile   *)
(* (main.rs, api_send_message).                                            *)
(***************************************************************************)
EXTENDS Naturals, Sequences, FiniteSets, SequencesExt

CONSTANTS
    Capacity,   \* SESSION_EVENT_CAPACITY: how far a receiver may fall behind
    Messages,   \* messages sent to the session
    Writes,     \* Writes[m]: terminal writes of m's text; a Gemini CLI gets one
                \* per character, the others a single one
    Kinds,      \* kinds of lines that occur in session files
    MaxPrints   \* bound: chunks the CLI prints, or how long its file gets

Chunks == {"text", "blank"}              \* PTY output; blank does not wake a session
\* Lines of a session file: messages that say something and messages without text,
\* what is no message (blank, or not to be parsed), and a line written in two pieces.
Talk == {"endTurn", "assistant", "other"}
Lines == Talk \cup {"quietEnd", "quiet", "malformed", "head", "rest"}

ASSUME LifecycleAssumption ==
    /\ Capacity \in Nat \ {0} /\ MaxPrints \in Nat
    /\ Writes \in [Messages -> Nat \ {0}]
    /\ Kinds \subseteq Lines \ {"rest"}

VARIABLES
    kind,      \* "managed" or "observed"
    state,     \* the state word
    sent,      \* every event sent so far, in order
    process,   \* the CLI: "running" or "gone"
    printed,   \* what the CLI has printed, or the lines of its file
    read,      \* how much of it the reader or the tail task has taken
    from,      \* where the tail task started
    cuts,      \* history: where one of its passes over the file began
    truncated, \* history: the file has been cut back
    producer,  \* the reader thread or the tail task
    detector,  \* the idle detector and its place in the channel
    closer,    \* the close() call
    shutdown,  \* the watch channel of an observed session
    typed,     \* what messages wrote to the terminal's input
    progress   \* progress[m]: the request that types m

tailing == <<from, cuts, truncated>>
lifecycleVars == <<kind, state, sent, process, printed, read, tailing, producer, detector,
                   closer, shutdown, typed, progress>>

Emit(e) == sent' = Append(sent, e)

LifecycleInit ==
    /\ kind \in {"managed", "observed"}
    /\ state = IF kind = "managed" THEN "starting" ELSE "active"
    /\ sent = <<>> /\ process = "running" /\ printed = <<>> /\ read = 0
    /\ from = 0 /\ cuts = {} /\ truncated = FALSE
    /\ producer = IF kind = "managed" THEN [pc |-> "poll"] ELSE [pc |-> "attach"]
    /\ detector = [pc |-> IF kind = "managed" THEN "unborn" ELSE "done", at |-> 0]
    /\ closer = "none" /\ shutdown = FALSE /\ typed = <<>>
    /\ progress = [m \in Messages |-> [writes |-> 0, answer |-> "none"]]

(***************************************************************************)
(* The CLI.                                                                *)
(***************************************************************************)
\* Nothing is written between the pieces of a line.
NextPiece(file) ==
    LET torn == file # <<>> /\ Last(file) = "head"
    IN  IF kind = "managed" THEN Chunks ELSE IF torn THEN {"rest"} ELSE Kinds

Prints ==
    /\ process = "running" /\ Len(printed) < MaxPrints
    /\ \E c \in NextPiece(printed) : printed' = Append(printed, c)
    /\ UNCHANGED <<kind, state, sent, process, read, tailing, producer, detector, closer,
                   shutdown, typed, progress>>

\* A session file is cut back, or written anew from its start (once).
Truncates ==
    /\ kind = "observed" /\ process = "running" /\ ~truncated
    /\ \E n \in 0 .. Len(printed) - 1 : printed' = SubSeq(printed, 1, n)
    /\ truncated' = TRUE
    /\ UNCHANGED <<kind, state, sent, process, read, from, cuts, producer, detector, closer,
                   shutdown, typed, progress>>

Exits ==
    /\ process = "running"
    /\ process' = "gone"
    /\ UNCHANGED <<kind, state, sent, printed, read, tailing, producer, detector, closer,
                   shutdown, typed, progress>>

(***************************************************************************)
(* The PTY reader thread.  A poll timeout, EINTR and EAGAIN only loop.     *)
(***************************************************************************)
\* POLLIN wins over POLLHUP: what the process left behind is read first.
ReaderReads ==
    /\ kind = "managed" /\ producer.pc = "poll" /\ read < Len(printed)
    /\ read' = read + 1
    /\ state' = IF printed[read + 1] = "blank" THEN state ELSE "active"
    /\ producer' = [pc |-> "emit"]
    /\ UNCHANGED <<kind, sent, process, printed, tailing, detector, closer, shutdown, typed,
                   progress>>

ReaderEmits ==
    /\ kind = "managed" /\ producer.pc = "emit"
    /\ Emit(<<"output", read>>)
    /\ producer' = [pc |-> "poll"]
    /\ UNCHANGED <<kind, state, process, printed, read, tailing, detector, closer, shutdown,
                   typed, progress>>

\* End of file, EIO or a hangup once the terminal is empty; or a failing poll or read.
ReaderEnds ==
    /\ kind = "managed" /\ producer.pc = "poll"
    /\ \/ /\ process = "gone" /\ read = Len(printed)
          /\ producer' = [pc |-> "announce", why |-> "hangup"]
       \/ producer' = [pc |-> "announce", why |-> "error"]
    /\ state' = "closed"
    /\ UNCHANGED <<kind, sent, process, printed, read, tailing, detector, closer, shutdown,
                   typed, progress>>

\* Mutation: the reader stops without telling anyone.
ReaderAnnounces_Silently ==
    /\ kind = "managed" /\ producer.pc = "announce"
    /\ producer' = [producer EXCEPT !.pc = "ended"]
    /\ UNCHANGED <<kind, state, sent, process, printed, read, tailing, detector, closer,
                   shutdown, typed, progress>>

ReaderAnnounces ==
    /\ kind = "managed" /\ producer.pc = "announce"
    /\ Emit(<<"closed">>)
    /\ producer' = [producer EXCEPT !.pc = "ended"]
    /\ UNCHANGED <<kind, state, process, printed, read, tailing, detector, closer, shutdown,
                   typed, progress>>

(***************************************************************************)
(* The idle detector: two seconds without an event make a session idle.    *)
(* It subscribes after the reader has started, and reads the state word    *)
(* before it writes it.                                                    *)
(***************************************************************************)
DetectorStarts ==
    /\ detector.pc = "unborn"
    /\ detector' = [pc |-> "wait", at |-> Len(sent)]
    /\ UNCHANGED <<kind, state, sent, process, printed, read, tailing, producer, closer,
                   shutdown, typed, progress>>

\* Closed ends it, and so does any receive error, a lag included.
DetectorReceives ==
    /\ detector.pc = "wait" /\ detector.at < Len(sent)
    /\ detector' =
         IF Len(sent) - detector.at > Capacity THEN [detector EXCEPT !.pc = "lagged"]
         ELSE IF sent[detector.at + 1] = <<"closed">> THEN [detector EXCEPT !.pc = "done"]
         ELSE [detector EXCEPT !.at = @ + 1]
    /\ UNCHANGED <<kind, state, sent, process, printed, read, tailing, producer, closer,
                   shutdown, typed, progress>>

DetectorTimesOut ==
    /\ detector.pc = "wait" /\ detector.at = Len(sent) /\ state \in {"active", "starting"}
    /\ detector' = [detector EXCEPT !.pc = "set"]
    /\ UNCHANGED <<kind, state, sent, process, printed, read, tailing, producer, closer,
                   shutdown, typed, progress>>

DetectorSets ==
    /\ detector.pc = "set"
    /\ state' = "idle"
    /\ detector' = [detector EXCEPT !.pc = "announce"]
    /\ UNCHANGED <<kind, sent, process, printed, read, tailing, producer, closer, shutdown,
                   typed, progress>>

DetectorAnnounces ==
    /\ detector.pc = "announce"
    /\ Emit(<<"idle">>)
    /\ detector' = [detector EXCEPT !.pc = "wait"]
    /\ UNCHANGED <<kind, state, process, printed, read, tailing, producer, closer, shutdown,
                   typed, progress>>

(***************************************************************************)
(* The tail task of an observed session.  It starts at the end of the file *)
(* as it finds it, then parses what is new every 200 ms.                   *)
(***************************************************************************)
\* The select is entered with the shutdown signal already there, or not.
Select == [pc |-> "select", told |-> shutdown]

\* A file whose size cannot be had counts as empty.
TailStarts ==
    /\ kind = "observed" /\ producer.pc = "attach"
    /\ from' \in {Len(printed), 0} /\ read' = from'
    /\ producer' = Select
    /\ UNCHANGED <<kind, state, sent, process, printed, cuts, truncated, detector, closer,
                   shutdown, typed, progress>>

\* A signal that was there before the sleep began always wins.  The file is read to its
\* end as it now is; one shorter than what was read is read from its start.
TailParses ==
    /\ kind = "observed" /\ producer.pc = "select" /\ ~producer.told
    /\ read # Len(printed)
    /\ LET start == IF read > Len(printed) THEN 0 ELSE read IN
         /\ producer' = [pc |-> "apply", file |-> printed, start |-> start]
         /\ read' = start /\ cuts' = cuts \cup {start}
    /\ UNCHANGED <<kind, state, sent, process, printed, from, truncated, detector, closer,
                   shutdown, typed, progress>>

\* A tick that finds nothing new, or cannot read the file, goes back to the select.
TailFindsNothing ==
    /\ kind = "observed" /\ producer.pc = "select" /\ ~producer.told /\ shutdown
    /\ producer' = Select
    /\ UNCHANGED <<kind, state, sent, process, printed, read, tailing, detector, closer,
                   shutdown, typed, progress>>

\* What a line says is sent: neither messages without text nor what is no message.
\* A line is one only to the pass that read both of its pieces.
IsSent(line, whole) == line \in Talk \/ (line = "rest" /\ whole)

\* The state a message implies, then its content as output.
TailSetsState ==
    /\ kind = "observed" /\ producer.pc = "apply" /\ read < Len(producer.file)
    /\ read' = read + 1
    /\ LET line == producer.file[read + 1]
           ends == line \in {"endTurn", "quietEnd"}
       IN  /\ state' = IF ends THEN "idle"
                       ELSE IF line \in {"assistant", "quiet"} THEN "active" ELSE state
           /\ sent' = IF ends THEN Append(sent, <<"idle">>) ELSE sent
           /\ producer' = IF IsSent(line, read > producer.start) THEN [producer EXCEPT !.pc = "output"]
                          ELSE producer
    /\ UNCHANGED <<kind, process, printed, tailing, detector, closer, shutdown, typed, progress>>

TailEmits ==
    /\ kind = "observed" /\ producer.pc = "output"
    /\ Emit(<<"output", read>>)
    /\ producer' = [producer EXCEPT !.pc = "apply"]
    /\ UNCHANGED <<kind, state, process, printed, read, tailing, detector, closer, shutdown,
                   typed, progress>>

TailReturns ==
    /\ kind = "observed" /\ producer.pc = "apply" /\ read = Len(producer.file)
    /\ producer' = Select
    /\ UNCHANGED <<kind, state, sent, process, printed, read, tailing, detector, closer,
                   shutdown, typed, progress>>

TailStops ==
    /\ kind = "observed" /\ producer.pc = "select" /\ shutdown
    /\ producer' = [pc |-> "ended", why |-> "shutdown"]
    /\ UNCHANGED <<kind, state, sent, process, printed, read, tailing, detector, closer,
                   shutdown, typed, progress>>

(***************************************************************************)
(* close(): ^C, a tenth of a second, ^D; or the shutdown signal.  Then the *)
(* state word and the event, whatever the other tasks are about to write.  *)
(* What the process makes of ^C and ^D is its own affair (Exits).          *)
(***************************************************************************)
CloseStarts ==
    /\ closer = "none"
    /\ \/ kind = "managed" /\ closer' = "eof" /\ UNCHANGED shutdown
       \/ kind = "observed" /\ closer' = "set" /\ shutdown' = TRUE
    /\ UNCHANGED <<kind, state, sent, process, printed, read, tailing, producer, detector,
                   typed, progress>>

CloseTypesEof ==
    /\ closer = "eof"
    /\ closer' = "set"
    /\ UNCHANGED <<kind, state, sent, process, printed, read, tailing, producer, detector,
                   shutdown, typed, progress>>

CloseSets ==
    /\ closer = "set"
    /\ state' = "closed"
    /\ closer' = "announce"
    /\ UNCHANGED <<kind, sent, process, printed, read, tailing, producer, detector, shutdown,
                   typed, progress>>

CloseAnnounces ==
    /\ closer = "announce"
    /\ Emit(<<"closed">>)
    /\ closer' = "done"
    /\ UNCHANGED <<kind, state, process, printed, read, tailing, producer, detector, shutdown,
                   typed, progress>>

(***************************************************************************)
(* A message to a managed session: its text, then, after a pause, a return *)
(* as a write of its own.  The manager is locked for reading only, so      *)
(* several messages may be typed at once.  The first failing write ends    *)
(* the request with an error.                                              *)
(***************************************************************************)
Write(m, what) ==
    /\ typed' = Append(typed, what)
    /\ UNCHANGED <<kind, state, sent, process, printed, read, tailing, producer, detector,
                   closer, shutdown>>

SendsText(m) ==
    /\ kind = "managed" /\ progress[m].answer = "none" /\ progress[m].writes < Writes[m]
    /\ progress' = [progress EXCEPT ![m].writes = @ + 1]
    /\ Write(m, <<m, progress[m].writes + 1>>)

SendsReturn(m) ==
    /\ kind = "managed" /\ progress[m].answer = "none" /\ progress[m].writes = Writes[m]
    /\ progress' = [progress EXCEPT ![m].answer = "ok"]
    /\ Write(m, <<m, "return">>)

\* Mutation: only the write of the return decides the answer.
SendFails_TextIgnored(m) ==
    /\ kind = "managed" /\ progress[m].answer = "none" /\ process = "gone"
    /\ progress' = IF progress[m].writes < Writes[m]
                   THEN [progress EXCEPT ![m].writes = Writes[m]]
                   ELSE [progress EXCEPT ![m].answer = "error"]
    /\ UNCHANGED <<kind, state, sent, process, printed, read, tailing, producer, detector,
                   closer, shutdown, typed>>

\* A write to the terminal of a process that is gone may fail.
SendFails(m) ==
    /\ kind = "managed" /\ progress[m].answer = "none" /\ process = "gone"
    /\ progress' = [progress EXCEPT ![m].answer = "error"]
    /\ UNCHANGED <<kind, state, sent, process, printed, read, tailing, producer, detector,
                   closer, shutdown, typed>>

Reader == ReaderReads \/ ReaderEmits \/ ReaderEnds \/ ReaderAnnounces
\* What the thread must do without a poll error.
ReaderProceeds == \/ ReaderReads \/ ReaderEmits \/ ReaderAnnounces
                  \/ process = "gone" /\ read = Len(printed) /\ ReaderEnds
Detector == \/ DetectorStarts \/ DetectorReceives \/ DetectorTimesOut
            \/ DetectorSets \/ DetectorAnnounces
TailTask == \/ TailStarts \/ TailParses \/ TailFindsNothing \/ TailSetsState
        \/ TailEmits \/ TailReturns \/ TailStops
Close == CloseStarts \/ CloseTypesEof \/ CloseSets \/ CloseAnnounces
Send(m) == SendsText(m) \/ SendsReturn(m) \/ SendFails(m)

LifecycleNext ==
    \/ Prints \/ Truncates \/ Exits \/ Reader \/ Detector \/ TailTask \/ Close
    \/ \E m \in Messages : Send(m)

\* The thread and the tasks keep running; nobody has to print, exit, close or send.
LifecycleSpec ==
    /\ LifecycleInit /\ [][LifecycleNext]_lifecycleVars
    /\ WF_lifecycleVars(ReaderProceeds) /\ WF_lifecycleVars(Detector)
    /\ WF_lifecycleVars(TailTask)
-----------------------------------------------------------------------------
\* The chunks or lines sent as output, by their numbers, and what m wrote among the
\* writes of others.
OutputsOf(events) ==
    FlattenSeq([i \in DOMAIN events |-> IF events[i][1] = "output" THEN <<events[i][2]>> ELSE <<>>])
WritesOf(m, writes) ==
    FlattenSeq([i \in DOMAIN writes |-> IF writes[i][1] = m THEN <<writes[i]>> ELSE <<>>])
Outputs == OutputsOf(sent)

\* The lines after the point of attachment whose text is due: those that say
\* something and were not read in the middle.
Due(upTo) == {i \in from + 1 .. upTo : IsSent(printed[i], i - 1 \notin cuts)}

\* What passes between a CLI and the server's users arrives whole.  Of a managed session
\* the output events are the chunks the CLI printed, each once and in order, and when the
\* terminal hung up, all of them were sent before the reader ended.  Of an observed one
\* they are, between two passes over its file, the lines that say something, in order
\* and each once, from the point of attachment to where the task has come; as long as
\* the file only grows, and but for a line caught half written, which is in no output
\* (README).  A message that was answered "ok" is in the terminal with its whole text and
\* the return after it, whatever else was typed in between (managed.rs:340-415,
\* observed.rs:90-148, jsonl.rs:27-108, main.rs:2769).
ManagedIsWhole ==
    kind = "managed" =>
        /\ Outputs = [i \in 1..Len(Outputs) |-> i]
        /\ producer.pc = "ended" /\ producer.why = "hangup" => Len(Outputs) = Len(printed)
ObservedIsWhole ==
    kind = "observed" /\ ~truncated =>
        /\ \A i, j \in DOMAIN Outputs : i < j => Outputs[i] < Outputs[j]
        /\ producer.pc \in {"select", "ended"} => Range(Outputs) = Due(read)
NothingIsCutShort ==
    /\ ManagedIsWhole
    /\ ObservedIsWhole
    /\ \A m \in Messages :
           progress[m].answer = "ok" =>
               WritesOf(m, typed) = [i \in 1..Writes[m] |-> <<m, i>>] \o << <<m, "return">> >>

\* A managed session that stays quiet comes to rest as idle or closed, also when it
\* never printed anything, unless its detector has ended: on Closed, or on a lag.
\* The end of the process, or of the observation, ends the thread or task that
\* produces events, and every receiver is told that the session is closed
\* (managed.rs:362-440, observed.rs:122).
SessionsSettle ==
    /\ kind = "managed" =>
           <>[](state \in {"idle", "closed"} \/ detector.pc \in {"done", "lagged"})
    /\ (kind = "managed" /\ process = "gone") \/ shutdown ~>
           producer.pc = "ended" /\ (kind = "managed" => Contains(sent, <<"closed">>))
=============================================================================
