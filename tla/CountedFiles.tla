---------------------------- MODULE CountedFiles ----------------------------
(***************************************************************************)
(* The watcher's reading of one session file of any agent.                 *)
(*                                                                         *)
(* A Claude file is read from a byte offset.  A Codex or Gemini file is    *)
(* parsed whole on every event and everything behind the number of         *)
(* messages seen before is new; both numbers live in the same map          *)
(* (server/src/main.rs, 974-985 and 1341-1429).  The parsers bring the     *)
(* entries of the three formats to one message shape (server/src/parser).  *)
(*                                                                         *)
(* An entry is one line of a JSONL file or one message of Gemini's JSON    *)
(* file; an entry has more bytes than the file can hold messages.          *)
(***************************************************************************)
EXTENDS Naturals, Sequences, FiniteSets, SequencesExt

CONSTANTS
    CLIs,           \* the agents whose files are explored
    Kinds,          \* the kinds of entries explored, per agent
    MaxEntries,     \* bound on the entries of the file
    MaxRestarts     \* bound on the restarts of the server

\* The kinds of entries that the parsers know, and one that none of them does.
EntryKinds == [
    claude |-> {"user", "user_meta", "tool_result", "compact_summary", "user_new_block", "answer",
                "final_answer", "tool_call", "compact_boundary", "system", "system_other",
                "reminder", "progress", "summary", "snapshot", "unknown"},
    codex  |-> {"session_meta", "turn_context", "user", "final_answer", "thinking",
                "compact_boundary", "token_count", "summary", "item_user",
                "item_assistant", "item_other", "tool_call", "unknown"},
    gemini |-> {"user", "system", "error", "unknown", "thinking", "thinking_answer",
                "final_answer", "tool_call", "empty"}]

ASSUME CountedAssumption ==
    /\ CLIs \subseteq {"claude", "codex", "gemini"}
    /\ \A c \in CLIs : Kinds[c] \subseteq EntryKinds[c]
    /\ MaxEntries \in Nat
    /\ MaxRestarts \in Nat

VARIABLES
    cli,            \* the agent that writes the file
    file,           \* the kinds of the entries on disk
    summary,        \* Gemini: a summary ends the file
    torn,           \* the last write of the file is not complete
    pending,        \* an event of the file waits for the watcher loop
    offset,         \* offsets[path]: bytes for Claude, messages for the others
    base,           \* the number of messages that were old at the first look
    pushed,         \* what this server has pushed to the bus
    status,         \* the session's status
    grown,          \* the file has only grown at its end since the start
    lost,           \* an event was lost after the last one handled
    restarts

countedVars == <<cli, file, summary, torn, pending, offset, base, pushed,
                 status, grown, lost, restarts>>

MaxMessages == 2 * MaxEntries + 2
BytesPerEntry == MaxMessages + 1
Unset == MaxMessages + 1        \* the base before the first look

-----------------------------------------------------------------------------
(* The parsers: what an entry becomes.                                     *)

Msg(type, role, blocks, stop) ==
    [type |-> type, role |-> role, blocks |-> blocks, stop |-> stop]

Text(type, role) == Msg(type, role, <<"text">>, FALSE)

\* Claude: a user line whose block the reader does not know fails to parse
\* and is skipped.  That a line is marked as meta is read and not used.
UserLine(kind) ==
    CASE kind \in {"user", "user_meta"} -> <<Text("user", "user")>>
      [] kind = "tool_result"     -> <<Msg("user", "user", <<"tool_result">>, FALSE)>>
      [] kind = "compact_summary" -> <<Text("summary", "user")>>
      [] OTHER                    -> <<>>

AssistantLine(kind) ==
    CASE kind = "answer"       -> Msg("assistant", "assistant", <<"thinking", "text">>, FALSE)
      [] kind = "final_answer" -> Msg("assistant", "assistant", <<"text">>, TRUE)
      [] OTHER                 -> Msg("assistant", "assistant", <<"text", "tool_use">>, TRUE)

\* The subtype of a system line becomes its type.
SystemLine(kind) ==
    CASE kind = "compact_boundary" -> Text("compact_boundary", "system")
      [] kind = "reminder"         -> Text("system-reminder", "system")
      [] kind = "system"           -> Text("system", "system")
      [] OTHER                     -> Text("turn_duration", "system")

MetaLine(kind) ==
    CASE kind = "progress" -> Text("progress", "none")
      [] kind = "summary"  -> Text("summary", "none")
      [] OTHER             -> Text("file-history-snapshot", "none")

ClaudeMessages(kind) ==
    CASE kind \in {"user", "user_meta", "tool_result", "compact_summary", "user_new_block"} -> UserLine(kind)
      [] kind \in {"answer", "final_answer", "tool_call"} -> <<AssistantLine(kind)>>
      [] kind \in {"compact_boundary", "reminder", "system", "system_other"} -> <<SystemLine(kind)>>
      [] kind \in {"progress", "summary", "snapshot"} -> <<MetaLine(kind)>>
      [] OTHER -> <<Text("unknown", "none")>>

\* Codex: no message names a stop reason.
CodexMeta == Text("progress", "none")

\* Mutation: Codex's reasoning becomes an answer.
CodexEventMessage_NoThinking(kind) ==
    CASE kind = "user"             -> Text("user", "user")
      [] kind \in {"final_answer", "thinking"} -> Text("assistant", "assistant")
      [] kind = "compact_boundary" -> Text("compact_boundary", "none")
      [] OTHER                     -> Text("progress", "none")

CodexEventMessage(kind) ==
    CASE kind = "user"             -> Text("user", "user")
      [] kind = "final_answer"     -> Text("assistant", "assistant")
      [] kind = "thinking"         -> Msg("assistant", "assistant", <<"thinking">>, FALSE)
      [] kind = "compact_boundary" -> Text("compact_boundary", "none")
      [] OTHER                     -> Text("progress", "none")

\* An item without content, as that of a tool call, becomes nothing; one of any other
\* role than the user's (a developer's, the system's) an answer.
CodexResponseItem(kind) ==
    CASE kind = "item_user" -> <<Text("user", "user")>>
      [] kind \in {"item_assistant", "item_other"} -> <<Text("assistant", "assistant")>>
      [] OTHER                   -> <<>>

CodexCompacted == Text("summary", "none")

CodexMessages(kind) ==
    CASE kind \in {"session_meta", "turn_context"} -> <<CodexMeta>>
      [] kind = "summary" -> <<CodexCompacted>>
      [] kind = "unknown" -> <<Text("unknown", "none")>>
      [] kind \in {"item_user", "item_assistant", "item_other", "tool_call"} -> CodexResponseItem(kind)
      [] OTHER -> <<CodexEventMessage(kind)>>

\* Gemini: thoughts make a message of their own, before the text and tools.
GeminiThoughts(kind) ==
    IF kind \in {"thinking", "thinking_answer"}
    THEN <<Msg("assistant", "assistant", <<"thinking">>, FALSE)>> ELSE <<>>

GeminiAssistant(kind) ==
    GeminiThoughts(kind) \o
    (CASE kind \in {"thinking_answer", "final_answer"} ->
              <<Msg("assistant", "assistant", <<"text">>, TRUE)>>
       [] kind = "tool_call" ->
              <<Msg("assistant", "assistant", <<"text", "tool_use">>, TRUE)>>
       [] OTHER -> <<>>)

GeminiNotice(kind) ==
    IF kind = "error" THEN Text("assistant", "assistant") ELSE Text("system", "system")

GeminiMessages(kind) ==
    CASE kind = "user"    -> <<Text("user", "user")>>
      [] kind = "unknown" -> <<Text("progress", "none")>>
      [] kind \in {"system", "error"} -> <<GeminiNotice(kind)>>
      [] OTHER            -> GeminiAssistant(kind)

Converted(agent, kind) ==
    CASE agent = "claude" -> ClaudeMessages(kind)
      [] agent = "codex"  -> CodexMessages(kind)
      [] OTHER            -> GeminiMessages(kind)

-----------------------------------------------------------------------------
(* What a message is shown as.                                             *)

\* The last block that is not text or an image decides.
DominantType(msg) ==
    LET special == {i \in DOMAIN msg.blocks :
                        msg.blocks[i] \in {"tool_use", "tool_result", "thinking"}}
    IN  CASE msg.type = "system-reminder" -> "SystemReminder"
          [] special # {} -> LET i == CHOOSE j \in special : \A k \in special : k <= j
                             IN  msg.blocks[i]
          [] OTHER -> "Text"

Component(msg) ==
    CASE msg.type = "user"      -> [role |-> "User", type |-> DominantType(msg)]
      [] msg.type = "assistant" -> [role |-> "Assistant", type |-> DominantType(msg)]
      [] msg.type \in {"system", "system-reminder"} ->
             [role |-> "System", type |-> DominantType(msg)]
      [] msg.type = "progress"  -> [role |-> "Meta", type |-> "Progress"]
      [] msg.type = "summary"   -> [role |-> "Meta", type |-> "Summary"]
      [] msg.type = "compact_boundary" -> [role |-> "Meta", type |-> "CompactBoundary"]
      [] msg.type = "file-history-snapshot" -> [role |-> "Meta", type |-> "FileSnapshot"]
      [] OTHER                  -> [role |-> "Meta", type |-> "Text"]

-----------------------------------------------------------------------------
(* Parsing a file.  A message remembers the entry it comes from.           *)

Tagged(i, msgs) == [p \in DOMAIN msgs |-> [entry |-> i, part |-> p, msg |-> msgs[p]]]

MessagesOf(from, to) ==
    FlattenSeq([i \in 1..(IF to >= from THEN to - from + 1 ELSE 0) |->
                    Tagged(from + i - 1, Converted(cli, file[from + i - 1]))])

\* A torn line of a JSONL file does not parse and is skipped.
Readable == IF torn THEN Len(file) - 1 ELSE Len(file)

CodexFile == MessagesOf(1, Readable)

GeminiFile ==
    <<[entry |-> 0, part |-> 1, msg |-> Text("progress", "none")]>>
    \o MessagesOf(1, Len(file))
    \o (IF summary
        THEN <<[entry |-> Len(file) + 1, part |-> 1,
                msg |-> Text("summary", "none")]>>
        ELSE <<>>)

AllMessages ==
    CASE cli = "claude" -> MessagesOf(1, Len(file))
      [] cli = "codex"  -> CodexFile
      [] OTHER          -> GeminiFile

Size == BytesPerEntry * Len(file)

-----------------------------------------------------------------------------
(* The agent writes; every write leaves an event.  A file that changed     *)
(* other than by growing at its end is not written again before a restart. *)

CountedInit ==
    /\ cli \in CLIs
    /\ file = <<>>
    /\ summary = FALSE /\ torn = FALSE
    /\ pending = TRUE        \* the event of its creation
    /\ offset = 0
    /\ base = 0
    /\ pushed = <<>>
    /\ status = "Idle"
    /\ grown = TRUE /\ lost = FALSE
    /\ restarts = 0

Wrote == /\ pending' = TRUE
         /\ UNCHANGED <<cli, offset, base, pushed, status, lost, restarts>>

\* A new entry; a Gemini summary stays behind it.
WriteEntry(kind, whole) ==
    /\ ~torn /\ grown
    /\ Len(file) < MaxEntries
    /\ kind \in Kinds[cli]
    /\ cli = "claude" => whole
    /\ file' = Append(file, kind)
    /\ torn' = ~whole
    /\ grown' = ~summary
    /\ UNCHANGED summary
    /\ Wrote

Complete ==
    /\ torn
    /\ torn' = FALSE
    /\ UNCHANGED <<file, summary, grown>>
    /\ Wrote

\* Gemini puts a summary at the end of its file.
Summarise ==
    /\ cli = "gemini" /\ ~torn /\ ~summary /\ grown
    /\ summary' = TRUE
    /\ UNCHANGED <<file, torn, grown>>
    /\ Wrote

\* Gemini rewrites its last message, with the answer after the thoughts.
Extend ==
    /\ cli = "gemini" /\ ~torn /\ grown
    /\ file # <<>> /\ Last(file) = "thinking"
    /\ file' = Front(file) \o <<"thinking_answer">>
    /\ grown' = ~summary
    /\ UNCHANGED <<summary, torn>>
    /\ Wrote

\* The conversation is taken back to an earlier point.
Rewind ==
    /\ ~torn /\ grown
    /\ \E n \in 0..(Len(file) - 1) : file' = SubSeq(file, 1, n)
    /\ grown' = FALSE
    /\ UNCHANGED <<summary, torn>>
    /\ Wrote

-----------------------------------------------------------------------------
(* The server.                                                             *)

\* What the watcher takes for new, and the number it remembers.
ReadClaude ==
    LET from == IF offset > Size THEN 0 ELSE offset
    IN  [new |-> MessagesOf(from \div BytesPerEntry + 1, Len(file)), next |-> Size]

\* Mutation: the remembered number is kept when nothing is new, as a byte size.
ReadWhole_KeepsLarger(all) ==
    [new |-> IF Len(all) > offset THEN SubSeq(all, offset + 1, Len(all)) ELSE <<>>,
     next |-> IF Len(all) > offset THEN Len(all) ELSE offset]

ReadWhole(all) ==
    [new |-> IF Len(all) > offset THEN SubSeq(all, offset + 1, Len(all)) ELSE <<>>,
     next |-> Len(all)]

Read == CASE cli = "claude" -> ReadClaude
          [] cli = "codex"  -> ReadWhole(CodexFile)
          [] OTHER          -> ReadWhole(GeminiFile)

\* Active while the last message is the agent's and names no stop reason.
StatusAfter(new) ==
    IF new = <<>> THEN status
    ELSE IF Last(new).msg.role = "assistant" /\ ~Last(new).msg.stop
         THEN "Active" ELSE "Idle"

HandleEvent ==
    /\ pending
    /\ pending' = FALSE
    /\ IF cli = "gemini" /\ torn
       THEN UNCHANGED <<offset, base, pushed, status, lost>>   \* does not parse
       ELSE /\ offset' = Read.next
            /\ pushed' = pushed \o Read.new
            /\ status' = StatusAfter(Read.new)
            /\ base' = IF base = Unset THEN Len(AllMessages) ELSE base
            /\ lost' = FALSE
    /\ UNCHANGED <<cli, file, summary, torn, grown, restarts>>

\* The watcher's receiver lags behind the channel.
LoseEvent ==
    /\ pending
    /\ pending' = FALSE
    /\ lost' = TRUE
    /\ UNCHANGED <<cli, file, summary, torn, offset, base, pushed, status, grown, restarts>>

\* A start fills the map with the sizes the scan found.
Restart ==
    /\ restarts < MaxRestarts
    /\ file # <<>>
    /\ restarts' = restarts + 1
    /\ pending' = FALSE
    /\ offset' = Size
    /\ base' = IF cli = "claude" THEN Len(AllMessages) ELSE Unset
    /\ pushed' = <<>>
    /\ status' = "Idle"
    /\ grown' = TRUE /\ lost' = FALSE
    /\ UNCHANGED <<cli, file, summary, torn>>

CountedNext ==
    \/ \E kind \in UNION {Kinds[c] : c \in CLIs}, whole \in BOOLEAN : WriteEntry(kind, whole)
    \/ Complete
    \/ Summarise
    \/ Extend
    \/ Rewind
    \/ HandleEvent
    \/ LoseEvent
    \/ Restart

CountedSpec == CountedInit /\ [][CountedNext]_countedVars
-----------------------------------------------------------------------------
(* Properties.                                                             *)

\* As long as a file only grows at its end, what has been pushed is what the
\* file holds behind the point of the first look: every message once, in
\* order, however the writes were cut up, lost as events, or restarted
\* over; and nothing is held back once the last event has been handled.
\* (main.rs:1341-1443: three ways of reading, one map of numbers.)
PushedOnceInOrder ==
    grown =>
        /\ base = Unset => pushed = <<>>
        /\ base # Unset => /\ base + Len(pushed) <= Len(AllMessages)
                           /\ pushed = SubSeq(AllMessages, base + 1, base + Len(pushed))
        /\ (base # Unset /\ ~pending /\ ~lost /\ ~torn)
               => base + Len(pushed) = Len(AllMessages)

\* The reference: what an entry of a kind is, whoever wrote it.
Means(kind) ==
    CASE kind \in {"user", "item_user"} -> [role |-> "User", type |-> "Text"]
      [] kind = "tool_result" -> [role |-> "User", type |-> "tool_result"]
      [] kind \in {"final_answer", "item_assistant", "error"} -> [role |-> "Assistant", type |-> "Text"]
      [] kind \in {"thinking", "answer"} -> [role |-> "Assistant", type |-> "thinking"]
      [] kind = "tool_call" -> [role |-> "Assistant", type |-> "tool_use"]
      [] kind = "compact_boundary" -> [role |-> "Meta", type |-> "CompactBoundary"]
      [] kind \in {"summary", "compact_summary"} -> [role |-> "Meta", type |-> "Summary"]
      [] kind = "system" -> [role |-> "System", type |-> "Text"]
      [] kind = "reminder" -> [role |-> "System", type |-> "SystemReminder"]
      [] OTHER -> [role |-> "Meta", type |-> "any"]

\* Internal entries that are shown as somebody's words (README): the user's for what
\* Claude marks as meta (types.rs:130, 317-346), an answer for an item of another
\* role in a Codex file (codex.rs:322-326).
ShownAsWords(kind) ==
    CASE kind = "user_meta"  -> {Means("user")}
      [] kind = "item_other" -> {Means("final_answer")}
      [] OTHER               -> {}

\* The three formats come out as one conversation: whatever the agent, words
\* of the user, answers, thoughts, tool calls, boundaries and summaries are
\* shown as such; and an internal entry never as something anyone said, but for
\* the two kinds above.  (server/src/parser: three parsers, one component.)
AgentsLookAlike ==
    \A i \in DOMAIN pushed :
        pushed[i].entry \in DOMAIN file /\ grown =>
            LET kind  == file[pushed[i].entry]
                shown == Component(pushed[i].msg)
            IN  \/ shown = Means(kind)
                \/ Means(kind).type = "any" /\ shown.role = "Meta"
                \/ shown \in ShownAsWords(kind)
                \/ kind = "thinking_answer" /\ shown \in {Means("thinking"), Means("final_answer")}
=============================================================================
