---------------------------- MODULE Files_proofs ----------------------------
(***************************************************************************)
(* Proofs about the files the server watches, for any files, sizes and     *)
(* bounds.                                                                 *)
(*                                                                         *)
(* First a session file of any agent (CountedFiles): what its parser makes *)
(* of it, by induction over its entries, and that reading it again and     *)
(* again pushes every message once.  Then a project's files (ProjectFiles):*)
(* the mark for unsaved changes, and the way of a file's last change.      *)
(* Last a plan's file of edits (PlanEdits), that concurrent posts replace. *)
(***************************************************************************)
EXTENDS CountedFiles, ProjectFiles, PlanEdits, SequenceFacts

-----------------------------------------------------------------------------
Msgs(c, f, i) == Tagged(i, Converted(c, f[i]))
Parsed(c, f, a, b) == FlattenSeq([i \in 1 .. (IF b >= a THEN b - a + 1 ELSE 0) |-> Msgs(c, f, a + i - 1)])

Blocks == Seq({"text", "thinking", "tool_use", "tool_result"})
Message ==
    [type : {"user", "assistant", "summary", "compact_boundary", "system-reminder", "system",
             "turn_duration", "progress", "file-history-snapshot", "unknown"},
     role : {"user", "assistant", "system", "none"}, blocks : Blocks, stop : BOOLEAN]
TaggedMessage == [entry : Nat, part : Nat, msg : Message]

Short(s, n) == s \in Seq(Message) /\ Len(s) <= n

\* An entry becomes at most two messages, whoever wrote it.
LEMMA OneMessage == ASSUME NEW m \in Message PROVE Short(<<m>>, 1) /\ Short(<<m>>, 2)
BY DEF Short

LEMMA NoMessage == Short(<<>>, 1) /\ Short(<<>>, 2)
BY DEF Short

LEMMA ClaudeConverts == ASSUME NEW k PROVE Short(ClaudeMessages(k), 2)
<1>1. Short(UserLine(k), 2)
  <2>1. Text("user", "user") \in Message /\ Text("summary", "user") \in Message
    BY DEF Text, Msg, Message, Blocks
  <2>2. Msg("user", "user", <<"tool_result">>, FALSE) \in Message
    BY DEF Msg, Message, Blocks
  <2> QED BY <2>1, <2>2, OneMessage, NoMessage DEF UserLine
<1>2. AssistantLine(k) \in Message
  BY DEF AssistantLine, Text, Msg, Message, Blocks
<1>3. SystemLine(k) \in Message
  BY DEF SystemLine, Text, Msg, Message, Blocks
<1>4. MetaLine(k) \in Message
  BY DEF MetaLine, Text, Msg, Message, Blocks
<1>5. Text("unknown", "none") \in Message
  BY DEF Text, Msg, Message, Blocks
<1> QED BY <1>1, <1>2, <1>3, <1>4, <1>5, OneMessage DEF ClaudeMessages

LEMMA CodexConverts == ASSUME NEW k PROVE Short(CodexMessages(k), 2)
<1>1. CodexEventMessage(k) \in Message
  BY DEF CodexEventMessage, Text, Msg, Message, Blocks
<1>2. Short(CodexResponseItem(k), 2)
  <2>1. Text("user", "user") \in Message /\ Text("assistant", "assistant") \in Message
    BY DEF Text, Msg, Message, Blocks
  <2> QED BY <2>1, OneMessage, NoMessage DEF CodexResponseItem
<1>3. CodexMeta \in Message /\ CodexCompacted \in Message /\ Text("unknown", "none") \in Message
  BY DEF CodexMeta, CodexCompacted, Text, Msg, Message, Blocks
<1> QED BY <1>1, <1>2, <1>3, OneMessage DEF CodexMessages

LEMMA GeminiConverts == ASSUME NEW k PROVE Short(GeminiMessages(k), 2)
<1>1. Short(GeminiThoughts(k), 1)
  <2>1. Msg("assistant", "assistant", <<"thinking">>, FALSE) \in Message
    BY DEF Msg, Message, Blocks
  <2> QED BY <2>1, OneMessage, NoMessage DEF GeminiThoughts
<1>2. PICK said : said = (CASE k \in {"thinking_answer", "final_answer"} ->
              <<Msg("assistant", "assistant", <<"text">>, TRUE)>>
       [] k = "tool_call" ->
              <<Msg("assistant", "assistant", <<"text", "tool_use">>, TRUE)>>
       [] OTHER -> <<>>)
  OBVIOUS
<1>3. Short(said, 1)
  <2>1. /\ Msg("assistant", "assistant", <<"text">>, TRUE) \in Message
        /\ Msg("assistant", "assistant", <<"text", "tool_use">>, TRUE) \in Message
    BY DEF Msg, Message, Blocks
  <2> QED BY <1>2, <2>1, OneMessage, NoMessage
<1>4. GeminiAssistant(k) = GeminiThoughts(k) \o said
  BY <1>2 DEF GeminiAssistant
<1>5. Short(GeminiAssistant(k), 2)
  <2>1. PICK s, t \in Seq(Message) : s = GeminiThoughts(k) /\ t = said /\ Len(s) <= 1 /\ Len(t) <= 1
    BY <1>1, <1>3 DEF Short
  <2>2. Len(s \o t) = Len(s) + Len(t) /\ s \o t \in Seq(Message)
    BY ConcatProperties
  <2>3. Len(s) + Len(t) <= 2
    BY <2>1
  <2> QED BY <1>4, <2>1, <2>2, <2>3 DEF Short
<1>6. GeminiNotice(k) \in Message
  BY DEF GeminiNotice, Text, Msg, Message, Blocks
<1>7. Text("user", "user") \in Message /\ Text("progress", "none") \in Message
  BY DEF Text, Msg, Message, Blocks
<1> QED BY <1>5, <1>6, <1>7, OneMessage DEF GeminiMessages

LEMMA Converts == ASSUME NEW c, NEW k PROVE Converted(c, k) \in Seq(Message) /\ Len(Converted(c, k)) <= 2
BY ClaudeConverts, CodexConverts, GeminiConverts DEF Converted, Short

\* The messages of one entry.
LEMMA MsgsType ==
    ASSUME NEW c, NEW f, NEW i \in Nat
    PROVE  /\ Msgs(c, f, i) \in Seq(TaggedMessage) /\ Len(Msgs(c, f, i)) = Len(Converted(c, f[i]))
           /\ Len(Msgs(c, f, i)) <= 2
           /\ \A p \in 1 .. Len(Msgs(c, f, i)) :
                 Msgs(c, f, i)[p] = [entry |-> i, part |-> p, msg |-> Converted(c, f[i])[p]]
<1>1. PICK s \in Seq(Message) : s = Converted(c, f[i]) /\ Len(s) <= 2
  BY Converts
<1>2. Msgs(c, f, i) = [p \in 1 .. Len(s) |-> [entry |-> i, part |-> p, msg |-> s[p]]]
  BY <1>1 DEF Msgs, Tagged
<1>3. \A p \in 1 .. Len(s) : [entry |-> i, part |-> p, msg |-> s[p]] \in TaggedMessage
  BY DEF TaggedMessage
<1> QED BY <1>1, <1>2, <1>3

\* The messages of the entries from a to b, entry by entry.
LEMMA ParsedNothing == ASSUME NEW c, NEW f, NEW a \in Nat, NEW b \in Int, b < a PROVE Parsed(c, f, a, b) = <<>>
<1>1. [i \in 1 .. (IF b >= a THEN b - a + 1 ELSE 0) |-> Msgs(c, f, a + i - 1)] = <<>>
  OBVIOUS
<1>2. Len(<<>>) = 0
  OBVIOUS
<1> QED BY <1>1, <1>2 DEF Parsed, FlattenSeq

LEMMA ParsedOneMore ==
    ASSUME NEW c, NEW f, NEW a \in Nat, NEW b \in Int, b + 1 >= a, Parsed(c, f, a, b) \in Seq(TaggedMessage)
    PROVE  Parsed(c, f, a, b + 1) = Parsed(c, f, a, b) \o Msgs(c, f, b + 1)
<1>1. PICK n \in Nat : n = b - a + 1
  OBVIOUS
<1>2. PICK s : s = [i \in 1 .. n |-> Msgs(c, f, a + i - 1)]
  OBVIOUS
<1>3. PICK t : t = [i \in 1 .. n + 1 |-> Msgs(c, f, a + i - 1)]
  OBVIOUS
<1>4. Parsed(c, f, a, b) = FlattenSeq(s)
  <2>1. (IF b >= a THEN b - a + 1 ELSE 0) = n
    BY <1>1
  <2> QED BY <1>2, <2>1 DEF Parsed
<1>5. Parsed(c, f, a, b + 1) = FlattenSeq(t)
  <2>1. (IF b + 1 >= a THEN (b + 1) - a + 1 ELSE 0) = n + 1
    BY <1>1
  <2> QED BY <1>3, <2>1 DEF Parsed
<1>6. t[n + 1] = Msgs(c, f, b + 1)
  <2>1. a + (n + 1) - 1 = b + 1 /\ n + 1 \in 1 .. n + 1
    BY <1>1
  <2> QED BY <1>3, <2>1
<1>7. b + 1 \in Nat
  OBVIOUS
<1>8. CASE n = 0
  <2>1. t = <<Msgs(c, f, b + 1)>>
    BY <1>3, <1>6, <1>8
  <2>2. Parsed(c, f, a, b) = <<>>
    BY <1>1, <1>8, ParsedNothing
  <2>3. <<>> \o Msgs(c, f, b + 1) = Msgs(c, f, b + 1)
    BY <1>7, MsgsType, ConcatEmptySeq
  <2> QED BY <1>5, <2>1, <2>2, <2>3, FlattenOne
<1>9. CASE n # 0
  <2>1. Len(s) = n /\ Len(t) = n + 1 /\ \A i \in 1 .. n : t[i] = s[i]
    BY <1>2, <1>3
  <2>2. LongerByOne(s, t, n)
    BY <1>9, <2>1 DEF LongerByOne, Agree
  <2>3. FlattenSeq(t) = FlattenSeq(s) \o t[n + 1]
    BY <2>2, FlattenLonger
  <2> QED BY <1>4, <1>5, <1>6, <2>3
<1> QED BY <1>8, <1>9

\* Where a message of a file comes from.
From(m, c, f, n) ==
    /\ m.entry \in 1 .. n /\ m.part \in 1 .. Len(Converted(c, f[m.entry]))
    /\ m.msg = Converted(c, f[m.entry])[m.part]

LEMMA ParsedType ==
    ASSUME NEW c, NEW f, NEW a \in Nat, a >= 1
    PROVE  \A n \in Nat : /\ Parsed(c, f, a, a - 1 + n) \in Seq(TaggedMessage)
                          /\ Len(Parsed(c, f, a, a - 1 + n)) <= 2 * n
<1> DEFINE T == {n \in Nat : /\ Parsed(c, f, a, a - 1 + n) \in Seq(TaggedMessage)
                             /\ Len(Parsed(c, f, a, a - 1 + n)) <= 2 * n}
<1>1. 0 \in T
  <2>1. Parsed(c, f, a, a - 1 + 0) = <<>>
    BY ParsedNothing
  <2>2. <<>> \in Seq(TaggedMessage) /\ Len(<<>>) <= 2 * 0
    OBVIOUS
  <2> QED BY <2>1, <2>2
<1>2. ASSUME NEW n \in Nat, n \in T PROVE n + 1 \in T
  <2>1. PICK b \in Int : b = a - 1 + n
    OBVIOUS
  <2>2. PICK s \in Seq(TaggedMessage) : s = Parsed(c, f, a, b) /\ Len(s) <= 2 * n
    BY <1>2, <2>1
  <2>3. b + 1 = a - 1 + (n + 1) /\ b + 1 >= a /\ b + 1 \in Nat
    BY <2>1
  <2>4. Parsed(c, f, a, b + 1) = s \o Msgs(c, f, b + 1)
    BY <2>2, <2>3, ParsedOneMore
  <2>5. PICK t \in Seq(TaggedMessage) : t = Msgs(c, f, b + 1) /\ Len(t) <= 2
    BY <2>3, MsgsType
  <2>6. s \o t \in Seq(TaggedMessage) /\ Len(s \o t) = Len(s) + Len(t)
    BY ConcatProperties
  <2>7. Len(s) + Len(t) <= 2 * (n + 1)
    BY <2>2, <2>5
  <2>8. PICK x : x = Parsed(c, f, a, b + 1) /\ x = s \o t
    BY <2>4, <2>5
  <2>9. x = Parsed(c, f, a, a - 1 + (n + 1)) /\ x \in Seq(TaggedMessage) /\ Len(x) <= 2 * (n + 1)
    BY <2>3, <2>6, <2>7, <2>8
  <2> QED BY <2>9
<1>3. Nat \subseteq T
  <2> HIDE DEF T
  <2> QED BY <1>1, <1>2, NatSet
<1> QED BY <1>3

LEMMA ParsedIsSeq ==
    ASSUME NEW c, NEW f, NEW a \in Nat, a >= 1, NEW b \in Nat, b >= a - 1
    PROVE  Parsed(c, f, a, b) \in Seq(TaggedMessage) /\ Len(Parsed(c, f, a, b)) <= 2 * (b - a + 1)
<1>1. PICK n \in Nat : n = b - a + 1
  OBVIOUS
<1>2. a - 1 + n = b
  BY <1>1
<1>3. Parsed(c, f, a, a - 1 + n) \in Seq(TaggedMessage) /\ Len(Parsed(c, f, a, a - 1 + n)) <= 2 * n
  BY ParsedType
<1> QED BY <1>1, <1>2, <1>3

LEMMA WholeIsSeq ==
    ASSUME NEW c, NEW f, NEW n \in Nat
    PROVE  Parsed(c, f, 1, n) \in Seq(TaggedMessage) /\ Len(Parsed(c, f, 1, n)) <= 2 * n
<1>1. n >= 1 - 1 /\ n - 1 + 1 = n /\ 1 \in Nat /\ 1 >= 1
  OBVIOUS
<1> QED BY <1>1, ParsedIsSeq

LEMMA TaggedConcat ==
    ASSUME NEW s \in Seq(TaggedMessage), NEW t \in Seq(TaggedMessage), NEW u \in Seq(TaggedMessage)
    PROVE  (s \o t) \o u = s \o (t \o u)
BY ConcatAssociative

\* Every message of a file is what its entry was converted to.
LEMMA ParsedFrom ==
    ASSUME NEW c, NEW f
    PROVE  \A n \in Nat : \A j \in 1 .. Len(Parsed(c, f, 1, n)) : From(Parsed(c, f, 1, n)[j], c, f, n)
<1> DEFINE T == {n \in Nat : \A j \in 1 .. Len(Parsed(c, f, 1, n)) : From(Parsed(c, f, 1, n)[j], c, f, n)}
<1>1. 0 \in T
  <2>1. Parsed(c, f, 1, 0) = <<>>
    BY ParsedNothing
  <2> QED BY <2>1
<1>2. ASSUME NEW n \in Nat, n \in T PROVE n + 1 \in T
  <2>1. PICK s \in Seq(TaggedMessage) : s = Parsed(c, f, 1, n)
    BY WholeIsSeq
  <2>2. PICK t \in Seq(TaggedMessage) :
            /\ t = Msgs(c, f, n + 1) /\ Len(t) = Len(Converted(c, f[n + 1]))
            /\ \A p \in 1 .. Len(t) : t[p] = [entry |-> n + 1, part |-> p, msg |-> Converted(c, f[n + 1])[p]]
    BY MsgsType
  <2>3. PICK x \in Seq(TaggedMessage) :
            /\ x = s \o t /\ Len(x) = Len(s) + Len(t)
            /\ \A j \in 1 .. Len(s) + Len(t) : x[j] = IF j <= Len(s) THEN s[j] ELSE t[j - Len(s)]
    <3>1. s \o t \in Seq(TaggedMessage)
      BY ConcatProperties
    <3> QED BY <3>1, ConcatProperties
  <2>4. x = Parsed(c, f, 1, n + 1)
    <3>1. n + 1 >= 1 /\ n \in Int /\ 1 \in Nat
      OBVIOUS
    <3>2. Parsed(c, f, 1, n + 1) = Parsed(c, f, 1, n) \o Msgs(c, f, n + 1)
      BY <2>1, <3>1, ParsedOneMore
    <3> QED BY <2>1, <2>2, <2>3, <3>2
  <2>5. ASSUME NEW j \in 1 .. Len(x) PROVE From(x[j], c, f, n + 1)
    <3>1. Len(s) \in Nat /\ Len(t) \in Nat
      OBVIOUS
    <3>2. CASE j <= Len(s)
      <4>1. j \in 1 .. Len(s) /\ x[j] = s[j]
        BY <2>3, <2>5, <3>1, <3>2
      <4>2. From(s[j], c, f, n)
        BY <1>2, <2>1, <4>1
      <4> QED BY <4>1, <4>2 DEF From
    <3>3. CASE ~(j <= Len(s))
      <4>1. PICK p \in 1 .. Len(t) : x[j] = t[p]
        BY <2>3, <2>5, <3>1, <3>3
      <4>2. x[j] = [entry |-> n + 1, part |-> p, msg |-> Converted(c, f[n + 1])[p]]
        BY <2>2, <4>1
      <4> QED BY <2>2, <4>2 DEF From
    <3> QED BY <3>2, <3>3
  <2> QED BY <2>4, <2>5
<1>3. Nat \subseteq T
  <2> HIDE DEF T
  <2> QED BY <1>1, <1>2, NatSet
<1> QED BY <1>3

\* A file read in two parts is the file read whole.
LEMMA ParsedJoins ==
    ASSUME NEW c, NEW f, NEW k \in Nat
    PROVE  \A n \in Nat : Parsed(c, f, 1, k) \o Parsed(c, f, k + 1, k + n) = Parsed(c, f, 1, k + n)
<1> DEFINE T == {n \in Nat : Parsed(c, f, 1, k) \o Parsed(c, f, k + 1, k + n) = Parsed(c, f, 1, k + n)}
<1>0. PICK s \in Seq(TaggedMessage) : s = Parsed(c, f, 1, k)
  BY WholeIsSeq
<1>1. 0 \in T
  <2>1. Parsed(c, f, k + 1, k + 0) = <<>>
    BY ParsedNothing
  <2>2. s \o <<>> = s
    BY ConcatEmptySeq
  <2> QED BY <1>0, <2>1, <2>2
<1>2. ASSUME NEW n \in Nat, n \in T PROVE n + 1 \in T
  <2>1. PICK b \in Nat : b = k + n
    OBVIOUS
  <2>2. b + 1 = k + (n + 1) /\ b + 1 >= k + 1 /\ b + 1 >= 1 /\ k + 1 \in Nat /\ k + 1 >= 1
    BY <2>1
  <2>3. PICK t \in Seq(TaggedMessage) : t = Parsed(c, f, k + 1, b)
    <3>1. b >= (k + 1) - 1
      BY <2>1
    <3> QED BY <2>2, <3>1, ParsedIsSeq
  <2>4. PICK u \in Seq(TaggedMessage) : u = Parsed(c, f, 1, b)
    BY WholeIsSeq
  <2>5. PICK x \in Seq(TaggedMessage) : x = Msgs(c, f, b + 1)
    BY <2>2, MsgsType
  <2>6. Parsed(c, f, k + 1, b + 1) = t \o x /\ Parsed(c, f, 1, b + 1) = u \o x
    <3>1. b \in Int /\ 1 \in Nat
      OBVIOUS
    <3>2. Parsed(c, f, k + 1, b + 1) = t \o x
      BY <2>2, <2>3, <2>5, <3>1, ParsedOneMore
    <3>3. Parsed(c, f, 1, b + 1) = u \o x
      BY <2>2, <2>4, <2>5, <3>1, ParsedOneMore
    <3> QED BY <3>2, <3>3
  <2>7. s \o t = u
    BY <1>0, <1>2, <2>1, <2>3, <2>4
  <2>8. (s \o t) \o x = s \o (t \o x)
    BY TaggedConcat
  <2>9. s \o (t \o x) = u \o x
    BY <2>7, <2>8
  <2>10. Parsed(c, f, 1, k) \o Parsed(c, f, k + 1, b + 1) = Parsed(c, f, 1, b + 1)
    BY <1>0, <2>6, <2>9
  <2> HIDE DEF T
  <2>11. PICK m \in Nat : m = n + 1
    OBVIOUS
  <2>12. k + m = b + 1
    BY <2>1, <2>11
  <2>13. Parsed(c, f, 1, k) \o Parsed(c, f, k + 1, k + m) = Parsed(c, f, 1, k + m)
    BY <2>10, <2>12
  <2> QED BY <2>11, <2>13 DEF T
<1>3. Nat \subseteq T
  <2> HIDE DEF T
  <2> QED BY <1>1, <1>2, NatSet
<1> QED BY <1>3

Joined(c, f, k, m) == Parsed(c, f, 1, k) \o Parsed(c, f, k + 1, m) = Parsed(c, f, 1, m)

LEMMA PartsOfFile ==
    ASSUME NEW c, NEW f, NEW k \in Nat, NEW m \in Nat, k <= m
    PROVE  Joined(c, f, k, m)
<1>1. PICK n \in Nat : k + n = m
  <2>1. m - k \in Nat /\ k + (m - k) = m
    OBVIOUS
  <2> QED BY <2>1
<1>2. \A i \in Nat : Parsed(c, f, 1, k) \o Parsed(c, f, k + 1, k + i) = Parsed(c, f, 1, k + i)
  BY ParsedJoins
<1>3. Parsed(c, f, 1, k) \o Parsed(c, f, k + 1, k + n) = Parsed(c, f, 1, k + n)
  BY <1>2, Zenon
<1> QED BY <1>1, <1>3 DEF Joined

\* Only the entries read matter.
LEMMA ParsedSame ==
    ASSUME NEW c, NEW f, NEW g, NEW n \in Nat, \A i \in 1 .. n : f[i] = g[i]
    PROVE  Parsed(c, f, 1, n) = Parsed(c, g, 1, n)
<1>1. PICK m \in Nat : m = IF n >= 1 THEN n - 1 + 1 ELSE 0
  OBVIOUS
<1>2. \A i \in 1 .. m : 1 + i - 1 = i /\ i \in 1 .. n
  BY <1>1
<1>3. \A i \in 1 .. m : Msgs(c, f, 1 + i - 1) = Msgs(c, g, 1 + i - 1)
  BY <1>2 DEF Msgs
<1>4. [i \in 1 .. m |-> Msgs(c, f, 1 + i - 1)] = [i \in 1 .. m |-> Msgs(c, g, 1 + i - 1)]
  BY <1>3
<1> QED BY <1>1, <1>4 DEF Parsed

-----------------------------------------------------------------------------
(* The messages of a whole file, as AllMessages has them.                  *)
FirstOfGemini == [entry |-> 0, part |-> 1, msg |-> Text("progress", "none")]
SummaryOf(f) == [entry |-> Len(f) + 1, part |-> 1, msg |-> Text("summary", "none")]
Ending(f, s) == IF s THEN <<SummaryOf(f)>> ELSE <<>>
Whole(c, f, s, t) ==
    CASE c = "claude" -> Parsed(c, f, 1, Len(f))
      [] c = "codex"  -> Parsed(c, f, 1, IF t THEN Len(f) - 1 ELSE Len(f))
      [] OTHER        -> <<FirstOfGemini>> \o Parsed(c, f, 1, Len(f)) \o Ending(f, s)

LEMMA WholeIsAll == AllMessages = Whole(cli, file, summary, torn)
BY DEF AllMessages, Whole, CodexFile, GeminiFile, MessagesOf, Readable, Parsed, Msgs, FirstOfGemini, SummaryOf, Ending

LEMMA WholeIsAllNext == AllMessages' = Whole(cli', file', summary', torn')
BY DEF AllMessages, Whole, CodexFile, GeminiFile, MessagesOf, Readable, Parsed, Msgs, FirstOfGemini, SummaryOf, Ending

Agents == {"claude", "codex", "gemini"}
AnyKind == UNION {EntryKinds[c] : c \in Agents}

\* The first and the last message of a Gemini file.
LEMMA GeminiEnds ==
    ASSUME NEW n \in Nat, NEW f, Len(f) = n, NEW s \in BOOLEAN
    PROVE  /\ FirstOfGemini \in TaggedMessage /\ SummaryOf(f) \in TaggedMessage
           /\ <<FirstOfGemini>> \in Seq(TaggedMessage) /\ Len(<<FirstOfGemini>>) = 1
           /\ Ending(f, s) \in Seq(TaggedMessage) /\ Len(Ending(f, s)) = IF s THEN 1 ELSE 0
<1>1. Text("progress", "none") \in Message /\ Text("summary", "none") \in Message
  BY DEF Text, Msg, Message, Blocks
<1>2. FirstOfGemini \in TaggedMessage /\ SummaryOf(f) \in TaggedMessage
  BY <1>1 DEF FirstOfGemini, SummaryOf, TaggedMessage
<1>3. \A m \in TaggedMessage : <<m>> \in Seq(TaggedMessage) /\ Len(<<m>>) = 1
  OBVIOUS
<1>4. <<>> \in Seq(TaggedMessage) /\ Len(<<>>) = 0
  OBVIOUS
<1> QED BY <1>2, <1>3, <1>4 DEF Ending

\* How many messages a file has, and where they come from.
LEMMA WholeType ==
    ASSUME NEW c \in Agents, NEW f, NEW n \in Nat, Len(f) = n, NEW s \in BOOLEAN, NEW t \in BOOLEAN, t => n > 0
    PROVE  /\ Whole(c, f, s, t) \in Seq(TaggedMessage) /\ Len(Whole(c, f, s, t)) <= 2 * n + 2
           /\ \A j \in 1 .. Len(Whole(c, f, s, t)) :
                 \/ From(Whole(c, f, s, t)[j], c, f, n)
                 \/ Whole(c, f, s, t)[j].entry \in {0, n + 1}
<1>1. PICK p \in Seq(TaggedMessage) :
         /\ p = Parsed(c, f, 1, n) /\ Len(p) <= 2 * n
         /\ \A j \in 1 .. Len(p) : From(p[j], c, f, n)
  BY WholeIsSeq, ParsedFrom
<1>2. CASE c = "claude" \/ (c = "codex" /\ ~t)
  <2>1. Whole(c, f, s, t) = p
    BY <1>1, <1>2 DEF Whole
  <2> QED BY <1>1, <2>1
<1>3. CASE c = "codex" /\ t
  <2>1. PICK m \in Nat : m = n - 1
    BY <1>3
  <2>2. PICK q \in Seq(TaggedMessage) :
           /\ q = Parsed(c, f, 1, m) /\ Len(q) <= 2 * m
           /\ \A j \in 1 .. Len(q) : From(q[j], c, f, m)
    BY WholeIsSeq, ParsedFrom
  <2>3. Whole(c, f, s, t) = q
    BY <1>3, <2>1, <2>2 DEF Whole
  <2>4. \A x : From(x, c, f, m) => From(x, c, f, n)
    BY <2>1 DEF From
  <2>5. 2 * m <= 2 * n + 2
    BY <2>1
  <2> QED BY <2>2, <2>3, <2>4, <2>5
<1>4. CASE c = "gemini"
  <2>1. PICK a, b \in Seq(TaggedMessage) :
           /\ a = <<FirstOfGemini>> /\ b = Ending(f, s) /\ Len(a) = 1 /\ Len(b) = IF s THEN 1 ELSE 0
    BY GeminiEnds
  <2>2. PICK d \in Seq(TaggedMessage) :
           /\ d = a \o p /\ Len(d) = Len(a) + Len(p)
           /\ \A j \in 1 .. Len(a) + Len(p) : d[j] = IF j <= Len(a) THEN a[j] ELSE p[j - Len(a)]
    <3>1. a \o p \in Seq(TaggedMessage)
      BY ConcatProperties
    <3> QED BY <3>1, ConcatProperties
  <2>3. PICK e \in Seq(TaggedMessage) :
           /\ e = d \o b /\ Len(e) = Len(d) + Len(b)
           /\ \A j \in 1 .. Len(d) + Len(b) : e[j] = IF j <= Len(d) THEN d[j] ELSE b[j - Len(d)]
    <3>1. d \o b \in Seq(TaggedMessage)
      BY ConcatProperties
    <3> QED BY <3>1, ConcatProperties
  <2>4. Whole(c, f, s, t) = e
    BY <1>1, <1>4, <2>1, <2>2, <2>3 DEF Whole
  <2>5. PICK l \in Nat : l = Len(p) /\ l <= 2 * n
    BY <1>1
  <2>6. Len(d) = l + 1 /\ Len(e) = l + 1 + Len(b) /\ Len(e) <= 2 * n + 2
    BY <2>1, <2>2, <2>3, <2>5
  <2>7. a[1].entry = 0
    BY <2>1 DEF FirstOfGemini
  <2>8. \A j \in 1 .. Len(b) : b[j].entry = n + 1
    BY <2>1 DEF Ending, SummaryOf
  <2>9. ASSUME NEW j \in 1 .. Len(e) PROVE From(e[j], c, f, n) \/ e[j].entry \in {0, n + 1}
    <3>1. CASE j = 1
      BY <2>1, <2>2, <2>3, <2>5, <2>6, <2>7, <3>1
    <3>2. CASE j \in 2 .. l + 1
      <4>1. e[j] = p[j - 1] /\ j - 1 \in 1 .. l
        BY <2>1, <2>2, <2>3, <2>5, <2>6, <3>2
      <4> QED BY <1>1, <2>5, <4>1
    <3>3. CASE j > l + 1
      <4>1. Len(b) \in Nat /\ Len(e) = Len(d) + Len(b) /\ Len(d) = l + 1
        BY <2>3, <2>6
      <4>2. PICK i \in 1 .. Len(b) : i = j - Len(d)
        BY <3>3, <4>1
      <4>3. e[j] = b[i]
        <5>1. j \in 1 .. Len(d) + Len(b) /\ ~(j <= Len(d))
          BY <3>3, <4>1
        <5> QED BY <2>3, <4>2, <5>1
      <4> QED BY <2>8, <4>2, <4>3
    <3> QED BY <3>1, <3>2, <3>3, <2>6
  <2>10. \A j \in 1 .. Len(e) : From(e[j], c, f, n) \/ e[j].entry \in {0, n + 1}
    BY <2>9
  <2>11. Len(e) <= 2 * n + 2
    BY <2>6
  <2> QED BY <2>4, <2>10, <2>11
<1> QED BY <1>2, <1>3, <1>4 DEF Agents

-----------------------------------------------------------------------------
(* Parts of a sequence.                                                    *)
\* The elements of a part; a part of the front stays; two parts join.
Fits(s, b, l) == b + l <= Len(s)
Part(s, b, l) == SubSeq(s, b + 1, b + l)

LEMMA PartOf ==
    ASSUME NEW S, NEW s \in Seq(S), NEW b \in Nat, NEW l \in Nat, Fits(s, b, l)
    PROVE  /\ Part(s, b, l) \in Seq(S) /\ Len(Part(s, b, l)) = l
           /\ \A i \in 1 .. l : Part(s, b, l)[i] = s[b + i]
<1>1. PICK n \in Nat : n = Len(s)
  OBVIOUS
<1>2. PICK x, y \in Int : x = b + 1 /\ y = b + l
  OBVIOUS
<1>3. \A i \in x .. y : i \in 1 .. Len(s)
  BY <1>1, <1>2 DEF Fits
<1>4. \A i \in x .. y : s[i] \in S
  BY <1>3, ElementOfSeq
<1>5. PICK z : z = SubSeq(s, x, y)
  OBVIOUS
<1>6. /\ z \in Seq(S) /\ Len(z) = (IF x <= y THEN y - x + 1 ELSE 0)
      /\ \A i \in 1 .. (y - x + 1) : z[i] = s[x + i - 1]
  BY <1>3, <1>5, SubSeqProperties
<1>7. Len(z) = l
  BY <1>2, <1>6
<1>8. \A i \in 1 .. l : i \in 1 .. (y - x + 1) /\ x + i - 1 = b + i
  BY <1>2
<1> QED BY <1>2, <1>5, <1>6, <1>7, <1>8 DEF Part

LEMMA PartStays ==
    ASSUME NEW S, NEW s \in Seq(S), NEW t \in Seq(S), NEW b \in Nat, NEW l \in Nat, b + l <= Len(s)
    PROVE  SubSeq(s \o t, b + 1, b + l) = SubSeq(s, b + 1, b + l)
<1>1. PICK m, n \in Nat : m = Len(s) /\ n = Len(t)
  OBVIOUS
<1>2. PICK u \in Seq(S) : /\ u = s \o t /\ Len(u) = m + n
                          /\ \A i \in 1 .. m + n : u[i] = IF i <= m THEN s[i] ELSE t[i - m]
  <2>1. s \o t \in Seq(S)
    BY ConcatProperties
  <2>2. /\ Len(s \o t) = Len(s) + Len(t)
        /\ \A i \in 1 .. Len(s) + Len(t) : (s \o t)[i] = IF i <= Len(s) THEN s[i] ELSE t[i - Len(s)]
    BY ConcatProperties
  <2> QED BY <1>1, <2>1, <2>2
<1>3. b + l <= Len(u)
  BY <1>1, <1>2
<1>4. PICK x \in Seq(S) : x = SubSeq(u, b + 1, b + l) /\ Len(x) = l /\ \A i \in 1 .. l : x[i] = u[b + i]
  <2>1. Fits(u, b, l)
    BY <1>3 DEF Fits
  <2>2. /\ Part(u, b, l) \in Seq(S) /\ Len(Part(u, b, l)) = l
        /\ \A i \in 1 .. l : Part(u, b, l)[i] = u[b + i]
    BY <2>1, PartOf
  <2> QED BY <2>2 DEF Part
<1>5. PICK y \in Seq(S) : y = SubSeq(s, b + 1, b + l) /\ Len(y) = l /\ \A i \in 1 .. l : y[i] = s[b + i]
  <2>1. Fits(s, b, l)
    BY DEF Fits
  <2>2. /\ Part(s, b, l) \in Seq(S) /\ Len(Part(s, b, l)) = l
        /\ \A i \in 1 .. l : Part(s, b, l)[i] = s[b + i]
    BY <2>1, PartOf
  <2> QED BY <2>2 DEF Part
<1>6. \A i \in 1 .. l : u[b + i] = s[b + i]
  BY <1>1, <1>2
<1>7. x = y
  BY <1>4, <1>5, <1>6, SeqEqual
<1> QED BY <1>2, <1>4, <1>5, <1>7

LEMMA PartsJoin ==
    ASSUME NEW S, NEW s \in Seq(S), NEW b \in Nat, NEW l \in Nat, b + l <= Len(s)
    PROVE  SubSeq(s, b + 1, b + l) \o SubSeq(s, b + l + 1, Len(s)) = SubSeq(s, b + 1, Len(s))
<1>1. PICK n, r \in Nat : n = Len(s) /\ n = b + l + r
  <2>1. Len(s) \in Nat /\ Len(s) - (b + l) \in Nat
    OBVIOUS
  <2> QED BY <2>1
<1>2. PICK x \in Seq(S) : x = SubSeq(s, b + 1, b + l) /\ Len(x) = l /\ \A i \in 1 .. l : x[i] = s[b + i]
  <2>1. Fits(s, b, l)
    BY DEF Fits
  <2>2. /\ Part(s, b, l) \in Seq(S) /\ Len(Part(s, b, l)) = l
        /\ \A i \in 1 .. l : Part(s, b, l)[i] = s[b + i]
    BY <2>1, PartOf
  <2> QED BY <2>2 DEF Part
<1>3. PICK c \in Nat : c = b + l
  OBVIOUS
<1>4. PICK y \in Seq(S) : y = SubSeq(s, c + 1, c + r) /\ Len(y) = r /\ \A i \in 1 .. r : y[i] = s[c + i]
  <2>1. Fits(s, c, r)
    BY <1>1, <1>3 DEF Fits
  <2>2. /\ Part(s, c, r) \in Seq(S) /\ Len(Part(s, c, r)) = r
        /\ \A i \in 1 .. r : Part(s, c, r)[i] = s[c + i]
    BY <2>1, PartOf
  <2> QED BY <2>2 DEF Part
<1>5. PICK k \in Nat : k = l + r
  OBVIOUS
<1>6. PICK z \in Seq(S) : z = SubSeq(s, b + 1, b + k) /\ Len(z) = k /\ \A i \in 1 .. k : z[i] = s[b + i]
  <2>1. Fits(s, b, k)
    BY <1>1, <1>5 DEF Fits
  <2>2. /\ Part(s, b, k) \in Seq(S) /\ Len(Part(s, b, k)) = k
        /\ \A i \in 1 .. k : Part(s, b, k)[i] = s[b + i]
    BY <2>1, PartOf
  <2> QED BY <2>2 DEF Part
<1>7. PICK u \in Seq(S) : /\ u = x \o y /\ Len(u) = l + r
                          /\ \A i \in 1 .. l + r : u[i] = IF i <= l THEN x[i] ELSE y[i - l]
  <2>1. PICK u \in Seq(S) : /\ u = x \o y /\ Len(u) = Len(x) + Len(y)
                            /\ \A i \in 1 .. Len(x) + Len(y) : u[i] = IF i <= Len(x) THEN x[i] ELSE y[i - Len(x)]
    <3>1. x \o y \in Seq(S)
      BY ConcatProperties
    <3> QED BY <3>1, ConcatProperties
  <2>2. Len(x) = l /\ Len(y) = r
    BY <1>2, <1>4
  <2>3. \A i \in 1 .. l + r : u[i] = IF i <= l THEN x[i] ELSE y[i - l]
    BY <2>1, <2>2
  <2> QED BY <2>1, <2>2, <2>3
<1>8. ASSUME NEW i \in 1 .. k PROVE u[i] = z[i]
  <2>1. CASE i <= l
    <3>1. i \in 1 .. l /\ i \in 1 .. l + r
      BY <1>5, <2>1
    <3>2. u[i] = x[i] /\ x[i] = s[b + i]
      BY <1>2, <1>7, <3>1
    <3> QED BY <1>6, <3>2
  <2>2. CASE ~(i <= l)
    <3>1. i - l \in 1 .. r /\ c + (i - l) = b + i
      BY <1>3, <1>5, <2>2
    <3>2. y[i - l] = s[b + i]
      BY <1>4, <3>1
    <3> QED BY <1>5, <1>6, <1>7, <2>2, <3>2
  <2> QED BY <2>1, <2>2
<1>9. u = z
  BY <1>5, <1>6, <1>7, <1>8, SeqEqual
<1>10. b + k = Len(s) /\ c + r = Len(s) /\ c + 1 = b + l + 1
  BY <1>1, <1>3, <1>5
<1> QED BY <1>2, <1>4, <1>6, <1>7, <1>9, <1>10

-----------------------------------------------------------------------------
(* What a write that only adds at the end does to the messages of the file. *)
\* One more entry puts its messages behind the others.
LEMMA OneEntryMore ==
    ASSUME NEW c, NEW f, NEW g, NEW n \in Nat, Agree(f, g, n)
    PROVE  /\ Msgs(c, g, n + 1) \in Seq(TaggedMessage)
           /\ Parsed(c, g, 1, n + 1) = Parsed(c, f, 1, n) \o Msgs(c, g, n + 1)
<1>1. Parsed(c, g, 1, n) = Parsed(c, f, 1, n) /\ Parsed(c, g, 1, n) \in Seq(TaggedMessage)
  BY ParsedSame, WholeIsSeq DEF Agree
<1>2. n \in Int /\ n + 1 >= 1 /\ 1 \in Nat /\ n + 1 \in Nat
  OBVIOUS
<1>3. Parsed(c, g, 1, n + 1) = Parsed(c, g, 1, n) \o Msgs(c, g, n + 1)
  BY <1>1, <1>2, ParsedOneMore
<1>4. Msgs(c, g, n + 1) \in Seq(TaggedMessage)
  BY <1>2, MsgsType
<1> QED BY <1>1, <1>3, <1>4

LEMMA NothingMore == ASSUME NEW s \in Seq(TaggedMessage) PROVE \E x \in Seq(TaggedMessage) : s = s \o x
<1>1. s \o <<>> = s /\ <<>> \in Seq(TaggedMessage)
  BY ConcatEmptySeq
<1> QED BY <1>1

\* Gemini's file without and with a summary.
LEMMA GeminiWhole ==
    ASSUME NEW f, NEW n \in Nat, Len(f) = n, NEW t
    PROVE  /\ Whole("gemini", f, FALSE, t) = <<FirstOfGemini>> \o Parsed("gemini", f, 1, n)
           /\ Whole("gemini", f, TRUE, t) = Whole("gemini", f, FALSE, t) \o <<SummaryOf(f)>>
           /\ <<FirstOfGemini>> \in Seq(TaggedMessage) /\ <<SummaryOf(f)>> \in Seq(TaggedMessage)
<1>1. <<FirstOfGemini>> \in Seq(TaggedMessage) /\ Ending(f, TRUE) \in Seq(TaggedMessage)
  BY GeminiEnds
<1>2. PICK s \in Seq(TaggedMessage) : s = <<FirstOfGemini>> \o Parsed("gemini", f, 1, n)
  BY <1>1, WholeIsSeq, ConcatProperties
<1>3. s \o <<>> = s
  BY ConcatEmptySeq
<1>4. Whole("gemini", f, FALSE, t) = s \o Ending(f, FALSE) /\ Whole("gemini", f, TRUE, t) = s \o Ending(f, TRUE)
  BY <1>2 DEF Whole
<1>5. Ending(f, FALSE) = <<>> /\ Ending(f, TRUE) = <<SummaryOf(f)>>
  BY DEF Ending
<1> QED BY <1>1, <1>2, <1>3, <1>4, <1>5

\* The middle of Gemini's file grows while nothing is behind it.
Longer(f, g, x) ==
    /\ Len(f) \in Nat /\ Len(g) \in Nat
    /\ Parsed("gemini", g, 1, Len(g)) = Parsed("gemini", f, 1, Len(f)) \o x

GeminiOf(f) == <<FirstOfGemini>> \o Parsed("gemini", f, 1, Len(f))

LEMMA GeminiGrows ==
    ASSUME NEW f, NEW g, NEW x \in Seq(TaggedMessage), Longer(f, g, x)
    PROVE  GeminiOf(g) = GeminiOf(f) \o x
<1>0. /\ Len(f) \in Nat /\ Len(g) \in Nat
      /\ Parsed("gemini", g, 1, Len(g)) = Parsed("gemini", f, 1, Len(f)) \o x
  BY DEF Longer
<1>1. PICK a, p, q \in Seq(TaggedMessage) :
         a = <<FirstOfGemini>> /\ p = Parsed("gemini", f, 1, Len(f)) /\ q = Parsed("gemini", g, 1, Len(g))
  BY <1>0, WholeIsSeq, GeminiWhole
<1>2. (a \o p) \o x = a \o (p \o x)
  BY TaggedConcat
<1>3. GeminiOf(f) = a \o p /\ GeminiOf(g) = a \o q
  BY <1>1 DEF GeminiOf
<1> QED BY <1>0, <1>1, <1>2, <1>3

\* The file without a summary at its end.
Bare(c, f, t) == Whole(c, f, FALSE, t)
Settled(c, f) == Whole(c, f, FALSE, FALSE)
MayBe(c, t) == t \in BOOLEAN /\ (c = "claude" => ~t)
OneMore(f, g) == Len(f) \in Nat /\ Len(g) = Len(f) + 1 /\ Agree(f, g, Len(f))

\* Whatever the agent, a new entry only adds at the end, torn or not.
Adds(a, b) == \E x \in Seq(TaggedMessage) : b = a \o x

LEMMA WholeGrows ==
    ASSUME NEW c \in Agents, NEW f, NEW g, NEW t, OneMore(f, g), MayBe(c, t)
    PROVE  Adds(Settled(c, f), Bare(c, g, t))
<1> USE DEF MayBe, Bare, Settled, Adds
<1>0. PICK n \in Nat : Len(f) = n /\ Len(g) = n + 1 /\ Agree(f, g, n)
  BY DEF OneMore
<1>2. PICK m \in Nat : m = n + 1 /\ m - 1 = n
  OBVIOUS
<1>1. PICK x \in Seq(TaggedMessage) : Parsed(c, g, 1, m) = Parsed(c, f, 1, n) \o x
  <2>2. PICK x \in Seq(TaggedMessage) : x = Msgs(c, g, n + 1) /\ Parsed(c, g, 1, n + 1) = Parsed(c, f, 1, n) \o x
    BY <1>0, OneEntryMore
  <2> QED BY <1>2, <2>2
<1>3. CASE c = "claude" \/ (c = "codex" /\ ~t)
  <2>1. Whole(c, g, FALSE, t) = Parsed(c, g, 1, m) /\ Whole(c, f, FALSE, FALSE) = Parsed(c, f, 1, n)
    BY <1>0, <1>2, <1>3 DEF Whole
  <2> QED BY <1>1, <2>1
<1>4. CASE c = "codex" /\ t
  <2>1. Whole(c, g, FALSE, t) = Parsed(c, g, 1, n) /\ Whole(c, f, FALSE, FALSE) = Parsed(c, f, 1, n)
    BY <1>0, <1>2, <1>4 DEF Whole
  <2>2. Parsed(c, g, 1, n) = Parsed(c, f, 1, n) /\ Parsed(c, f, 1, n) \in Seq(TaggedMessage)
    BY <1>0, ParsedSame, WholeIsSeq DEF Agree
  <2> QED BY <2>1, <2>2, NothingMore
<1>5. CASE c = "gemini"
  <2>1. Whole("gemini", g, FALSE, t) = Whole("gemini", f, FALSE, FALSE) \o x
    <3>1. Len(f) \in Nat /\ Len(g) \in Nat /\ Parsed("gemini", g, 1, Len(g)) = Parsed("gemini", f, 1, Len(f)) \o x
      BY <1>0, <1>1, <1>2, <1>5
    <3>2. Longer(f, g, x)
      BY <3>1 DEF Longer
    <3>3. GeminiOf(g) = GeminiOf(f) \o x
      BY <3>2, GeminiGrows
    <3>4. Whole("gemini", g, FALSE, t) = GeminiOf(g)
      BY <3>1, GeminiWhole DEF GeminiOf
    <3>5. Whole("gemini", f, FALSE, FALSE) = GeminiOf(f)
      BY <3>1, GeminiWhole DEF GeminiOf
    <3> QED BY <3>3, <3>4, <3>5
  <2>2. Bare(c, g, t) = Whole("gemini", g, FALSE, t) /\ Settled(c, f) = Whole("gemini", f, FALSE, FALSE)
    BY <1>5
  <2> HIDE DEF Bare, Settled
  <2> QED BY <2>1, <2>2
<1> QED BY <1>3, <1>4, <1>5 DEF Agents

\* The rest of a torn entry only adds at the end.
LEMMA WholeCompletes ==
    ASSUME NEW c \in {"codex", "gemini"}, NEW f, NEW n \in Nat, Len(f) = n, n > 0, NEW s \in BOOLEAN
    PROVE  \E x \in Seq(TaggedMessage) : Whole(c, f, s, FALSE) = Whole(c, f, s, TRUE) \o x
<1>1. CASE c = "codex"
  <2>1. PICK m \in Nat : m = n - 1 /\ m + 1 = n
    OBVIOUS
  <2>2. PICK x \in Seq(TaggedMessage) : Parsed(c, f, 1, n) = Parsed(c, f, 1, m) \o x
    <3>1. Agree(f, f, m)
      BY DEF Agree
    <3>2. PICK x \in Seq(TaggedMessage) : x = Msgs(c, f, m + 1) /\ Parsed(c, f, 1, m + 1) = Parsed(c, f, 1, m) \o x
      BY <3>1, OneEntryMore
    <3> QED BY <2>1, <3>2
  <2>3. Whole(c, f, s, FALSE) = Parsed(c, f, 1, n) /\ Whole(c, f, s, TRUE) = Parsed(c, f, 1, m)
    BY <1>1, <2>1 DEF Whole
  <2> QED BY <2>2, <2>3
<1>2. CASE c = "gemini"
  <2>1. Whole(c, f, s, FALSE) = Whole(c, f, s, TRUE)
    BY <1>2 DEF Whole
  <2>2. n > 0 => n > 0
    OBVIOUS
  <2>3. Whole(c, f, s, TRUE) \in Seq(TaggedMessage)
    BY <1>2, WholeType DEF Agents
  <2> QED BY <2>1, <2>3, NothingMore
<1> QED BY <1>1, <1>2

LEMMA TwoAreTwo == ASSUME NEW a, NEW b PROVE <<a>> \o <<b>> = <<a, b>>
<1>1. \A x \in {a, b} : <<x>> \in Seq({a, b}) /\ Len(<<x>>) = 1 /\ <<x>>[1] = x
  OBVIOUS
<1>2. PICK s \in Seq({a, b}) : s = <<a>> /\ Len(s) = 1 /\ s[1] = a
  BY <1>1
<1>3. PICK t \in Seq({a, b}) : t = <<b>> /\ Len(t) = 1 /\ t[1] = b
  BY <1>1
<1>4. PICK u \in Seq({a, b}) : u = s \o t /\ Len(u) = 2 /\ u[1] = a /\ u[2] = b
  <2>1. s \o t \in Seq({a, b})
    BY ConcatProperties
  <2>2. Len(s \o t) = Len(s) + Len(t) /\ \A i \in 1 .. Len(s) + Len(t) : (s \o t)[i] = IF i <= Len(s) THEN s[i] ELSE t[i - Len(s)]
    BY ConcatProperties
  <2>3. Len(s) + Len(t) = 2 /\ 1 <= Len(s) /\ ~(2 <= Len(s)) /\ 2 - Len(s) = 1
    BY <1>2, <1>3
  <2>4. (s \o t)[1] = s[1] /\ (s \o t)[2] = t[1]
    BY <2>2, <2>3
  <2> QED BY <1>2, <1>3, <2>1, <2>2, <2>3, <2>4
<1>5. u = <<a, b>>
  <2>0. /\ <<a, b>> \in Seq({a, b}) /\ Len(<<a, b>>) = 2
        /\ <<a, b>>[1] = a /\ <<a, b>>[2] = b
    OBVIOUS
  <2>1. PICK v \in Seq({a, b}) : v = <<a, b>> /\ Len(v) = 2 /\ v[1] = a /\ v[2] = b
    BY <2>0
  <2>2. \A i \in 1 .. 2 : u[i] = v[i]
    BY <1>4, <2>1
  <2>3. u = v
    BY <1>4, <2>1, <2>2, SeqEqual
  <2> QED BY <2>1, <2>3
<1> QED BY <1>2, <1>3, <1>4, <1>5

\* An answer behind its thoughts.
Answers(f, g) ==
    \E n \in Nat, m \in Nat :
        /\ m = n - 1 /\ m + 1 = n /\ Len(f) = n /\ Len(g) = n
        /\ Agree(f, g, m) /\ f[n] = "thinking" /\ g[n] = "thinking_answer"

LEMMA AnswerAdded ==
    ASSUME NEW f, NEW g, Answers(f, g)
    PROVE  \E x \in Seq(TaggedMessage) : Settled("gemini", g) = Settled("gemini", f) \o x
<1>1. PICK n, m \in Nat : /\ m = n - 1 /\ m + 1 = n /\ Len(f) = n /\ Len(g) = n
                         /\ Agree(f, g, m) /\ f[n] = "thinking" /\ g[n] = "thinking_answer"
  BY DEF Answers
<1>2. PICK a, b \in Message :
         /\ a = Msg("assistant", "assistant", <<"thinking">>, FALSE)
         /\ b = Msg("assistant", "assistant", <<"text">>, TRUE)
  <2>1. Msg("assistant", "assistant", <<"thinking">>, FALSE) \in Message
    BY DEF Msg, Message, Blocks
  <2>2. Msg("assistant", "assistant", <<"text">>, TRUE) \in Message
    BY DEF Msg, Message, Blocks
  <2> QED BY <2>1, <2>2
<1>3. Converted("gemini", f[n]) = <<a>> /\ Converted("gemini", g[n]) = <<a, b>>
  <2>1. Converted("gemini", f[n]) = <<a>> \o <<>>
    BY <1>1, <1>2 DEF Converted, GeminiMessages, GeminiAssistant, GeminiThoughts
  <2>2. Converted("gemini", g[n]) = <<a>> \o <<b>>
    BY <1>1, <1>2 DEF Converted, GeminiMessages, GeminiAssistant, GeminiThoughts
  <2>3. <<a>> \o <<>> = <<a>>
    OBVIOUS
  <2>4. <<a>> \o <<b>> = <<a, b>>
    BY TwoAreTwo
  <2> QED BY <2>1, <2>2, <2>3, <2>4
<1>4. PICK u, v \in TaggedMessage : u = [entry |-> n, part |-> 1, msg |-> a] /\ v = [entry |-> n, part |-> 2, msg |-> b]
  BY DEF TaggedMessage
<1>5. PICK p, q \in Seq(TaggedMessage) :
         /\ p = Msgs("gemini", f, n) /\ Len(p) = 1 /\ p[1] = u
         /\ q = Msgs("gemini", g, n) /\ Len(q) = 2 /\ q[1] = u /\ q[2] = v
  <2>1. Len(<<a>>) = 1 /\ <<a>>[1] = a /\ Len(<<a, b>>) = 2 /\ <<a, b>>[1] = a /\ <<a, b>>[2] = b
    OBVIOUS
  <2>2. 1 \in 1 .. 1 /\ 1 \in 1 .. 2 /\ 2 \in 1 .. 2
    OBVIOUS
  <2> QED BY <1>3, <1>4, <2>1, <2>2, MsgsType
<1>6. PICK x \in Seq(TaggedMessage) : x = <<v>> /\ q = p \o x
  <2>1. p = <<u>> /\ q = <<u, v>>
    BY <1>5
  <2>2. <<u>> \o <<v>> = <<u, v>>
    BY TwoAreTwo
  <2>3. <<v>> \in Seq(TaggedMessage)
    BY <1>4
  <2> QED BY <2>1, <2>2, <2>3
<1>7. PICK w \in Seq(TaggedMessage) : w = Parsed("gemini", f, 1, m) /\ w = Parsed("gemini", g, 1, m)
  BY <1>1, ParsedSame, WholeIsSeq DEF Agree
<1>8. m \in Int /\ m + 1 >= 1 /\ 1 \in Nat
  OBVIOUS
<1>9. Parsed("gemini", f, 1, m + 1) = w \o Msgs("gemini", f, m + 1)
  BY <1>7, <1>8, ParsedOneMore
<1>10. Parsed("gemini", g, 1, m + 1) = w \o Msgs("gemini", g, m + 1)
  BY <1>7, <1>8, ParsedOneMore
<1>11. (w \o p) \o x = w \o (p \o x)
  BY TaggedConcat
<1>12. Parsed("gemini", g, 1, Len(g)) = Parsed("gemini", f, 1, Len(f)) \o x
  BY <1>1, <1>5, <1>6, <1>9, <1>10, <1>11
<1>13. Len(f) \in Nat /\ Len(g) \in Nat
  BY <1>1
<1>14. Settled("gemini", g) = Settled("gemini", f) \o x
  <2>1. Longer(f, g, x)
    BY <1>12, <1>13 DEF Longer
  <2>2. GeminiOf(g) = GeminiOf(f) \o x
    BY <2>1, GeminiGrows
  <2>3. Settled("gemini", g) = GeminiOf(g)
    BY <1>13, GeminiWhole DEF GeminiOf, Settled
  <2>4. Settled("gemini", f) = GeminiOf(f)
    BY <1>13, GeminiWhole DEF GeminiOf, Settled
  <2> QED BY <2>2, <2>3, <2>4
<1> QED BY <1>14

-----------------------------------------------------------------------------
(* The numbers.                                                            *)
\* No file has as many messages as an entry has bytes.
LEMMA Numbers ==
    /\ MaxMessages \in Nat /\ Unset \in Nat /\ Unset = MaxMessages + 1
    /\ BytesPerEntry \in Nat /\ BytesPerEntry = MaxMessages + 1 /\ BytesPerEntry > 0
    /\ \A n \in Nat : n <= MaxEntries => 2 * n + 2 <= MaxMessages
BY CountedAssumption DEF MaxMessages, Unset, BytesPerEntry

LEMMA Multiples ==
    ASSUME NEW B \in Nat, B > 0, NEW k \in Nat, NEW n \in Nat
    PROVE  /\ B * k \in Nat /\ (k <= n => B * k <= B * n) /\ (k > n => B * k > B * n)
           /\ (n > 0 => B * n >= B) /\ B * 0 = 0
<1>1. B * k \in Nat /\ B * n \in Nat /\ B * 0 = 0
  OBVIOUS
<1>2. ASSUME NEW i \in Nat, NEW j \in Nat, i <= j PROVE B * i <= B * j
  <2>1. PICK d \in Nat : j = i + d
    <3>1. j - i \in Nat /\ j = i + (j - i)
      BY <1>2
    <3> QED BY <3>1
  <2>2. B * j = B * i + B * d /\ B * d >= 0 /\ B * i \in Int /\ B * d \in Int
    BY <2>1
  <2> QED BY <2>2
<1>3. k <= n => B * k <= B * n
  BY <1>2
<1>4. ASSUME k > n PROVE B * k > B * n
  <2>1. n + 1 <= k /\ n + 1 \in Nat
    BY <1>4
  <2>2. B * (n + 1) <= B * k
    BY <1>2, <2>1
  <2>3. B * (n + 1) = B * n + B
    OBVIOUS
  <2> QED BY <1>1, <2>2, <2>3
<1>5. ASSUME n > 0 PROVE B * n >= B
  <2>1. 1 <= n /\ 1 \in Nat /\ B * 1 = B
    BY <1>5
  <2> QED BY <1>2, <2>1
<1> QED BY <1>1, <1>3, <1>4, <1>5

\* The offset of an entry leads back to the entry.
LEMMA DivExact ==
    ASSUME NEW B \in Nat, B > 0, NEW k \in Nat
    PROVE  (B * k) \div B = k
<1>1. PICK x \in Nat : x = B * k
  OBVIOUS
<1>2. PICK q, r \in Int : x = B * q + r /\ 0 <= r /\ r < B /\ q = x \div B
  <2>1. x \div B \in Int /\ x % B \in Int /\ x = B * (x \div B) + (x % B) /\ 0 <= x % B /\ x % B < B
    OBVIOUS
  <2> QED BY <2>1
<1>3. q >= 0
  BY <1>1, <1>2
<1>4. q = k
  <2>1. ~(q > k)
    BY <1>1, <1>2, <1>3, Multiples
  <2>2. ~(q < k)
    <3>1. SUFFICES ASSUME q < k PROVE FALSE
      OBVIOUS
    <3>2. q + 1 <= k /\ q + 1 \in Nat /\ q \in Nat
      BY <1>3, <3>1
    <3>3. B * (q + 1) <= B * k
      BY <3>2, Multiples
    <3>4. B * (q + 1) = B * q + B /\ B * q \in Int
      OBVIOUS
    <3> QED BY <1>1, <1>2, <3>3, <3>4
  <2> QED BY <2>1, <2>2, <1>2
<1> QED BY <1>1, <1>2, <1>4

-----------------------------------------------------------------------------
(* The inductive invariant.                                                *)

\* What the watcher knows of a file that has only grown.
Track(c, f, all, off, b, p) ==
    /\ b = Unset => p = <<>> /\ c # "claude" /\ off > MaxMessages
    /\ b # Unset =>
        /\ b + Len(p) <= Len(all)
        /\ p = SubSeq(all, b + 1, b + Len(p))
        /\ c # "claude" => off = b + Len(p)
        /\ c = "claude" => \E k \in 0 .. Len(f) : off = BytesPerEntry * k /\ b + Len(p) = Len(Parsed(c, f, 1, k))

CountedTypeOK ==
    /\ cli \in CLIs
    /\ file \in Seq(AnyKind) /\ Len(file) <= MaxEntries
    /\ \A i \in 1 .. Len(file) : file[i] \in EntryKinds[cli]
    /\ summary \in BOOLEAN /\ torn \in BOOLEAN /\ pending \in BOOLEAN /\ lost \in BOOLEAN /\ grown \in BOOLEAN
    /\ offset \in Nat /\ base \in Nat /\ pushed \in Seq(TaggedMessage)
    /\ torn => file # <<>> /\ cli # "claude"
    /\ summary => cli = "gemini"
    /\ cli = "claude" => \E k \in Nat : offset = BytesPerEntry * k

CountedInv ==
    /\ CountedTypeOK
    /\ grown => Track(cli, file, AllMessages, offset, base, pushed)
    /\ (grown /\ base # Unset /\ ~pending /\ ~lost /\ ~torn) => base + Len(pushed) = Len(AllMessages)

LEMMA CliType == CountedTypeOK => cli \in Agents
BY CountedAssumption DEF CountedTypeOK, Agents

\* What the file holds at any time.
LEMMA AllType ==
    CountedTypeOK =>
        /\ AllMessages \in Seq(TaggedMessage) /\ Len(AllMessages) <= MaxMessages
        /\ \A j \in 1 .. Len(AllMessages) :
              \/ From(AllMessages[j], cli, file, Len(file))
              \/ AllMessages[j].entry \in {0, Len(file) + 1}
<1> SUFFICES ASSUME CountedTypeOK
             PROVE  /\ AllMessages \in Seq(TaggedMessage) /\ Len(AllMessages) <= MaxMessages
                    /\ \A j \in 1 .. Len(AllMessages) :
                          \/ From(AllMessages[j], cli, file, Len(file))
                          \/ AllMessages[j].entry \in {0, Len(file) + 1}
  OBVIOUS
<1>1. PICK c \in Agents : c = cli
  BY CliType
<1>2. PICK n \in Nat : n = Len(file) /\ n <= MaxEntries
  BY DEF CountedTypeOK
<1>3. PICK s, t \in BOOLEAN : s = summary /\ t = torn /\ (t => n > 0)
  BY <1>2 DEF CountedTypeOK
<1>4. AllMessages = Whole(c, file, s, t)
  BY <1>1, <1>3, WholeIsAll
<1>5. 2 * n + 2 <= MaxMessages
  BY <1>2, Numbers
<1>6. /\ Whole(c, file, s, t) \in Seq(TaggedMessage) /\ Len(Whole(c, file, s, t)) <= 2 * n + 2
      /\ \A j \in 1 .. Len(Whole(c, file, s, t)) :
            \/ From(Whole(c, file, s, t)[j], c, file, n)
            \/ Whole(c, file, s, t)[j].entry \in {0, n + 1}
  BY <1>2, <1>3, WholeType
<1>7. PICK a \in Seq(TaggedMessage) :
        /\ a = AllMessages /\ Len(a) <= 2 * n + 2
        /\ \A j \in 1 .. Len(a) : From(a[j], c, file, n) \/ a[j].entry \in {0, n + 1}
  BY <1>4, <1>6
<1>8. Len(a) <= MaxMessages
  BY <1>5, <1>7, Numbers
<1> QED BY <1>1, <1>2, <1>7, <1>8

\* More messages at the end leave what is known as it is.
LEMMA TrackGrows ==
    ASSUME NEW c, NEW f, NEW g, NEW n \in Nat, NEW m \in Nat, Len(f) = n, Len(g) = m, n <= m,
           c = "claude" => Agree(f, g, n),
           NEW a \in Seq(TaggedMessage), NEW x \in Seq(TaggedMessage), NEW b \in Nat, NEW p \in Seq(TaggedMessage),
           NEW off, Track(c, f, a, off, b, p)
    PROVE  Track(c, g, a \o x, off, b, p)
<1>1. PICK l \in Nat : l = Len(p)
  OBVIOUS
<1>2. PICK u \in Seq(TaggedMessage) : u = a \o x /\ Len(u) = Len(a) + Len(x)
  <2>1. a \o x \in Seq(TaggedMessage)
    BY ConcatProperties
  <2> QED BY <2>1, ConcatProperties
<1>3. CASE b = Unset
  BY <1>3 DEF Track
<1>4. CASE b # Unset
  <2>1. b + l <= Len(a) /\ p = SubSeq(a, b + 1, b + l)
    BY <1>1, <1>4 DEF Track
  <2>2. b + l <= Len(u)
    BY <1>2, <2>1
  <2>3. SubSeq(u, b + 1, b + l) = SubSeq(a, b + 1, b + l)
    BY <1>2, <2>1, PartStays
  <2>4. ASSUME c = "claude"
        PROVE  \E k \in 0 .. Len(g) : off = BytesPerEntry * k /\ b + l = Len(Parsed(c, g, 1, k))
    <3>1. PICK k \in 0 .. n : off = BytesPerEntry * k /\ b + l = Len(Parsed(c, f, 1, k))
      BY <1>1, <1>4, <2>4 DEF Track
    <3>2. \A i \in 1 .. k : f[i] = g[i]
      BY <2>4 DEF Agree
    <3>3. k \in Nat /\ k \in 0 .. Len(g)
      OBVIOUS
    <3>4. Parsed(c, f, 1, k) = Parsed(c, g, 1, k)
      BY <3>2, <3>3, ParsedSame
    <3> QED BY <3>1, <3>3, <3>4
  <2>5. c # "claude" => off = b + l
    BY <1>1, <1>4 DEF Track
  <2> QED BY <1>1, <1>2, <1>4, <2>1, <2>2, <2>3, <2>4, <2>5 DEF Track
<1> QED BY <1>3, <1>4

\* A write that only adds messages.
LEMMA Writing ==
    ASSUME CountedInv, CountedTypeOK', Wrote, grown,
           file' = file \/ cli # "claude" \/ Agree(file, file', Len(file)),
           Len(file') >= Len(file),
           \E x \in Seq(TaggedMessage) : AllMessages' = AllMessages \o x
    PROVE  CountedInv'
<1>1. PICK n, m \in Nat : n = Len(file) /\ m = Len(file') /\ n <= m
  BY DEF CountedInv, CountedTypeOK
<1>2. PICK x \in Seq(TaggedMessage) : AllMessages' = AllMessages \o x
  OBVIOUS
<1>3. PICK a, p \in Seq(TaggedMessage) : a = AllMessages /\ p = pushed
  BY AllType DEF CountedInv, CountedTypeOK
<1>4. PICK b \in Nat : b = base
  BY DEF CountedInv, CountedTypeOK
<1>5. cli = "claude" => Agree(file, file', n)
  <2>1. Agree(file, file, n)
    BY DEF Agree
  <2> QED BY <1>1, <2>1
<1>6. Track(cli, file, a, offset, b, p)
  BY <1>3, <1>4 DEF CountedInv
<1>7. Track(cli, file', a \o x, offset, b, p)
  BY <1>1, <1>5, <1>6, TrackGrows
<1>8. Track(cli', file', AllMessages', offset', base', pushed')
  BY <1>2, <1>3, <1>4, <1>7 DEF Wrote
<1>9. pending' = TRUE
  BY DEF Wrote
<1> QED BY <1>8, <1>9 DEF CountedInv

LEMMA FileIs ==
    CountedTypeOK => /\ Len(file) \in Nat
                     /\ file = <<>> <=> Len(file) = 0
                     /\ DOMAIN file = 1 .. Len(file)
BY DEF CountedTypeOK

\* The agent's steps.
LEMMA WriteEntryKeeps ==
    ASSUME CountedInv, NEW kind, NEW whole \in BOOLEAN, WriteEntry(kind, whole)
    PROVE  CountedInv'
<1> USE DEF CountedInv
<1>1. PICK n \in Nat : n = Len(file) /\ n < MaxEntries
  BY DEF WriteEntry, CountedTypeOK
<1>2. cli \in Agents /\ kind \in EntryKinds[cli] /\ kind \in AnyKind
  <2>1. cli \in Agents
    BY CliType
  <2>2. kind \in EntryKinds[cli]
    BY CountedAssumption DEF WriteEntry, CountedTypeOK
  <2> QED BY <2>1, <2>2 DEF AnyKind
<1>3. PICK g \in Seq(AnyKind) : g = file' /\ Len(g) = n + 1 /\ g[n + 1] = kind /\ Agree(file, g, n)
  <2>1. file \in Seq(AnyKind)
    BY DEF CountedTypeOK
  <2>2. /\ Append(file, kind) \in Seq(AnyKind) /\ Len(Append(file, kind)) = n + 1
        /\ Append(file, kind)[n + 1] = kind /\ \A i \in 1 .. n : Append(file, kind)[i] = file[i]
    BY <1>1, <1>2, <2>1, AppendProperties
  <2> QED BY <2>2 DEF WriteEntry, Agree
<1>4. CountedTypeOK'
  <2>1. \A i \in 1 .. n + 1 : g[i] \in EntryKinds[cli]
    <3>1. \A i \in 1 .. n + 1 : i = n + 1 \/ i \in 1 .. n
      OBVIOUS
    <3>2. \A i \in 1 .. n : file[i] \in EntryKinds[cli]
      BY <1>1 DEF CountedTypeOK
    <3> QED BY <1>2, <1>3, <3>1, <3>2 DEF Agree
  <2>2. torn' \in BOOLEAN /\ grown' \in BOOLEAN /\ pending' \in BOOLEAN /\ (torn' => cli # "claude")
    BY DEF WriteEntry, Wrote, CountedTypeOK
  <2>3. g # <<>> /\ n + 1 <= MaxEntries
    BY <1>1, <1>3, CountedAssumption
  <2> QED BY <1>1, <1>3, <2>1, <2>2, <2>3 DEF WriteEntry, Wrote, CountedTypeOK
<1>5. CASE summary
  BY <1>4, <1>5 DEF WriteEntry, CountedTypeOK
<1>6. CASE ~summary
  <2>1. PICK c \in Agents : c = cli /\ c = cli'
    BY <1>2 DEF WriteEntry, Wrote
  <2>2. PICK t \in BOOLEAN : t = torn' /\ (c = "claude" => ~t)
    BY <1>4, <2>1 DEF WriteEntry, CountedTypeOK
  <2>3. AllMessages = Settled(c, file)
    <3>1. AllMessages = Whole(cli, file, summary, torn)
      BY WholeIsAll
    <3>2. summary = FALSE /\ torn = FALSE
      BY <1>6 DEF WriteEntry, CountedTypeOK
    <3> QED BY <2>1, <3>1, <3>2 DEF Settled
  <2>4. AllMessages' = Bare(c, g, t)
    <3>1. AllMessages' = Whole(cli', file', summary', torn')
      BY WholeIsAllNext
    <3>2. summary' = FALSE
      BY <1>6 DEF WriteEntry, CountedTypeOK
    <3> QED BY <1>3, <2>1, <2>2, <3>1, <3>2 DEF Bare
  <2>5. Adds(Settled(c, file), Bare(c, g, t))
    <3>1. OneMore(file, g)
      BY <1>1, <1>3 DEF OneMore
    <3>2. MayBe(c, t)
      BY <2>2 DEF MayBe
    <3> QED BY <3>1, <3>2, WholeGrows
  <2>6. \E x \in Seq(TaggedMessage) : AllMessages' = AllMessages \o x
    BY <2>3, <2>4, <2>5 DEF Adds
  <2>7. Agree(file, file', Len(file)) /\ Len(file') >= Len(file) /\ Wrote /\ grown
    BY <1>1, <1>3 DEF WriteEntry
  <2> HIDE DEF CountedInv
  <2> QED BY <1>4, <2>6, <2>7, Writing
<1> QED BY <1>4, <1>5, <1>6 DEF CountedTypeOK

LEMMA CompleteKeeps == ASSUME CountedInv, Complete PROVE CountedInv'
<1> USE DEF CountedInv
<1>1. CountedTypeOK'
  BY DEF Complete, Wrote, CountedTypeOK
<1>2. CASE ~grown
  BY <1>1, <1>2 DEF Complete
<1>3. CASE grown
  <2>1. PICK c \in {"codex", "gemini"} : c = cli /\ c = cli'
    BY CliType DEF Agents, Complete, Wrote, CountedTypeOK
  <2>2. PICK n \in Nat : n = Len(file) /\ n > 0
    BY DEF Complete, CountedTypeOK
  <2>3. PICK s \in BOOLEAN : s = summary /\ s = summary'
    BY DEF Complete, CountedTypeOK
  <2>4. AllMessages = Whole(c, file, s, TRUE)
    <3>1. AllMessages = Whole(cli, file, summary, torn) /\ torn = TRUE
      BY WholeIsAll DEF Complete, CountedTypeOK
    <3> QED BY <2>1, <2>3, <3>1
  <2>5. AllMessages' = Whole(c, file, s, FALSE)
    <3>1. AllMessages' = Whole(cli', file', summary', torn') /\ torn' = FALSE /\ file' = file
      BY WholeIsAllNext DEF Complete
    <3> QED BY <2>1, <2>3, <3>1
  <2>6. \E x \in Seq(TaggedMessage) : Whole(c, file, s, FALSE) = Whole(c, file, s, TRUE) \o x
    BY <2>2, WholeCompletes
  <2>7. \E x \in Seq(TaggedMessage) : AllMessages' = AllMessages \o x
    BY <2>4, <2>5, <2>6
  <2>8. file' = file /\ Len(file') >= Len(file) /\ Wrote
    BY <2>2 DEF Complete
  <2> HIDE DEF CountedInv
  <2> QED BY <1>1, <1>3, <2>7, <2>8, Writing
<1> QED BY <1>2, <1>3

LEMMA SummariseKeeps == ASSUME CountedInv, Summarise PROVE CountedInv'
<1> USE DEF CountedInv
<1>1. CountedTypeOK'
  BY DEF Summarise, Wrote, CountedTypeOK
<1>2. PICK n \in Nat : n = Len(file)
  BY FileIs
<1>3. AllMessages = Whole("gemini", file, FALSE, FALSE)
  <2>1. AllMessages = Whole(cli, file, summary, torn)
    BY WholeIsAll
  <2>2. cli = "gemini" /\ summary = FALSE /\ torn = FALSE
    BY DEF Summarise, CountedTypeOK
  <2> QED BY <2>1, <2>2
<1>4. AllMessages' = Whole("gemini", file, TRUE, FALSE)
  <2>1. AllMessages' = Whole(cli', file', summary', torn')
    BY WholeIsAllNext
  <2>2. cli' = "gemini" /\ summary' = TRUE /\ torn' = FALSE /\ file' = file
    BY DEF Summarise, Wrote, CountedTypeOK
  <2> QED BY <2>1, <2>2
<1>5. PICK x \in Seq(TaggedMessage) : x = <<SummaryOf(file)>>
  BY <1>2, GeminiWhole
<1>6. Whole("gemini", file, TRUE, FALSE) = Whole("gemini", file, FALSE, FALSE) \o <<SummaryOf(file)>>
  BY <1>2, GeminiWhole
<1>7. \E y \in Seq(TaggedMessage) : AllMessages' = AllMessages \o y
  BY <1>3, <1>4, <1>5, <1>6
<1>8. file' = file /\ Len(file') >= Len(file) /\ Wrote /\ grown
  BY <1>2 DEF Summarise
<1> HIDE DEF CountedInv
<1> QED BY <1>1, <1>7, <1>8, Writing

LEMMA ExtendKeeps == ASSUME CountedInv, Extend PROVE CountedInv'
<1> USE DEF CountedInv
<1>1. PICK n \in Nat \ {0} : n = Len(file)
  BY FileIs DEF Extend
<1>2. cli = "gemini" /\ file[n] = "thinking"
  BY <1>1 DEF Extend, Last
<1>3. PICK m \in Nat : m = n - 1 /\ m + 1 = n
  BY <1>1
<1>4. PICK h \in Seq(AnyKind) : h = Front(file) /\ Len(h) = m /\ \A i \in 1 .. m : h[i] = file[i]
  <2>1. file \in Seq(AnyKind)
    BY DEF CountedTypeOK
  <2>2. PICK h : h = SubSeq(file, 1, m)
    OBVIOUS
  <2>3. m <= Len(file) /\ Fits(file, 0, m) /\ 0 \in Nat
    BY <1>1, <1>3 DEF Fits
  <2>4. Part(file, 0, m) \in Seq(AnyKind) /\ Len(Part(file, 0, m)) = m /\ \A i \in 1 .. m : Part(file, 0, m)[i] = file[0 + i]
    BY <2>1, <2>3, PartOf
  <2>5. 0 + 1 = 1 /\ 0 + m = m /\ \A i \in 1 .. m : 0 + i = i
    OBVIOUS
  <2>6. h = Front(file)
    BY <1>1, <1>3, <2>2 DEF Front
  <2> QED BY <2>2, <2>4, <2>5, <2>6 DEF Part
<1>5. PICK g \in Seq(AnyKind) : g = file' /\ Len(g) = n /\ g[n] = "thinking_answer" /\ \A i \in 1 .. n - 1 : g[i] = file[i]
  <2>1. "thinking_answer" \in AnyKind
    BY DEF AnyKind, Agents, EntryKinds
  <2>2. PICK e \in Seq(AnyKind) : e = <<"thinking_answer">> /\ Len(e) = 1 /\ e[1] = "thinking_answer"
    <3>1. <<"thinking_answer">> \in Seq(AnyKind) /\ Len(<<"thinking_answer">>) = 1 /\ <<"thinking_answer">>[1] = "thinking_answer"
      BY <2>1
    <3> QED BY <3>1
  <2>3. PICK g \in Seq(AnyKind) : /\ g = h \o e /\ Len(g) = m + 1
                                  /\ \A i \in 1 .. m + 1 : g[i] = IF i <= m THEN h[i] ELSE e[i - m]
    <3>1. h \o e \in Seq(AnyKind)
      BY ConcatProperties
    <3>2. Len(h \o e) = Len(h) + Len(e) /\ \A i \in 1 .. Len(h) + Len(e) : (h \o e)[i] = IF i <= Len(h) THEN h[i] ELSE e[i - Len(h)]
      BY ConcatProperties
    <3>3. Len(h) = m /\ Len(e) = 1
      BY <1>4, <2>2
    <3> QED BY <3>1, <3>2, <3>3
  <2>4. g[n] = "thinking_answer"
    <3>1. n \in 1 .. m + 1 /\ ~(n <= m) /\ n - m = 1
      BY <1>3
    <3> QED BY <2>2, <2>3, <3>1
  <2>5. \A i \in 1 .. m : g[i] = file[i]
    <3>1. \A i \in 1 .. m : i \in 1 .. m + 1 /\ i <= m
      OBVIOUS
    <3> QED BY <1>4, <2>3, <3>1
  <2>6. g = file'
    BY <1>4, <2>2, <2>3 DEF Extend
  <2> QED BY <1>3, <2>3, <2>4, <2>5, <2>6
<1>6. CountedTypeOK'
  <2>1. "thinking_answer" \in EntryKinds[cli]
    BY <1>2 DEF EntryKinds
  <2>2. \A i \in 1 .. n : g[i] \in EntryKinds[cli]
    <3>1. \A i \in 1 .. n : i = n \/ i \in 1 .. n - 1
      OBVIOUS
    <3>2. \A i \in 1 .. n : file[i] \in EntryKinds[cli]
      BY <1>1 DEF CountedTypeOK
    <3> QED BY <1>5, <2>1, <3>1, <3>2
  <2>3. n <= MaxEntries /\ g # <<>>
    BY <1>1, <1>5 DEF CountedTypeOK
  <2> QED BY <1>5, <2>2, <2>3 DEF Extend, Wrote, CountedTypeOK
<1>7. CASE summary
  BY <1>6, <1>7 DEF Extend, CountedTypeOK
<1>8. CASE ~summary
  <2>1. AllMessages = Settled("gemini", file)
    <3>1. AllMessages = Whole(cli, file, summary, torn)
      BY WholeIsAll
    <3>2. summary = FALSE /\ torn = FALSE
      BY <1>8 DEF Extend, CountedTypeOK
    <3> QED BY <1>2, <3>1, <3>2 DEF Settled
  <2>2. AllMessages' = Settled("gemini", g)
    <3>1. AllMessages' = Whole(cli', file', summary', torn')
      BY WholeIsAllNext
    <3>2. cli' = "gemini" /\ summary' = FALSE /\ torn' = FALSE
      BY <1>8 DEF Extend, Wrote, CountedTypeOK
    <3> QED BY <1>5, <3>1, <3>2 DEF Settled
  <2>3. \E x \in Seq(TaggedMessage) : Settled("gemini", g) = Settled("gemini", file) \o x
    <3>1. Len(file) = n /\ Len(g) = n /\ n = m + 1 /\ n \in Nat
      BY <1>1, <1>3, <1>5
    <3>2. Agree(file, g, m)
      BY <1>3, <1>5 DEF Agree
    <3>3. file[n] = "thinking" /\ g[n] = "thinking_answer"
      BY <1>2, <1>5
    <3>4. Answers(file, g)
      BY <1>3, <3>1, <3>2, <3>3 DEF Answers
    <3> QED BY <3>4, AnswerAdded
  <2>4. \E y \in Seq(TaggedMessage) : AllMessages' = AllMessages \o y
    BY <2>1, <2>2, <2>3
  <2>5. cli # "claude" /\ Len(file') >= Len(file) /\ Wrote /\ grown
    BY <1>1, <1>2, <1>5 DEF Extend
  <2> HIDE DEF CountedInv
  <2> QED BY <1>6, <2>4, <2>5, Writing
<1> QED BY <1>7, <1>8

LEMMA RewindKeeps == ASSUME CountedInv, Rewind PROVE CountedInv'
<1> USE DEF CountedInv
<1>1. PICK n \in 0 .. (Len(file) - 1) : file' = SubSeq(file, 1, n)
  BY DEF Rewind
<1>2. PICK l \in Nat : l = Len(file) /\ n \in Nat /\ n <= l
  <2>1. Len(file) \in Nat
    BY FileIs
  <2>2. n \in Nat /\ n <= Len(file)
    BY <2>1
  <2> QED BY <2>1, <2>2
<1>3. PICK f \in Seq(AnyKind) : f = file /\ Fits(f, 0, n)
  BY <1>2 DEF CountedTypeOK, Fits
<1>4. 0 \in Nat /\ n \in Nat /\ 0 + 1 = 1 /\ 0 + n = n /\ \A i \in 1 .. n : 0 + i = i
  BY <1>2
<1>5. file' \in Seq(AnyKind) /\ Len(file') = n /\ \A i \in 1 .. n : file'[i] = file[i]
  <2>1. /\ Part(f, 0, n) \in Seq(AnyKind) /\ Len(Part(f, 0, n)) = n
        /\ \A i \in 1 .. n : Part(f, 0, n)[i] = f[0 + i]
    <3> HIDE DEF CountedInv
    <3> QED BY <1>3, <1>4, PartOf
  <2>2. Part(f, 0, n) = file'
    BY <1>1, <1>3, <1>4 DEF Part
  <2> QED BY <1>3, <1>4, <2>1, <2>2
<1>6. \A i \in 1 .. n : file[i] \in EntryKinds[cli]
  BY <1>2 DEF CountedTypeOK
<1>7. n <= MaxEntries
  BY <1>2, CountedAssumption DEF CountedTypeOK
<1> QED BY <1>5, <1>6, <1>7 DEF Rewind, Wrote, CountedTypeOK

LEMMA LoseKeeps == ASSUME CountedInv, LoseEvent PROVE CountedInv'
<1>1. AllMessages' = AllMessages
  BY DEF LoseEvent, AllMessages, CodexFile, GeminiFile, MessagesOf, Readable
<1> QED BY <1>1 DEF CountedInv, CountedTypeOK, LoseEvent

-----------------------------------------------------------------------------
(* Reading.                                                                *)
\* What is behind the front of a sequence.
LEMMA Behind ==
    ASSUME NEW S, NEW u \in Seq(S), NEW v \in Seq(S)
    PROVE  SubSeq(u \o v, Len(u) + 1, Len(u \o v)) = v
<1>1. PICK m, r \in Nat : m = Len(u) /\ r = Len(v)
  OBVIOUS
<1>2. PICK s \in Seq(S) : /\ s = u \o v /\ Len(s) = m + r
                          /\ \A i \in 1 .. m + r : s[i] = IF i <= m THEN u[i] ELSE v[i - m]
  <2>1. u \o v \in Seq(S)
    BY ConcatProperties
  <2>2. /\ Len(u \o v) = Len(u) + Len(v)
        /\ \A i \in 1 .. Len(u) + Len(v) : (u \o v)[i] = IF i <= Len(u) THEN u[i] ELSE v[i - Len(u)]
    BY ConcatProperties
  <2> QED BY <1>1, <2>1, <2>2
<1>3. PICK y \in Seq(S) : y = SubSeq(s, m + 1, m + r) /\ Len(y) = r /\ \A i \in 1 .. r : y[i] = s[m + i]
  <2>1. Fits(s, m, r)
    BY <1>2 DEF Fits
  <2>2. /\ Part(s, m, r) \in Seq(S) /\ Len(Part(s, m, r)) = r
        /\ \A i \in 1 .. r : Part(s, m, r)[i] = s[m + i]
    BY <2>1, PartOf
  <2> QED BY <2>2 DEF Part
<1>4. ASSUME NEW i \in 1 .. r PROVE y[i] = v[i]
  <2>1. m + i \in 1 .. m + r /\ ~(m + i <= m) /\ (m + i) - m = i
    BY <1>4
  <2> QED BY <1>2, <1>3, <2>1
<1>5. y = v
  BY <1>1, <1>3, <1>4, SeqEqual
<1> QED BY <1>1, <1>2, <1>3, <1>5

\* Everything behind the base has been taken.
UpToDate(a, b, q) ==
    /\ q \in Seq(TaggedMessage) /\ b + Len(q) = Len(a)
    /\ q = SubSeq(a, b + 1, b + Len(q))

\* A base at the end of the file, and the rest of a file taken.
LEMMA NothingTaken == ASSUME NEW a \in Seq(TaggedMessage) PROVE UpToDate(a, Len(a), <<>>)
<1>1. PICK n \in Nat : n = Len(a)
  OBVIOUS
<1>2. Fits(a, n, 0) /\ 0 \in Nat
  BY <1>1 DEF Fits
<1>3. PICK q \in Seq(TaggedMessage) : q = SubSeq(a, n + 1, n + 0) /\ Len(q) = 0
  <2>1. Part(a, n, 0) \in Seq(TaggedMessage) /\ Len(Part(a, n, 0)) = 0
    BY <1>2, PartOf
  <2> QED BY <2>1 DEF Part
<1>4. q = <<>>
  BY <1>3, EmptySeq
<1> QED BY <1>1, <1>3, <1>4 DEF UpToDate

LEMMA RestTaken ==
    ASSUME NEW a \in Seq(TaggedMessage), NEW b \in Nat, NEW l \in Nat, b + l <= Len(a)
    PROVE  UpToDate(a, b, SubSeq(a, b + 1, b + l) \o SubSeq(a, b + l + 1, Len(a)))
<1>1. PICK n \in Nat : n = Len(a)
  OBVIOUS
<1>2. PICK r \in Nat : b + r = n
  <2>1. n - b \in Nat /\ b + (n - b) = n
    BY <1>1
  <2> QED BY <2>1
<1>3. PICK q \in Seq(TaggedMessage) : q = SubSeq(a, b + 1, b + r) /\ Len(q) = r
  <2>1. Fits(a, b, r)
    BY <1>1, <1>2 DEF Fits
  <2>2. Part(a, b, r) \in Seq(TaggedMessage) /\ Len(Part(a, b, r)) = r
    BY <2>1, PartOf
  <2> QED BY <2>2 DEF Part
<1>4. SubSeq(a, b + 1, b + l) \o SubSeq(a, b + l + 1, Len(a)) = q
  BY <1>1, <1>2, <1>3, PartsJoin
<1> QED BY <1>1, <1>2, <1>3, <1>4 DEF UpToDate

\* The three ways of reading, when the file does parse.
ReadKeeps(new, next) ==
    /\ new \in Seq(TaggedMessage) /\ next \in Nat
    /\ cli = "claude" => next = BytesPerEntry * Len(file)
    /\ grown => /\ UpToDate(AllMessages, IF base = Unset THEN Len(AllMessages) ELSE base, pushed \o new)
                /\ cli # "claude" => next = Len(AllMessages)
                /\ cli = "claude" => base # Unset

\* Claude: from the byte behind the last entry read.
LEMMA ClaudeReads ==
    ASSUME CountedInv, cli = "claude"
    PROVE  ReadKeeps(Read.new, Read.next)
<1> USE DEF CountedInv
<1>1. PICK n \in Nat : n = Len(file)
  BY FileIs
<1>2. PICK B \in Nat : B = BytesPerEntry /\ B > 0
  BY Numbers
<1>3. PICK k \in Nat : offset = B * k
  BY <1>2 DEF CountedTypeOK
<1>4. PICK j \in Nat : j = (IF k > n THEN 0 ELSE k) /\ j <= n
  OBVIOUS
<1>5. (IF offset > Size THEN 0 ELSE offset) = B * j
  <2>1. Size = B * n
    BY <1>1, <1>2 DEF Size
  <2>2. CASE k > n
    <3>1. B * k > B * n /\ B * 0 = 0
      BY <1>2, <2>2, Multiples
    <3> QED BY <1>3, <1>4, <2>1, <2>2, <3>1
  <2>3. CASE ~(k > n)
    <3>1. k <= n
      BY <2>3
    <3>2. B * k <= B * n /\ B * k \in Nat /\ B * n \in Nat
      BY <1>2, <3>1, Multiples
    <3> QED BY <1>3, <1>4, <2>1, <2>3, <3>2
  <2> QED BY <2>2, <2>3
<1>6. (B * j) \div B = j
  BY <1>2, DivExact
<1>7. Read.new = Parsed(cli, file, j + 1, n) /\ Read.next = B * n
  <2>1. Read = [new |-> MessagesOf((B * j) \div B + 1, n), next |-> B * n]
    BY <1>1, <1>2, <1>5 DEF Read, ReadClaude, Size
  <2>2. MessagesOf(j + 1, n) = Parsed(cli, file, j + 1, n)
    BY DEF MessagesOf, Parsed, Msgs
  <2> QED BY <1>6, <2>1, <2>2
<1>8. PICK v \in Seq(TaggedMessage) : v = Parsed(cli, file, j + 1, n)
  <2>1. j + 1 \in Nat /\ j + 1 >= 1 /\ n >= (j + 1) - 1
    BY <1>4
  <2> QED BY <2>1, ParsedIsSeq
<1>9. B * n \in Nat
  OBVIOUS
<1>10. CASE grown
  <2>1. Track(cli, file, AllMessages, offset, base, pushed)
    BY <1>10
  <2>2. base # Unset
    BY <2>1 DEF Track
  <2>3. PICK b \in Nat, p \in Seq(TaggedMessage) : b = base /\ p = pushed
    BY DEF CountedTypeOK
  <2>4. PICK a \in Seq(TaggedMessage) : a = AllMessages
    BY AllType
  <2>5. a = Parsed(cli, file, 1, n)
    BY <1>1, <2>4 DEF AllMessages, MessagesOf, Parsed, Msgs
  <2>6. PICK i \in 0 .. n : offset = B * i /\ b + Len(p) = Len(Parsed(cli, file, 1, i))
    BY <1>1, <1>2, <2>1, <2>2, <2>3 DEF Track
  <2>7. i = j
    <3>1. i \in Nat /\ B * k = B * i
      BY <1>3, <2>6
    <3>2. i = k
      BY <1>2, <3>1, DivExact
    <3> QED BY <1>4, <2>6, <3>2
  <2>8. PICK u \in Seq(TaggedMessage) : u = Parsed(cli, file, 1, j) /\ Len(u) = b + Len(p)
    <3>1. Parsed(cli, file, 1, j) \in Seq(TaggedMessage)
      BY WholeIsSeq
    <3> QED BY <2>6, <2>7, <3>1
  <2>9. u \o v = a
    <3>1. Joined(cli, file, j, n)
      BY <1>4, PartsOfFile
    <3> QED BY <1>8, <2>5, <2>8, <3>1 DEF Joined
  <2>10. SubSeq(a, Len(u) + 1, Len(a)) = v
    BY <2>9, Behind
  <2>11. PICK l \in Nat : l = Len(p)
    OBVIOUS
  <2>12. b + l <= Len(a) /\ p = SubSeq(a, b + 1, b + l)
    BY <2>1, <2>2, <2>3, <2>4, <2>11 DEF Track
  <2>13. UpToDate(a, b, SubSeq(a, b + 1, b + l) \o SubSeq(a, b + l + 1, Len(a)))
    BY <2>12, RestTaken
  <2>14. UpToDate(a, b, p \o v)
    <3>1. v = SubSeq(a, b + l + 1, Len(a))
      BY <2>8, <2>10, <2>11
    <3> QED BY <2>12, <2>13, <3>1
  <2> QED BY <1>1, <1>2, <1>7, <1>8, <1>9, <2>2, <2>3, <2>4, <2>14 DEF ReadKeeps
<1> QED BY <1>1, <1>2, <1>7, <1>8, <1>9, <1>10 DEF ReadKeeps

\* Codex and Gemini: behind the number of messages seen.
LEMMA OthersRead ==
    ASSUME CountedInv, cli # "claude"
    PROVE  ReadKeeps(Read.new, Read.next)
<1> USE DEF CountedInv
<1>1. PICK a \in Seq(TaggedMessage) : a = AllMessages /\ Len(a) <= MaxMessages
  BY AllType
<1>2. PICK n \in Nat : n = Len(a)
  OBVIOUS
<1>3. PICK off \in Nat : off = offset
  BY DEF CountedTypeOK
<1>4. Read = [new |-> IF n > off THEN SubSeq(a, off + 1, n) ELSE <<>>, next |-> n]
  <2>1. Read = ReadWhole(a)
    <3>1. cli \in Agents
      BY CliType
    <3> QED BY <1>1, <3>1 DEF Read, AllMessages, Agents
  <2> QED BY <1>2, <1>3, <2>1 DEF ReadWhole
<1>5. PICK v \in Seq(TaggedMessage) : v = Read.new /\ v = IF n > off THEN SubSeq(a, off + 1, n) ELSE <<>>
  <2>1. CASE n > off
    <3>1. PICK r \in Nat : off + r = n
      <4>1. n - off \in Nat /\ off + (n - off) = n
        BY <2>1
      <4> QED BY <4>1
    <3>2. Fits(a, off, r)
      BY <1>2, <3>1 DEF Fits
    <3>3. Part(a, off, r) \in Seq(TaggedMessage)
      BY <3>2, PartOf
    <3> QED BY <1>4, <2>1, <3>1, <3>3 DEF Part
  <2>2. CASE ~(n > off)
    <3>1. <<>> \in Seq(TaggedMessage)
      OBVIOUS
    <3> QED BY <1>4, <2>2, <3>1
  <2> QED BY <2>1, <2>2
<1>6. PICK b \in Nat, p \in Seq(TaggedMessage) : b = base /\ p = pushed
  BY DEF CountedTypeOK
<1>7. ASSUME grown PROVE UpToDate(a, IF b = Unset THEN n ELSE b, p \o v)
  <2>1. Track(cli, file, a, off, b, p)
    BY <1>1, <1>3, <1>6, <1>7
  <2>2. CASE b = Unset
    <3>1. p = <<>> /\ off > MaxMessages
      BY <2>1, <2>2 DEF Track
    <3>2. v = <<>>
      BY <1>1, <1>2, <1>5, <3>1, Numbers
    <3>3. p \o v = <<>>
      BY <3>1, <3>2, ConcatEmptySeq
    <3>4. UpToDate(a, Len(a), <<>>)
      BY NothingTaken
    <3> QED BY <1>2, <2>2, <3>3, <3>4
  <2>3. CASE b # Unset
    <3>1. PICK l \in Nat : l = Len(p)
      OBVIOUS
    <3>2. b + l <= Len(a) /\ p = SubSeq(a, b + 1, b + l) /\ off = b + l
      BY <2>1, <2>3, <3>1 DEF Track
    <3>3. UpToDate(a, b, SubSeq(a, b + 1, b + l) \o SubSeq(a, b + l + 1, Len(a)))
      BY <3>2, RestTaken
    <3>4. CASE n > off
      BY <1>2, <1>5, <2>3, <3>2, <3>3, <3>4
    <3>5. CASE ~(n > off)
      <4>1. v = <<>> /\ p \o v = p /\ b + l = n
        <5>1. p \o <<>> = p
          BY ConcatEmptySeq
        <5> QED BY <1>2, <1>5, <3>2, <3>5, <5>1
      <4>2. UpToDate(a, b, p)
        BY <1>2, <3>1, <3>2, <4>1 DEF UpToDate
      <4> QED BY <2>3, <4>1, <4>2
    <3> QED BY <3>4, <3>5
  <2> QED BY <2>2, <2>3
<1> QED BY <1>1, <1>2, <1>4, <1>5, <1>6, <1>7 DEF ReadKeeps

\* The server's steps.
LEMMA HandleKeeps == ASSUME CountedInv, HandleEvent PROVE CountedInv'
<1> USE DEF CountedInv
<1>1. PICK a \in Seq(TaggedMessage) : a = AllMessages /\ Len(a) <= MaxMessages /\ AllMessages' = a
  <2>1. AllMessages' = AllMessages
    BY DEF HandleEvent, AllMessages, CodexFile, GeminiFile, MessagesOf, Readable
  <2> QED BY <2>1, AllType
<1>2. CASE cli = "gemini" /\ torn
  BY <1>1, <1>2 DEF HandleEvent, CountedTypeOK
<1>3. CASE ~(cli = "gemini" /\ torn)
  <2>1. PICK new, next : new = Read.new /\ next = Read.next /\ ReadKeeps(new, next)
    <3> HIDE DEF CountedInv
    <3> QED BY ClaudeReads, OthersRead
  <2>2. /\ offset' = next /\ pushed' = pushed \o new /\ lost' = FALSE /\ pending' = FALSE
        /\ base' = IF base = Unset THEN Len(a) ELSE base
        /\ UNCHANGED <<cli, file, summary, torn, grown>>
    BY <1>1, <1>3, <2>1 DEF HandleEvent
  <2>3. new \in Seq(TaggedMessage) /\ next \in Nat /\ (cli = "claude" => next = BytesPerEntry * Len(file))
    BY <2>1 DEF ReadKeeps
  <2>4. PICK n \in Nat : n = Len(a)
    OBVIOUS
  <2>5. PICK b \in Nat : b = base'
    BY <1>1, <2>2, <2>4 DEF CountedTypeOK
  <2>6. PICK q \in Seq(TaggedMessage) : q = pushed'
    <3>1. pushed \in Seq(TaggedMessage)
      BY DEF CountedTypeOK
    <3>2. pushed \o new \in Seq(TaggedMessage)
      BY <2>3, <3>1, ConcatProperties
    <3> QED BY <2>2, <3>2
  <2>7. CountedTypeOK'
    <3>1. Len(file) \in Nat
      BY FileIs
    <3> QED BY <2>2, <2>3, <2>5, <2>6, <3>1 DEF CountedTypeOK
  <2>8. CASE grown
    <3>1. UpToDate(a, b, q) /\ (cli # "claude" => next = n)
      BY <1>1, <2>1, <2>2, <2>4, <2>5, <2>6, <2>8 DEF ReadKeeps
    <3>2. b # Unset
      BY <1>1, <2>2, <2>5, Numbers
    <3>3. b + Len(q) = n /\ q = SubSeq(a, b + 1, b + Len(q))
      BY <2>4, <3>1 DEF UpToDate
    <3>4. ASSUME cli = "claude"
          PROVE  \E k \in 0 .. Len(file) : next = BytesPerEntry * k /\ b + Len(q) = Len(Parsed(cli, file, 1, k))
      <4>0. Len(file) \in Nat
        BY FileIs
      <4>1. PICK m \in Nat : m = Len(file) /\ m \in 0 .. Len(file)
        BY <4>0
      <4>2. a = Parsed(cli, file, 1, m)
        BY <1>1, <3>4, <4>1 DEF AllMessages, MessagesOf, Parsed, Msgs
      <4> QED BY <2>3, <2>4, <3>3, <3>4, <4>1, <4>2
    <3>5. Track(cli, file, a, next, b, q)
      BY <2>4, <3>1, <3>2, <3>3, <3>4 DEF Track
    <3>6. Track(cli', file', AllMessages', offset', base', pushed')
      BY <1>1, <2>2, <2>5, <2>6, <3>5
    <3>7. base' + Len(pushed') = Len(AllMessages')
      BY <1>1, <2>4, <2>5, <2>6, <3>3
    <3> QED BY <2>7, <3>6, <3>7
  <2>9. CASE ~grown
    BY <2>2, <2>7, <2>9
  <2> QED BY <2>8, <2>9
<1> QED BY <1>2, <1>3

LEMMA RestartKeeps == ASSUME CountedInv, Restart PROVE CountedInv'
<1> USE DEF CountedInv
<1>1. PICK a \in Seq(TaggedMessage) : a = AllMessages /\ Len(a) <= MaxMessages /\ AllMessages' = a
  <2>1. AllMessages' = AllMessages
    BY DEF Restart, AllMessages, CodexFile, GeminiFile, MessagesOf, Readable
  <2> QED BY <2>1, AllType
<1>2. PICK n \in Nat : n = Len(file) /\ n > 0
  <2>1. Len(file) \in Nat /\ (file = <<>> <=> Len(file) = 0)
    BY FileIs
  <2>2. file # <<>>
    BY DEF Restart
  <2> QED BY <2>1, <2>2
<1>3. PICK x \in Nat : x = offset' /\ x = BytesPerEntry * n /\ x > MaxMessages
  <2>1. PICK B \in Nat : B = BytesPerEntry /\ B > MaxMessages /\ B > 0
    BY Numbers
  <2>2. B * n \in Nat /\ B * n >= B
    BY <1>2, <2>1, Multiples
  <2>3. B * n > MaxMessages
    BY <2>1, <2>2, Numbers
  <2> QED BY <1>2, <2>1, <2>2, <2>3 DEF Restart, Size
<1>4. PICK b \in Nat : b = base' /\ b = IF cli = "claude" THEN Len(a) ELSE Unset
  <2>1. Len(a) \in Nat /\ Unset \in Nat
    BY Numbers
  <2> QED BY <1>1, <2>1 DEF Restart
<1>5. CountedTypeOK'
  <2>1. <<>> \in Seq(TaggedMessage)
    OBVIOUS
  <2> QED BY <1>2, <1>3, <1>4, <2>1 DEF Restart, CountedTypeOK
<1>6. UpToDate(a, Len(a), <<>>)
  BY NothingTaken
<1>7. Len(a) # Unset
  BY <1>1, Numbers
<1>8. CASE cli = "claude"
  <2>1. a = Parsed(cli, file, 1, n)
    BY <1>1, <1>2, <1>8 DEF AllMessages, MessagesOf, Parsed, Msgs
  <2>2. n \in 0 .. Len(file)
    BY <1>2
  <2>3. b = Len(a) /\ b + Len(<<>>) = Len(a) /\ <<>> = SubSeq(a, b + 1, b + Len(<<>>))
    BY <1>4, <1>6, <1>8 DEF UpToDate
  <2>4. Track(cli, file, a, x, b, <<>>)
    BY <1>3, <1>7, <1>8, <2>1, <2>2, <2>3 DEF Track
  <2>5. Track(cli', file', AllMessages', offset', base', pushed')
    BY <1>1, <1>3, <1>4, <2>4 DEF Restart
  <2>6. base' + Len(pushed') = Len(AllMessages')
    BY <1>1, <1>4, <2>3 DEF Restart
  <2> QED BY <1>5, <2>5, <2>6
<1>9. CASE cli # "claude"
  <2>1. Track(cli, file, a, x, b, <<>>)
    BY <1>3, <1>4, <1>9 DEF Track
  <2>2. Track(cli', file', AllMessages', offset', base', pushed')
    BY <1>1, <1>3, <1>4, <2>1 DEF Restart
  <2>3. base' = Unset
    BY <1>4, <1>9
  <2> QED BY <1>5, <2>2, <2>3
<1> QED BY <1>8, <1>9

LEMMA CountedStart == CountedInit => CountedInv
<1> SUFFICES ASSUME CountedInit PROVE CountedInv
  OBVIOUS
<1>1. CountedTypeOK
  <2>1. file \in Seq(AnyKind) /\ Len(file) = 0 /\ pushed \in Seq(TaggedMessage)
    BY DEF CountedInit
  <2>2. offset = BytesPerEntry * 0 /\ 0 \in Nat
    BY Numbers DEF CountedInit
  <2>3. 0 <= MaxEntries
    BY CountedAssumption
  <2>4. \E k \in Nat : offset = BytesPerEntry * k
    BY <2>2
  <2>5. offset \in Nat /\ base \in Nat
    BY DEF CountedInit
  <2>6. Len(file) <= MaxEntries /\ \A i \in 1 .. Len(file) : file[i] \in EntryKinds[cli]
    BY <2>1, <2>3
  <2> QED BY <2>1, <2>4, <2>5, <2>6 DEF CountedInit, CountedTypeOK
<1>2. PICK a \in Seq(TaggedMessage) : a = AllMessages
  BY <1>1, AllType
<1>3. PICK n \in Nat : n = Len(a)
  OBVIOUS
<1>4. PICK q \in Seq(TaggedMessage) : q = SubSeq(a, 0 + 1, 0 + 0) /\ Len(q) = 0
  <2>1. Fits(a, 0, 0) /\ 0 \in Nat
    BY <1>3 DEF Fits
  <2>2. Part(a, 0, 0) \in Seq(TaggedMessage) /\ Len(Part(a, 0, 0)) = 0
    BY <2>1, PartOf
  <2> QED BY <2>2 DEF Part
<1>5. q = <<>>
  BY <1>4, EmptySeq
<1>6. Parsed(cli, file, 1, 0) = <<>>
  <2>1. 0 \in Int /\ 1 \in Nat /\ 0 < 1
    OBVIOUS
  <2> QED BY <2>1, ParsedNothing
<1>7. 0 # Unset
  BY Numbers
<1>8. offset = 0 /\ base = 0 /\ pushed = <<>> /\ Len(pushed) = 0 /\ Len(file) = 0 /\ pending = TRUE
  BY DEF CountedInit
<1>9. BytesPerEntry * 0 = 0
  BY Numbers
<1>10. Track(cli, file, a, 0, 0, <<>>)
  <2>1. 0 + Len(<<>>) <= Len(a) /\ 0 + Len(<<>>) = 0 /\ 0 \in 0 .. Len(file)
    BY <1>3, <1>8
  <2>2. <<>> = SubSeq(a, 0 + 1, 0 + Len(<<>>))
    BY <1>4, <1>5, <2>1
  <2>3. 0 + Len(<<>>) = Len(Parsed(cli, file, 1, 0))
    BY <1>6, <2>1
  <2> QED BY <1>7, <1>9, <2>1, <2>2, <2>3 DEF Track
<1> QED BY <1>1, <1>2, <1>8, <1>10 DEF CountedInv

\* The invariant holds in every state.
LEMMA CountedAlways == CountedSpec => []CountedInv
<1>1. ASSUME CountedInv, [CountedNext]_countedVars PROVE CountedInv'
  <2>1. CASE UNCHANGED countedVars
    <3>1. AllMessages' = AllMessages
      BY <2>1 DEF countedVars, AllMessages, CodexFile, GeminiFile, MessagesOf, Readable
    <3> QED BY <1>1, <2>1, <3>1 DEF countedVars, CountedInv, CountedTypeOK
  <2>2. ASSUME NEW kind, NEW whole \in BOOLEAN, WriteEntry(kind, whole) PROVE CountedInv'
    BY <1>1, <2>2, WriteEntryKeeps
  <2> QED BY <1>1, <2>1, <2>2, CompleteKeeps, SummariseKeeps, ExtendKeeps, RewindKeeps,
             HandleKeeps, LoseKeeps, RestartKeeps DEF CountedNext
<1> QED BY CountedStart, <1>1, PTL DEF CountedSpec

\* As long as a file only grows at its end, every message of it is pushed once
\* and in order, whichever way it is read and however events are lost, torn
\* writes seen and the server restarted (main.rs:1341-1443).
THEOREM MessagesPushedOnce == CountedSpec => []PushedOnceInOrder
<1>1. CountedInv => PushedOnceInOrder
  BY DEF CountedInv, Track, PushedOnceInOrder
<1> QED BY <1>1, CountedAlways, PTL

-----------------------------------------------------------------------------
(* What a message is shown as.                                             *)
\* The one block of a kind of its own decides; text alone does not.
LEMMA OneSpecial ==
    ASSUME NEW m, m.type # "system-reminder", NEW i, i \in DOMAIN m.blocks,
           m.blocks[i] \in {"tool_use", "tool_result", "thinking"},
           \A j \in DOMAIN m.blocks : m.blocks[j] \in {"tool_use", "tool_result", "thinking"} => j = i,
           i \in Nat
    PROVE  DominantType(m) = m.blocks[i]
<1> DEFINE special == {j \in DOMAIN m.blocks : m.blocks[j] \in {"tool_use", "tool_result", "thinking"}}
<1>1. special = {i}
  OBVIOUS
<1>2. (CHOOSE j \in special : \A k \in special : k <= j) = i
  <2>1. \E j \in special : \A k \in special : k <= j
    BY <1>1
  <2>2. (CHOOSE j \in special : \A k \in special : k <= j) \in special
    <3> HIDE DEF special
    <3> QED BY <2>1
  <2> QED BY <1>1, <2>2
<1>3. special # {}
  BY <1>1
<1> HIDE DEF special
<1> QED BY <1>2, <1>3 DEF DominantType, special

LEMMA NoSpecial ==
    ASSUME NEW type, NEW role
    PROVE  /\ DominantType(Text(type, role)) = IF type = "system-reminder" THEN "SystemReminder" ELSE "Text"
           /\ Text(type, role).type = type
<1>1. \A i \in DOMAIN <<"text">> : <<"text">>[i] = "text"
  OBVIOUS
<1> QED BY <1>1 DEF DominantType, Text, Msg

\* What the messages the parsers build are shown as.
LEMMA TextShown ==
    /\ Component(Text("user", "user")) = [role |-> "User", type |-> "Text"]
    /\ Component(Text("assistant", "assistant")) = [role |-> "Assistant", type |-> "Text"]
    /\ Component(Text("system", "system")) = [role |-> "System", type |-> "Text"]
    /\ Component(Text("system-reminder", "system")) = [role |-> "System", type |-> "SystemReminder"]
    /\ \A role : /\ Component(Text("progress", role)) = [role |-> "Meta", type |-> "Progress"]
                 /\ Component(Text("summary", role)) = [role |-> "Meta", type |-> "Summary"]
                 /\ Component(Text("compact_boundary", role)) = [role |-> "Meta", type |-> "CompactBoundary"]
                 /\ Component(Text("file-history-snapshot", role)) = [role |-> "Meta", type |-> "FileSnapshot"]
                 /\ Component(Text("unknown", role)) = [role |-> "Meta", type |-> "Text"]
                 /\ Component(Text("turn_duration", role)) = [role |-> "Meta", type |-> "Text"]
BY NoSpecial DEF Component

LEMMA BlocksShown ==
    \A stop :
        /\ Component(Msg("user", "user", <<"tool_result">>, stop)) = [role |-> "User", type |-> "tool_result"]
        /\ Component(Msg("assistant", "assistant", <<"thinking">>, stop)) = [role |-> "Assistant", type |-> "thinking"]
        /\ Component(Msg("assistant", "assistant", <<"thinking", "text">>, stop)) = [role |-> "Assistant", type |-> "thinking"]
        /\ Component(Msg("assistant", "assistant", <<"text">>, stop)) = [role |-> "Assistant", type |-> "Text"]
        /\ Component(Msg("assistant", "assistant", <<"text", "tool_use">>, stop)) = [role |-> "Assistant", type |-> "tool_use"]
<1> TAKE stop
<1>1. /\ DOMAIN <<"tool_result">> = {1} /\ <<"tool_result">>[1] = "tool_result"
      /\ DOMAIN <<"thinking">> = {1} /\ <<"thinking">>[1] = "thinking"
      /\ DOMAIN <<"text">> = {1} /\ <<"text">>[1] = "text"
  OBVIOUS
<1>2. /\ DOMAIN <<"thinking", "text">> = {1, 2} /\ <<"thinking", "text">>[1] = "thinking" /\ <<"thinking", "text">>[2] = "text"
      /\ DOMAIN <<"text", "tool_use">> = {1, 2} /\ <<"text", "tool_use">>[1] = "text" /\ <<"text", "tool_use">>[2] = "tool_use"
  OBVIOUS
<1>3. ASSUME NEW m, m.type \in {"user", "assistant"}, m.blocks = <<"tool_result">> PROVE DominantType(m) = "tool_result"
  BY <1>1, <1>3, OneSpecial
<1>4. ASSUME NEW m, m.type \in {"user", "assistant"}, m.blocks = <<"thinking">> PROVE DominantType(m) = "thinking"
  BY <1>1, <1>4, OneSpecial
<1>5. ASSUME NEW m, m.type \in {"user", "assistant"}, m.blocks = <<"thinking", "text">> PROVE DominantType(m) = "thinking"
  BY <1>2, <1>5, OneSpecial
<1>6. ASSUME NEW m, m.type \in {"user", "assistant"}, m.blocks = <<"text", "tool_use">> PROVE DominantType(m) = "tool_use"
  BY <1>2, <1>6, OneSpecial
<1>7. ASSUME NEW m, m.type \in {"user", "assistant"}, m.blocks = <<"text">> PROVE DominantType(m) = "Text"
  BY <1>1, <1>7 DEF DominantType
<1> QED BY <1>3, <1>4, <1>5, <1>6, <1>7 DEF Component, Msg

LooksAs(m, kind) ==
    \/ Component(m) = Means(kind)
    \/ Means(kind).type = "any" /\ Component(m).role = "Meta"
    \/ Component(m) \in ShownAsWords(kind)
    \/ kind = "thinking_answer" /\ Component(m) \in {Means("thinking"), Means("final_answer")}

AllLookAs(s, kind) == \A p \in 1 .. Len(s) : LooksAs(s[p], kind)

LEMMA OneLooks == ASSUME NEW m, NEW kind, LooksAs(m, kind) PROVE AllLookAs(<<m>>, kind)
BY DEF AllLookAs

LEMMA NoneLooks == ASSUME NEW kind PROVE AllLookAs(<<>>, kind)
BY DEF AllLookAs

\* Each format, kind by kind.
LEMMA ClaudeLooks == ASSUME NEW k \in EntryKinds["claude"] PROVE AllLookAs(ClaudeMessages(k), k)
<1>1. CASE k \in {"user", "user_meta", "tool_result", "compact_summary", "user_new_block"}
  <2>1. CASE k = "user"
    <3>1. LooksAs(Text("user", "user"), k)
      BY <2>1, TextShown DEF LooksAs, Means
    <3> QED BY <2>1, <3>1, OneLooks DEF ClaudeMessages, UserLine
  <2>2. CASE k = "tool_result"
    <3>1. LooksAs(Msg("user", "user", <<"tool_result">>, FALSE), k)
      BY <2>2, BlocksShown DEF LooksAs, Means
    <3> QED BY <2>2, <3>1, OneLooks DEF ClaudeMessages, UserLine
  <2>3. CASE k = "compact_summary"
    <3>1. LooksAs(Text("summary", "user"), k)
      BY <2>3, TextShown DEF LooksAs, Means
    <3> QED BY <2>3, <3>1, OneLooks DEF ClaudeMessages, UserLine
  <2>4. CASE k = "user_new_block"
    BY <2>4, NoneLooks DEF ClaudeMessages, UserLine
  <2>5. CASE k = "user_meta"
    <3>1. LooksAs(Text("user", "user"), k)
      BY <2>5, TextShown DEF LooksAs, Means, ShownAsWords
    <3> QED BY <2>5, <3>1, OneLooks DEF ClaudeMessages, UserLine
  <2> QED BY <1>1, <2>1, <2>2, <2>3, <2>4, <2>5
<1>2. CASE k \in {"answer", "final_answer", "tool_call"}
  <2>1. LooksAs(AssistantLine(k), k)
    BY <1>2, BlocksShown DEF LooksAs, Means, AssistantLine
  <2> QED BY <1>2, <2>1, OneLooks DEF ClaudeMessages
<1>3. CASE k \in {"compact_boundary", "reminder", "system", "system_other"}
  <2>1. LooksAs(SystemLine(k), k)
    BY <1>3, TextShown DEF LooksAs, Means, SystemLine
  <2> QED BY <1>3, <2>1, OneLooks DEF ClaudeMessages
<1>4. CASE k \in {"progress", "summary", "snapshot"}
  <2>1. LooksAs(MetaLine(k), k)
    BY <1>4, TextShown DEF LooksAs, Means, MetaLine
  <2> QED BY <1>4, <2>1, OneLooks DEF ClaudeMessages
<1>5. CASE k = "unknown"
  <2>1. LooksAs(Text("unknown", "none"), k)
    BY <1>5, TextShown DEF LooksAs, Means
  <2> QED BY <1>5, <2>1, OneLooks DEF ClaudeMessages
<1> QED BY <1>1, <1>2, <1>3, <1>4, <1>5 DEF EntryKinds

LEMMA CodexLooks == ASSUME NEW k \in EntryKinds["codex"] PROVE AllLookAs(CodexMessages(k), k)
<1>1. CASE k \in {"session_meta", "turn_context"}
  <2>1. LooksAs(CodexMeta, k)
    BY <1>1, TextShown DEF LooksAs, Means, CodexMeta
  <2> QED BY <1>1, <2>1, OneLooks DEF CodexMessages
<1>2. CASE k = "summary"
  <2>1. LooksAs(CodexCompacted, k)
    BY <1>2, TextShown DEF LooksAs, Means, CodexCompacted
  <2> QED BY <1>2, <2>1, OneLooks DEF CodexMessages
<1>3. CASE k = "unknown"
  <2>1. LooksAs(Text("unknown", "none"), k)
    BY <1>3, TextShown DEF LooksAs, Means
  <2> QED BY <1>3, <2>1, OneLooks DEF CodexMessages
<1>4. CASE k = "item_user"
  <2>1. LooksAs(Text("user", "user"), k)
    BY <1>4, TextShown DEF LooksAs, Means
  <2> QED BY <1>4, <2>1, OneLooks DEF CodexMessages, CodexResponseItem
<1>5. CASE k = "item_assistant"
  <2>1. LooksAs(Text("assistant", "assistant"), k)
    BY <1>5, TextShown DEF LooksAs, Means
  <2> QED BY <1>5, <2>1, OneLooks DEF CodexMessages, CodexResponseItem
<1>6. CASE k = "tool_call"
  BY <1>6, NoneLooks DEF CodexMessages, CodexResponseItem
<1>7. CASE k \in {"user", "final_answer", "thinking", "compact_boundary", "token_count"}
  <2>1. LooksAs(CodexEventMessage(k), k)
    <3>1. CASE k = "thinking"
      BY <3>1, BlocksShown DEF LooksAs, Means, CodexEventMessage
    <3>2. CASE k = "user"
      BY <3>2, TextShown DEF LooksAs, Means, CodexEventMessage
    <3>3. CASE k = "final_answer"
      BY <3>3, TextShown DEF LooksAs, Means, CodexEventMessage
    <3>4. CASE k = "compact_boundary"
      BY <3>4, TextShown DEF LooksAs, Means, CodexEventMessage
    <3>5. CASE k = "token_count"
      BY <3>5, TextShown DEF LooksAs, Means, CodexEventMessage
    <3> QED BY <1>7, <3>1, <3>2, <3>3, <3>4, <3>5
  <2> QED BY <1>7, <2>1, OneLooks DEF CodexMessages
<1>8. CASE k = "item_other"
  <2>1. LooksAs(Text("assistant", "assistant"), k)
    BY <1>8, TextShown DEF LooksAs, Means, ShownAsWords
  <2> QED BY <1>8, <2>1, OneLooks DEF CodexMessages, CodexResponseItem
<1> QED BY <1>1, <1>2, <1>3, <1>4, <1>5, <1>6, <1>7, <1>8 DEF EntryKinds

LEMMA GeminiLooks == ASSUME NEW k \in EntryKinds["gemini"] PROVE AllLookAs(GeminiMessages(k), k)
<1>1. CASE k = "user"
  <2>1. LooksAs(Text("user", "user"), k)
    BY <1>1, TextShown DEF LooksAs, Means
  <2> QED BY <1>1, <2>1, OneLooks DEF GeminiMessages
<1>2. CASE k = "unknown"
  <2>1. LooksAs(Text("progress", "none"), k)
    BY <1>2, TextShown DEF LooksAs, Means
  <2> QED BY <1>2, <2>1, OneLooks DEF GeminiMessages
<1>3. CASE k \in {"system", "error"}
  <2>1. LooksAs(GeminiNotice(k), k)
    BY <1>3, TextShown DEF LooksAs, Means, GeminiNotice
  <2> QED BY <1>3, <2>1, OneLooks DEF GeminiMessages
<1>4. PICK a, b, d \in Message :
        /\ a = Msg("assistant", "assistant", <<"thinking">>, FALSE)
        /\ b = Msg("assistant", "assistant", <<"text">>, TRUE)
        /\ d = Msg("assistant", "assistant", <<"text", "tool_use">>, TRUE)
  <2>1. Msg("assistant", "assistant", <<"thinking">>, FALSE) \in Message
    BY DEF Msg, Message, Blocks
  <2>2. Msg("assistant", "assistant", <<"text">>, TRUE) \in Message
    BY DEF Msg, Message, Blocks
  <2>3. Msg("assistant", "assistant", <<"text", "tool_use">>, TRUE) \in Message
    BY DEF Msg, Message, Blocks
  <2> QED BY <2>1, <2>2, <2>3
<1>5. \A m \in Message : <<m>> \o <<>> = <<m>> /\ <<>> \o <<m>> = <<m>> /\ <<>> \o <<>> = <<>>
  OBVIOUS
<1>6. CASE k = "thinking"
  <2>1. LooksAs(a, k)
    BY <1>4, <1>6, BlocksShown DEF LooksAs, Means
  <2>2. GeminiMessages(k) = <<a>> \o <<>>
    BY <1>4, <1>6 DEF GeminiMessages, GeminiAssistant, GeminiThoughts
  <2> QED BY <1>5, <2>1, <2>2, OneLooks
<1>7. CASE k = "thinking_answer"
  <2>1. LooksAs(a, k) /\ LooksAs(b, k)
    BY <1>4, <1>7, BlocksShown DEF LooksAs, Means
  <2>2. GeminiMessages(k) = <<a>> \o <<b>>
    BY <1>4, <1>7 DEF GeminiMessages, GeminiAssistant, GeminiThoughts
  <2>3. GeminiMessages(k) = <<a, b>>
    BY <2>2, TwoAreTwo
  <2> QED BY <2>1, <2>3 DEF AllLookAs
<1>8. CASE k = "final_answer"
  <2>1. LooksAs(b, k)
    BY <1>4, <1>8, BlocksShown DEF LooksAs, Means
  <2>2. GeminiMessages(k) = <<>> \o <<b>>
    BY <1>4, <1>8 DEF GeminiMessages, GeminiAssistant, GeminiThoughts
  <2> QED BY <1>5, <2>1, <2>2, OneLooks
<1>9. CASE k = "tool_call"
  <2>1. LooksAs(d, k)
    BY <1>4, <1>9, BlocksShown DEF LooksAs, Means
  <2>2. GeminiMessages(k) = <<>> \o <<d>>
    BY <1>4, <1>9 DEF GeminiMessages, GeminiAssistant, GeminiThoughts
  <2> QED BY <1>5, <2>1, <2>2, OneLooks
<1>10. CASE k = "empty"
  <2>1. GeminiMessages(k) = <<>> \o <<>>
    BY <1>10 DEF GeminiMessages, GeminiAssistant, GeminiThoughts
  <2> QED BY <1>4, <1>5, <2>1, NoneLooks
<1> QED BY <1>1, <1>2, <1>3, <1>6, <1>7, <1>8, <1>9, <1>10 DEF EntryKinds

LEMMA KindsLookAlike ==
    ASSUME NEW c \in Agents, NEW k \in EntryKinds[c], NEW p \in 1 .. Len(Converted(c, k))
    PROVE  LooksAs(Converted(c, k)[p], k)
BY ClaudeLooks, CodexLooks, GeminiLooks DEF Agents, Converted, AllLookAs

\* Whoever wrote an entry, what is pushed for it is shown as what the entry
\* means, and an internal entry as nothing anyone said, but for the two kinds
\* that the parsers take for words (parser/mod.rs:15-138 over the three parsers).
THEOREM AgentsSpeakAlike == CountedSpec => []AgentsLookAlike
<1>1. CountedInv => AgentsLookAlike
  <2> SUFFICES ASSUME CountedInv, NEW i \in DOMAIN pushed, pushed[i].entry \in DOMAIN file, grown
               PROVE  LooksAs(pushed[i].msg, file[pushed[i].entry])
    BY DEF AgentsLookAlike, LooksAs
  <2> USE DEF CountedInv
  <2>1. PICK c \in Agents : c = cli
    BY CliType
  <2>2. PICK n \in Nat : n = Len(file) /\ DOMAIN file = 1 .. n
    <3>1. Len(file) \in Nat /\ DOMAIN file = 1 .. Len(file)
      BY FileIs
    <3> QED BY <3>1
  <2>3. PICK a \in Seq(TaggedMessage) :
          /\ a = AllMessages
          /\ \A j \in 1 .. Len(a) : From(a[j], c, file, n) \/ a[j].entry \in {0, n + 1}
    BY <2>1, <2>2, AllType
  <2>4. PICK b \in Nat, p \in Seq(TaggedMessage) : b = base /\ p = pushed
    BY DEF CountedTypeOK
  <2>5. PICK l \in Nat : l = Len(p) /\ i \in 1 .. l
    BY <2>4
  <2>6. b # Unset /\ b + l <= Len(a) /\ p = SubSeq(a, b + 1, b + l)
    <3>1. Track(cli, file, a, offset, b, p)
      BY <2>3, <2>4
    <3>2. b # Unset
      BY <2>5, <3>1 DEF Track
    <3> QED BY <2>5, <3>1, <3>2 DEF Track
  <2>7. p[i] = a[b + i]
    <3>1. Fits(a, b, l)
      BY <2>6 DEF Fits
    <3>2. \A j \in 1 .. l : Part(a, b, l)[j] = a[b + j]
      BY <3>1, PartOf
    <3> QED BY <2>5, <2>6, <3>2 DEF Part
  <2>8. b + i \in 1 .. Len(a)
    <3>1. PICK m \in Nat : m = Len(a)
      OBVIOUS
    <3>2. b + l <= m
      BY <2>6, <3>1
    <3> HIDE DEF CountedInv
    <3>3. b + i \in 1 .. m
      BY <2>5, <3>2
    <3> QED BY <3>1, <3>3
  <2>9. p[i].entry \in 1 .. n
    BY <2>2, <2>4
  <2>10. From(p[i], c, file, n)
    <3>1. ~(p[i].entry \in {0, n + 1})
      BY <2>9
    <3> QED BY <2>3, <2>7, <2>8, <3>1
  <2>11. PICK k \in EntryKinds[c] : k = file[p[i].entry]
    BY <2>1, <2>2, <2>9 DEF CountedTypeOK
  <2>12. PICK q \in 1 .. Len(Converted(c, k)) : p[i].msg = Converted(c, k)[q]
    BY <2>10, <2>11 DEF From
  <2>13. LooksAs(Converted(c, k)[q], k)
    BY KindsLookAlike
  <2> QED BY <2>4, <2>11, <2>12, <2>13
<1> QED BY <1>1, CountedAlways, PTL

-----------------------------------------------------------------------------
(* The mark for unsaved changes.  It is set in three places that do not    *)
(* know of each other: a content that comes in, the user who types, a save *)
(* that succeeds.  The last clears it by what the save began with, so IInv *)
(* follows the document while a save is under way.                         *)

(* While a save is under way the document is what is being saved or what   *)
(* was shown meanwhile, unless the user typed over it.                     *)
SaveIsCurrent ==
    saving # None /\ ~typedOver => doc = saving.text \/ doc = TextOf(shown)

TextsAreTexts == doc # None /\ (saving # None => saving.text # None)

MarksAreBoolean == dirty \in BOOLEAN /\ typedOver \in BOOLEAN

IInv == DirtyMarkIsTrue /\ SaveIsCurrent /\ TextsAreTexts /\ MarksAreBoolean

-----------------------------------------------------------------------------
LEMMA SomeText == NoContent # None /\ Typed # None /\ \A content : TextOf(content) # None
BY FilesAssumption DEF FilesAssumption, NoContent, Typed, Content, Contents, AllSizes, TextOf

LEMMA InitIInv == FilesInit => IInv
BY SomeText DEF FilesInit, IInv, DirtyMarkIsTrue, SaveIsCurrent, TextsAreTexts, MarksAreBoolean, TextOf

(* A step that leaves the editor alone.                                    *)
LEMMA EditorStays ==
    ASSUME IInv, UNCHANGED <<shown, doc, lastSaved, dirty, saving, typedOver>>
    PROVE  IInv'
BY DEF IInv, DirtyMarkIsTrue, SaveIsCurrent, TextsAreTexts, MarksAreBoolean

(* A content from outside is shown as it is, and clean.                    *)
LEMMA ContentComes ==
    ASSUME IInv, NEW content, SetFileContent(content), UNCHANGED <<saving, typedOver>>
    PROVE  IInv'
<1>1. CASE content = shown
  BY <1>1, EditorStays DEF SetFileContent
<1>2. CASE content # shown
  <2>1. shown' = content /\ doc' = TextOf(content) /\ lastSaved' = TextOf(content) /\ dirty' = FALSE
    BY <1>2 DEF SetFileContent, ShowAnew
  <2>2. DirtyMarkIsTrue'
    BY <2>1 DEF DirtyMarkIsTrue
  <2>3. SaveIsCurrent' /\ TextsAreTexts' /\ MarksAreBoolean'
    BY <2>1, SomeText DEF IInv, SaveIsCurrent, TextsAreTexts, MarksAreBoolean
  <2> QED BY <2>2, <2>3 DEF IInv
<1> QED BY <1>1, <1>2

LEMMA TypeStep ==
    ASSUME IInv, Type
    PROVE  IInv'
<1>1. /\ doc' = Typed /\ dirty' = (Typed # lastSaved)
      /\ typedOver' = (typedOver \/ saving # None)
      /\ UNCHANGED <<shown, lastSaved, saving>>
  BY DEF Type
<1>2. DirtyMarkIsTrue'
  <2>1. TextOf(shown)' = TextOf(shown)
    BY <1>1 DEF TextOf
  <2>2. (lastSaved = TextOf(shown))'
    BY <1>1, <2>1 DEF IInv, DirtyMarkIsTrue
  <2> QED BY <1>1, <2>2 DEF DirtyMarkIsTrue
<1>3. SaveIsCurrent' /\ TextsAreTexts' /\ MarksAreBoolean'
  BY <1>1, SomeText DEF IInv, SaveIsCurrent, TextsAreTexts, MarksAreBoolean
<1> QED BY <1>2, <1>3 DEF IInv

LEMMA SelectFileStep ==
    ASSUME IInv, NEW f \in Files, SelectFile(f)
    PROVE  IInv'
<1>1. /\ doc' = TextOf(shown) /\ lastSaved' = TextOf(shown) /\ dirty' = FALSE /\ typedOver' = FALSE
      /\ UNCHANGED <<shown, saving>>
  BY DEF SelectFile
<1> QED BY <1>1, SomeText DEF IInv, DirtyMarkIsTrue, SaveIsCurrent, TextsAreTexts, MarksAreBoolean

LEMMA SavingSteps ==
    ASSUME IInv, Save \/ SaveSessionFile \/ SaveSucceeded \/ SaveFailed
    PROVE  IInv'
<1>1. CASE Save
  <2>1. saving'.text = doc /\ UNCHANGED <<shown, doc, lastSaved, dirty, typedOver>>
    BY <1>1 DEF Save
  <2> QED BY <2>1 DEF IInv, DirtyMarkIsTrue, SaveIsCurrent, TextsAreTexts, MarksAreBoolean
<1>2. CASE SaveSessionFile
  <2>1. saving # None /\ UNCHANGED <<shown, doc, lastSaved, dirty, typedOver>>
    BY <1>2 DEF SaveSessionFile
  <2>2. saving' = [saving EXCEPT !.done = TRUE]
    BY <1>2 DEF SaveSessionFile
  <2>3. saving'.text = saving.text
    BY <2>2
  <2> QED BY <2>1, <2>3 DEF IInv, DirtyMarkIsTrue, SaveIsCurrent, TextsAreTexts, MarksAreBoolean
<1>3. CASE SaveSucceeded
  <2>1. /\ saving # None /\ saving' = None
        /\ shown' = saving.text /\ lastSaved' = saving.text /\ dirty' = FALSE
        /\ doc' = IF saving.text = shown THEN doc ELSE saving.text
        /\ UNCHANGED typedOver
    BY <1>3 DEF SaveSucceeded
  <2>2. saving.text # None /\ TextOf(saving.text) = saving.text
    BY <2>1 DEF IInv, TextsAreTexts, TextOf
  <2>3. ~typedOver => doc' = saving.text
    BY <2>1, <2>2 DEF IInv, SaveIsCurrent
  <2> QED BY <2>1, <2>2, <2>3 DEF IInv, DirtyMarkIsTrue, SaveIsCurrent, TextsAreTexts, MarksAreBoolean
<1>4. CASE SaveFailed
  BY <1>4 DEF SaveFailed, IInv, DirtyMarkIsTrue, SaveIsCurrent, TextsAreTexts, MarksAreBoolean
<1> QED BY <1>1, <1>2, <1>3, <1>4

LEMMA NextIInv == IInv /\ [FilesNext]_filesVars => IInv'
<1> SUFFICES ASSUME IInv, [FilesNext]_filesVars PROVE IInv'
  OBVIOUS
<1>1. ASSUME NEW f \in Files, AgentWrites(f) \/ AgentDeletes(f) \/ Cool(f)
      PROVE  IInv'
  BY <1>1, EditorStays DEF AgentWrites, AgentDeletes, Cool, editorVars
<1>2. CASE WatcherLoop
  BY <1>2, EditorStays DEF WatcherLoop, TakeEvent, Measure, ReadContent, PublishChange, editorVars
<1>3. CASE DropPayload \/ Frame \/ TreePolling
  BY <1>3, EditorStays DEF DropPayload, Frame, TreePolling, FetchTree, ListDirectory, TreeAnswered,
                           editorVars
<1>4. CASE Deliver
  <2>1. UNCHANGED <<saving, typedOver>>
    BY <1>4 DEF Deliver
  <2>2. \/ SetFileContent(Head(wire).content)
        \/ UNCHANGED <<shown, doc, lastSaved, dirty>>
    BY <1>4 DEF Deliver
  <2> QED BY <2>1, <2>2, ContentComes, EditorStays
<1>5. ASSUME NEW f \in Files, SelectFile(f)
      PROVE  IInv'
  BY <1>5, SelectFileStep
<1>6. ASSUME NEW g \in gets, GetSessionFile(g) \/ GetAnswered(g)
      PROVE  IInv'
  BY <1>6, ContentComes, EditorStays DEF GetSessionFile, GetAnswered
<1>7. CASE Type \/ Save \/ SaveSessionFile \/ SaveSucceeded \/ SaveFailed
  BY <1>7, TypeStep, SavingSteps
<1>8. CASE UNCHANGED filesVars
  BY <1>8, EditorStays DEF filesVars, editorVars
<1> QED BY <1>1, <1>2, <1>3, <1>4, <1>5, <1>6, <1>7, <1>8 DEF FilesNext, ServerNext, EditorNext

(* The mark for unsaved changes is true of the document in whatever order  *)
(* pushes, answers, typing, saves and selections come, as long as nobody   *)
(* types while a save is under way (EditorPanel.tsx:106-189).              *)
THEOREM DirtyMarkCorrect == FilesSpec => []DirtyMarkIsTrue
<1>1. IInv => DirtyMarkIsTrue
  BY DEF IInv
<1> QED BY <1>1, InitIInv, NextIInv, PTL DEF FilesSpec

-----------------------------------------------------------------------------
(***************************************************************************)
(* LastChangeArrives looks at a file once nothing of it is under way.  The *)
(* invariant says where the last change of a file is until then: in the    *)
(* watcher's channel, in the loop's hands, on the wire with the row        *)
(* already right, or through.  It takes the order of the channel, for an   *)
(* older event that came later would overwrite the row, and what the loop  *)
(* has read for the last change is still true of the disk, since a further *)
(* change would be the last one.                                           *)
(***************************************************************************)
EventPayloads == [file : Files, kind : {"created", "modified", "deleted"}, content : Contents, change : Nat]
Gets == [file : Files, answered : BOOLEAN, answer : Contents \cup {None}]
Saves == [file : Files, text : Contents, done : BOOLEAN]

FilesTypeOK ==
    /\ disk \in [Files -> Contents \cup {None}] /\ rows \in [Files -> AllSizes \cup {None}]
    /\ latest \in [Files -> Nat] /\ changes \in Nat
    /\ events \in Seq(FileEvents) /\ handling \in Handlings \cup {None} /\ wire \in Seq(EventPayloads)
    /\ selected \in Files \cup {None} /\ doc \in Contents /\ shown \in Contents \cup {None}
    /\ saving \in Saves \cup {None} /\ gets \in SUBSET Gets

(* What is under way.                                                      *)
Elements(s) == {s[i] : i \in DOMAIN s}
Waiting == Elements(events)
OnWire == Elements(wire)
Handled == IF handling = None THEN {} ELSE {handling.event}

SizeOf(content) == IF content = None THEN None ELSE content.size
Carried(content) == IF content = None \/ content.size = "large" THEN NoContent ELSE content

(* Numbers grow along the way of a file's changes.                         *)
Rising(s) == \A i, j \in DOMAIN s : i < j /\ s[i].file = s[j].file => s[i].change < s[j].change
InOrder ==
    /\ \A f \in Files : latest[f] <= changes
    /\ \A e \in Waiting \cup Handled \cup OnWire : e.change <= latest[e.file]
    /\ Rising(events)
    /\ \A h \in Handled, e \in Waiting : h.file = e.file => h.change < e.change

(* What is under way for the last change of a file is true of the disk.    *)
Latest(e) == e.change = latest[e.file]
KindIsTrue ==
    \A e \in Waiting \cup Handled \cup OnWire :
        Latest(e) => (e.kind = "deleted" <=> disk[e.file] = None)
ReadIsTrue(now) ==
    /\ handling.at = "measure" => handling.size = None /\ handling.content = NoContent
    /\ handling.at = "read" => /\ handling.size = SizeOf(now) /\ SizeOf(now) # "large"
                               /\ handling.content = NoContent
    /\ handling.at = "publish" => handling.size = SizeOf(now) /\ handling.content \in {NoContent, Carried(now)}
HandledIsTrue ==
    handling # None /\ Latest(handling.event) => ReadIsTrue(disk[handling.event.file])
WireIsTrue == \A p \in OnWire : Latest(p) => p.content \in {NoContent, Carried(disk[p.file])}

(* The selected file's content was shown, could not be got, or is being    *)
(* asked for.                                                              *)
Arrived(f) ==
    f = selected /\ disk[f] # None =>
        \/ disk[f] \in seen \/ latest[f] \in missed
        \/ \E g \in gets : g.file = f /\ (g.answered => g.answer = disk[f])

Through(f) ==
    /\ rows[f] = SizeOf(disk[f])
    /\ \A e \in Waiting \cup Handled : e.file # f
    /\ (\E p \in OnWire : p.file = f /\ Latest(p)) \/ Arrived(f)

(* Where the last change of a file is.                                     *)
Placed(f) ==
    \/ latest[f] \in swallowed
    \/ \E e \in Waiting \cup Handled : e.file = f /\ Latest(e)
    \/ Through(f)

ArrivalInv ==
    /\ FilesTypeOK /\ InOrder /\ KindIsTrue /\ HandledIsTrue /\ WireIsTrue
    /\ \A f \in Files \ Unwatched : Placed(f)

LEMMA ElementsOfAppend ==
    ASSUME NEW D, NEW s \in Seq(D), NEW x \in D
    PROVE  Elements(Append(s, x)) = Elements(s) \cup {x}
<1>1. /\ DOMAIN s = 1 .. Len(s) /\ Len(s) \in Nat
      /\ DOMAIN Append(s, x) = 1 .. Len(s) + 1 /\ Append(s, x)[Len(s) + 1] = x
      /\ \A i \in 1 .. Len(s) : Append(s, x)[i] = s[i]
  BY AppendProperties
<1>2. \A i \in 1 .. Len(s) + 1 : i \in 1 .. Len(s) \/ i = Len(s) + 1
  BY <1>1
<1>3. Len(s) + 1 \in DOMAIN Append(s, x) /\ \A i \in 1 .. Len(s) : i \in DOMAIN Append(s, x)
  BY <1>1
<1> QED BY <1>1, <1>2, <1>3 DEF Elements

LEMMA ElementsOfTail ==
    ASSUME NEW D, NEW s \in Seq(D), s # <<>>
    PROVE  /\ Head(s) \in D /\ Tail(s) \in Seq(D)
           /\ Elements(s) = Elements(Tail(s)) \cup {Head(s)}
<1>1. Len(s) \in Nat \ {0} /\ Head(s) = s[1] /\ DOMAIN s = 1 .. Len(s)
  BY EmptySeq
<1>2. /\ Head(s) \in D /\ Tail(s) \in Seq(D) /\ Len(Tail(s)) = Len(s) - 1
      /\ \A i \in 1 .. Len(Tail(s)) : Tail(s)[i] = s[i + 1]
  BY HeadTailProperties
<1>3. DOMAIN Tail(s) = 1 .. Len(s) - 1
  BY <1>2
<1>4. ASSUME NEW i \in DOMAIN s PROVE s[i] \in Elements(Tail(s)) \cup {Head(s)}
  <2>1. CASE i = 1
    BY <2>1, <1>1
  <2>2. CASE i # 1
    <3>1. i - 1 \in DOMAIN Tail(s) /\ Tail(s)[i - 1] = s[i]
      BY <2>2, <1>1, <1>2, <1>3
    <3> QED BY <3>1 DEF Elements
  <2> QED BY <2>1, <2>2
<1>5. ASSUME NEW i \in DOMAIN Tail(s) PROVE Tail(s)[i] \in Elements(s)
  BY <1>1, <1>2, <1>3 DEF Elements
<1>6. Head(s) \in Elements(s)
  BY <1>1 DEF Elements
<1> QED BY <1>2, <1>4, <1>5, <1>6 DEF Elements

LEMMA ElementsAreTyped ==
    ASSUME NEW D, NEW s \in Seq(D)
    PROVE  Elements(s) \subseteq D
BY DEF Elements

(* The order of the channel, as it is taken from and put into.             *)
LEMMA RisingTail ==
    ASSUME NEW s \in Seq(FileEvents), s # <<>>, Rising(s)
    PROVE  /\ Rising(Tail(s))
           /\ \A e \in Elements(Tail(s)) : e.file = Head(s).file => Head(s).change < e.change
<1>1. Len(s) \in Nat \ {0} /\ Head(s) = s[1] /\ DOMAIN s = 1 .. Len(s)
  BY EmptySeq
<1>2. /\ Tail(s) \in Seq(FileEvents) /\ Len(Tail(s)) = Len(s) - 1
      /\ \A i \in 1 .. Len(Tail(s)) : Tail(s)[i] = s[i + 1]
  BY HeadTailProperties
<1>3. DOMAIN Tail(s) = 1 .. Len(s) - 1
  BY <1>2
<1>4. \A i \in DOMAIN Tail(s) : i + 1 \in DOMAIN s /\ 1 < i + 1 /\ Tail(s)[i] = s[i + 1]
  BY <1>1, <1>2, <1>3
<1>5. 1 \in DOMAIN s /\ \A i, j \in DOMAIN Tail(s) : i < j => i + 1 < j + 1
  BY <1>1, <1>3
<1>6. Rising(Tail(s))
  BY <1>4, <1>5 DEF Rising
<1>7. ASSUME NEW i \in DOMAIN Tail(s), Tail(s)[i].file = Head(s).file
      PROVE  Head(s).change < Tail(s)[i].change
  BY <1>1, <1>4, <1>5, <1>7 DEF Rising
<1> QED BY <1>6, <1>7 DEF Elements

LEMMA RisingAppend ==
    ASSUME NEW s \in Seq(FileEvents), NEW x \in FileEvents, Rising(s),
           \A e \in Elements(s) : e.file = x.file => e.change < x.change
    PROVE  Rising(Append(s, x))
<1>1. /\ DOMAIN s = 1 .. Len(s) /\ Len(s) \in Nat
      /\ DOMAIN Append(s, x) = 1 .. Len(s) + 1 /\ Append(s, x)[Len(s) + 1] = x
      /\ \A i \in 1 .. Len(s) : Append(s, x)[i] = s[i]
  BY AppendProperties
<1> DEFINE u == Append(s, x)
<1>2. /\ DOMAIN u = 1 .. Len(s) + 1 /\ u[Len(s) + 1] = x
      /\ \A i \in 1 .. Len(s) : u[i] = s[i]
  BY <1>1
<1> HIDE DEF u
<1>3. ASSUME NEW i \in DOMAIN u, NEW j \in DOMAIN u, i < j, u[i].file = u[j].file
      PROVE  u[i].change < u[j].change
  <2>1. i \in 1 .. Len(s) /\ u[i] = s[i] /\ s[i] \in Elements(s)
    BY <1>1, <1>2, <1>3 DEF Elements
  <2>2. CASE j \in 1 .. Len(s)
    BY <1>1, <1>2, <1>3, <2>1, <2>2 DEF Rising
  <2>3. CASE j = Len(s) + 1
    BY <1>2, <1>3, <2>1, <2>3
  <2>4. j \in 1 .. Len(s) \/ j = Len(s) + 1
    BY <1>1, <1>2
  <2> QED BY <2>2, <2>3, <2>4
<1> QED BY <1>3 DEF Rising, u

-----------------------------------------------------------------------------
(* Types.                                                                  *)
LEMMA ContentIsTyped ==
    /\ NoContent \in Contents /\ Typed \in Contents
    /\ \A n \in Nat, size \in AllSizes : Content(n, size) \in Contents
BY DEF NoContent, Typed, Content, Contents, AllSizes

LEMMA PutTypes ==
    ASSUME FilesTypeOK, NEW f \in Files, NEW content \in Contents \cup {None},
           NEW kind \in {"created", "modified", "deleted"}, Put(f, content, kind)
    PROVE  /\ disk' \in [Files -> Contents \cup {None}] /\ latest' \in [Files -> Nat]
           /\ changes' \in Nat /\ events' \in Seq(FileEvents)
<1>1. [file |-> f, kind |-> kind, change |-> changes + 1] \in FileEvents
  BY DEF FileEvents, FilesTypeOK
<1>2. events' \in Seq(FileEvents)
  BY <1>1, AppendProperties DEF Put, FilesTypeOK
<1> QED BY <1>2 DEF Put, FilesTypeOK

(* What the agent and a save put on the disk.                              *)
LEMMA ChangesPut ==
    ASSUME FilesTypeOK, NEW f \in Files, AgentWrites(f) \/ AgentDeletes(f) \/ (SaveSessionFile /\ saving.file = f)
    PROVE  /\ \E content \in Contents \cup {None}, kind \in {"created", "modified", "deleted"} :
                  Put(f, content, kind) /\ (kind = "deleted" <=> content = None)
           /\ UNCHANGED <<hot, handling, rows, wire, swallowed, selected, shown, doc, gets, seen, missed>>
           /\ saving' \in Saves \cup {None}
<1>1. CASE AgentWrites(f)
  <2>1. PICK size \in Sizes, kind \in {"created", "modified"} : Put(f, Content(changes + 1, size), kind)
    BY <1>1 DEF AgentWrites
  <2>2. Content(changes + 1, size) \in Contents
    BY ContentIsTyped, FilesAssumption DEF FilesAssumption, FilesTypeOK
  <2>3. Content(changes + 1, size) # None
    BY <2>2, FilesAssumption DEF FilesAssumption
  <2> QED BY <1>1, <2>1, <2>2, <2>3 DEF AgentWrites, editorVars, FilesTypeOK
<1>2. CASE AgentDeletes(f)
  BY <1>2 DEF AgentDeletes, editorVars, FilesTypeOK
<1>3. CASE SaveSessionFile /\ saving.file = f
  <2>1. saving \in Saves /\ saving' = [saving EXCEPT !.done = TRUE]
    BY <1>3 DEF SaveSessionFile, FilesTypeOK
  <2>2. saving' \in Saves /\ saving.text \in Contents /\ saving.text # None
    BY <2>1, FilesAssumption DEF Saves, FilesAssumption
  <2>3. PICK kind \in {"created", "modified"} : Put(f, saving.text, kind)
    BY <1>3 DEF SaveSessionFile, WriteFileContent
  <2> QED BY <1>3, <2>2, <2>3 DEF SaveSessionFile
<1> QED BY <1>1, <1>2, <1>3

LEMMA ChangeTypes ==
    ASSUME FilesTypeOK, NEW f \in Files, AgentWrites(f) \/ AgentDeletes(f) \/ (SaveSessionFile /\ saving.file = f)
    PROVE  FilesTypeOK'
<1>1. PICK content \in Contents \cup {None}, kind \in {"created", "modified", "deleted"} :
          Put(f, content, kind)
  BY ChangesPut
<1> QED BY <1>1, PutTypes, ChangesPut DEF FilesTypeOK

LEMMA WatcherTypes ==
    ASSUME FilesTypeOK, WatcherLoop
    PROVE  FilesTypeOK'
<1>1. CASE TakeEvent
  <2>1. events # <<>> /\ Head(events) \in FileEvents /\ events' = Tail(events) /\ Tail(events) \in Seq(FileEvents)
    BY <1>1, ElementsOfTail DEF TakeEvent, FilesTypeOK
  <2>2. \/ handling' = handling
        \/ handling' = [event |-> Head(events), size |-> None, content |-> NoContent,
                        at |-> IF Head(events).kind = "deleted" THEN "publish" ELSE "measure"]
    BY <1>1 DEF TakeEvent
  <2>3. handling' \in Handlings \cup {None}
    BY <2>1, <2>2, ContentIsTyped DEF Handlings, FilesTypeOK
  <2> QED BY <1>1, <2>1, <2>3 DEF TakeEvent, FilesTypeOK, editorVars
<1>2. CASE Measure \/ ReadContent
  <2>1. handling \in Handlings /\ handling.event.file \in Files
    BY <1>2 DEF Measure, ReadContent, FilesTypeOK, Handlings, FileEvents
  <2>2. PICK now \in Contents \cup {None} : now = disk[handling.event.file]
    BY <2>1 DEF FilesTypeOK
  <2>3. handling' \in Handlings
    <3>1. CASE Measure
      BY <2>1, <2>2, <3>1 DEF Measure, Handlings, Contents
    <3>2. CASE ReadContent
      <4>1. PICK content \in ReadToString(handling.event.file) : HasRead(content)
        BY <3>2 DEF ReadContent
      <4>2. content \in Contents
        BY <2>2, <4>1, ContentIsTyped DEF ReadToString
      <4> QED BY <2>1, <4>1, <4>2 DEF Handlings, HasRead
    <3> QED BY <1>2, <3>1, <3>2
  <2> QED BY <1>2, <2>3 DEF Measure, ReadContent, FilesTypeOK, editorVars
<1>3. CASE PublishChange
  <2>1. handling \in Handlings /\ handling.event \in FileEvents
    BY <1>3 DEF PublishChange, FilesTypeOK, Handlings
  <2>2. [file |-> handling.event.file, kind |-> handling.event.kind,
         content |-> handling.content, change |-> handling.event.change] \in EventPayloads
    BY <2>1 DEF EventPayloads, FileEvents, Handlings
  <2>3. wire' \in Seq(EventPayloads)
    BY <1>3, <2>2, AppendProperties DEF PublishChange, FilesTypeOK
  <2>4. rows' \in [Files -> AllSizes \cup {None}]
    BY <1>3, <2>1 DEF PublishChange, UpsertFile, DespawnFile, FilesTypeOK, AllSizes, Handlings
  <2> QED BY <1>3, <2>3, <2>4 DEF PublishChange, FilesTypeOK, editorVars
<1> QED BY <1>1, <1>2, <1>3 DEF WatcherLoop

LEMMA GetIsTyped ==
    ASSUME FilesTypeOK, NEW f \in Files, NEW b \in BOOLEAN, NEW content \in Contents \cup {None}
    PROVE  (gets \cup {[file |-> f, answered |-> b, answer |-> content]}) \in SUBSET Gets
<1>1. [file |-> f, answered |-> b, answer |-> content] \in Gets
  BY DEF Gets
<1>2. gets \in SUBSET Gets
  BY DEF FilesTypeOK
<1> QED BY <1>1, <1>2

LEMMA BrowserTypes ==
    ASSUME FilesTypeOK, Deliver \/ DropPayload \/ \E g \in gets : GetSessionFile(g) \/ GetAnswered(g)
    PROVE  FilesTypeOK'
<1>1. CASE Deliver
  <2>1. wire # <<>> /\ wire' = Tail(wire) /\ Tail(wire) \in Seq(EventPayloads) /\ Head(wire) \in EventPayloads
    BY <1>1, ElementsOfTail DEF Deliver, FilesTypeOK
  <2>2. PICK p \in EventPayloads : p = Head(wire)
    BY <2>1
  <2>3. p.file \in Files /\ p.content \in Contents
    BY DEF EventPayloads
  <2>4. gets' = gets \/ gets' = StartGet(p.file)
    BY <1>1, <2>2 DEF Deliver
  <2>5. gets' \in SUBSET Gets
    <3>1. StartGet(p.file) \in SUBSET Gets
      BY <2>3, ContentIsTyped, GetIsTyped DEF StartGet
    <3>2. gets \in SUBSET Gets
      BY DEF FilesTypeOK
    <3> QED BY <2>4, <3>1, <3>2
  <2>6. SetFileContent(p.content) \/ UNCHANGED <<shown, doc>>
    BY <1>1, <2>2 DEF Deliver
  <2>7. shown' \in Contents \cup {None} /\ doc' \in Contents
    BY <2>3, <2>6, ContentIsTyped DEF SetFileContent, ShowAnew, TextOf, FilesTypeOK
  <2> QED BY <1>1, <2>1, <2>5, <2>7 DEF Deliver, FilesTypeOK, serverVars
<1>2. CASE DropPayload
  <2>1. wire' = Tail(wire) /\ Tail(wire) \in Seq(EventPayloads)
    BY <1>2, ElementsOfTail DEF DropPayload, FilesTypeOK
  <2> QED BY <1>2, <2>1 DEF DropPayload, FilesTypeOK, serverVars, editorVars
<1>3. ASSUME NEW g \in gets, GetSessionFile(g) PROVE FilesTypeOK'
  <2>1. g \in Gets /\ g.file \in Files
    BY DEF FilesTypeOK, Gets
  <2>2. PICK answer \in ReadFileContent(g.file) :
            gets' = (gets \ {g}) \cup {[file |-> g.file, answered |-> TRUE, answer |-> answer]}
    BY <1>3 DEF GetSessionFile
  <2>3. gets' \in SUBSET Gets
    <3> DEFINE answered == {[file |-> g.file, answered |-> TRUE, answer |-> answer]}
    <3>0. answer \in Contents \cup {None}
      BY <2>1, <2>2 DEF ReadFileContent, FilesTypeOK
    <3>1. gets \cup answered \in SUBSET Gets
      BY <2>1, <3>0, GetIsTyped
    <3>2. gets' = (gets \ {g}) \cup answered
      BY <2>2
    <3> HIDE DEF answered
    <3> QED BY <3>1, <3>2
  <2> QED BY <1>3, <2>3 DEF GetSessionFile, FilesTypeOK, serverVars
<1>4. ASSUME NEW g \in gets, GetAnswered(g) PROVE FilesTypeOK'
  <2>1. g.answer \in Contents \cup {None}
    BY DEF FilesTypeOK, Gets
  <2>2. shown' \in Contents \cup {None} /\ doc' \in Contents
    BY <1>4, <2>1, ContentIsTyped DEF GetAnswered, SetFileContent, ShowAnew, TextOf, FilesTypeOK
  <2>3. gets' \in SUBSET Gets
    BY <1>4 DEF GetAnswered, FilesTypeOK
  <2> QED BY <1>4, <2>2, <2>3 DEF GetAnswered, FilesTypeOK, serverVars
<1> QED BY <1>1, <1>2, <1>3, <1>4

LEMMA EditorTypes ==
    ASSUME FilesTypeOK, (\E f \in Files : SelectFile(f)) \/ Type \/ Save \/ SaveSucceeded \/ SaveFailed
    PROVE  FilesTypeOK'
<1>1. ASSUME NEW f \in Files, SelectFile(f) PROVE FilesTypeOK'
  <2>1. gets' \in SUBSET Gets
    BY <1>1, ContentIsTyped, GetIsTyped DEF SelectFile, StartGet
  <2>2. doc' \in Contents
    BY <1>1, ContentIsTyped DEF SelectFile, TextOf, FilesTypeOK
  <2> QED BY <1>1, <2>1, <2>2 DEF SelectFile, FilesTypeOK, serverVars
<1>2. CASE Type
  BY <1>2, ContentIsTyped DEF Type, FilesTypeOK, serverVars
<1>3. CASE Save
  <2>1. saving' \in Saves
    BY <1>3 DEF Save, Saves, FilesTypeOK
  <2> QED BY <1>3, <2>1 DEF Save, FilesTypeOK, serverVars
<1>4. CASE SaveSucceeded
  <2>1. saving \in Saves /\ saving.text \in Contents
    BY <1>4 DEF SaveSucceeded, FilesTypeOK, Saves
  <2> QED BY <1>4, <2>1 DEF SaveSucceeded, FilesTypeOK, serverVars
<1>5. CASE SaveFailed
  BY <1>5 DEF SaveFailed, FilesTypeOK, serverVars
<1> QED BY <1>1, <1>2, <1>3, <1>4, <1>5

(* Every other step leaves all this alone.                                 *)
LEMMA FilesTypesStay == FilesTypeOK /\ [FilesNext]_filesVars => FilesTypeOK'
<1> SUFFICES ASSUME FilesTypeOK, [FilesNext]_filesVars PROVE FilesTypeOK'
  OBVIOUS
<1>1. ASSUME NEW f \in Files, AgentWrites(f) \/ AgentDeletes(f) PROVE FilesTypeOK'
  BY <1>1, ChangeTypes
<1>2. CASE SaveSessionFile
  <2>1. saving.file \in Files
    BY <1>2 DEF SaveSessionFile, FilesTypeOK, Saves
  <2> QED BY <1>2, <2>1, ChangeTypes
<1>3. ASSUME NEW f \in Files, Cool(f) PROVE FilesTypeOK'
  BY <1>3 DEF Cool, FilesTypeOK, editorVars
<1>4. CASE Frame \/ TreePolling
  BY <1>4 DEF Frame, TreePolling, FetchTree, ListDirectory, TreeAnswered, FilesTypeOK, serverVars, editorVars
<1>5. CASE UNCHANGED filesVars
  BY <1>5 DEF filesVars, serverVars, editorVars, FilesTypeOK
<1> QED BY <1>1, <1>2, <1>3, <1>4, <1>5, WatcherTypes, BrowserTypes, EditorTypes
        DEF FilesNext, ServerNext, EditorNext

-----------------------------------------------------------------------------
(* What the types say of what is under way.                                *)
LEMMA UnderWayIsTyped ==
    FilesTypeOK =>
        /\ \A e \in Waiting \cup Handled \cup OnWire : e.file \in Files /\ e.change \in Nat
        /\ Waiting \subseteq FileEvents /\ OnWire \subseteq EventPayloads
<1> SUFFICES ASSUME FilesTypeOK
             PROVE  /\ \A e \in Waiting \cup Handled \cup OnWire : e.file \in Files /\ e.change \in Nat
                    /\ Waiting \subseteq FileEvents /\ OnWire \subseteq EventPayloads
  OBVIOUS
<1>1. Waiting \subseteq FileEvents /\ OnWire \subseteq EventPayloads
  BY ElementsAreTyped DEF Waiting, OnWire, FilesTypeOK
<1>2. Handled \subseteq FileEvents
  BY DEF Handled, FilesTypeOK, Handlings
<1> QED BY <1>1, <1>2 DEF FileEvents, EventPayloads

LEMMA InitArrivalInv == FilesInit => ArrivalInv
<1> SUFFICES ASSUME FilesInit PROVE ArrivalInv
  OBVIOUS
<1>1. FilesTypeOK
  <2>1. <<>> \in Seq(FileEvents) /\ <<>> \in Seq(EventPayloads)
    BY EmptySeq
  <2> QED BY <2>1, ContentIsTyped DEF FilesInit, FilesTypeOK
<1>2. Waiting = {} /\ OnWire = {} /\ Handled = {}
  BY DEF FilesInit, Waiting, OnWire, Handled, Elements
<1>3. InOrder
  BY <1>2 DEF FilesInit, InOrder, Rising
<1>4. KindIsTrue /\ HandledIsTrue /\ WireIsTrue
  BY <1>2 DEF FilesInit, KindIsTrue, HandledIsTrue, WireIsTrue
<1>5. \A f \in Files : Through(f)
  BY <1>2 DEF FilesInit, Through, Arrived, SizeOf
<1> QED BY <1>1, <1>3, <1>4, <1>5 DEF ArrivalInv, Placed

(* A step that moves nothing on the way.                                   *)
LEMMA WayStays ==
    ASSUME ArrivalInv, FilesTypeOK',
           UNCHANGED <<disk, changes, latest, events, handling, rows, wire>>,
           swallowed \subseteq swallowed', \A f \in Files : Arrived(f) => Arrived(f)'
    PROVE  ArrivalInv'
<1>1. Waiting' = Waiting /\ OnWire' = OnWire /\ Handled' = Handled
  BY DEF Waiting, OnWire, Handled
<1>2. InOrder'
  BY <1>1 DEF ArrivalInv, InOrder
<1>3. KindIsTrue' /\ HandledIsTrue' /\ WireIsTrue'
  BY <1>1 DEF ArrivalInv, KindIsTrue, HandledIsTrue, ReadIsTrue, WireIsTrue, Latest
<1>4. ASSUME NEW f \in Files, Placed(f) PROVE Placed(f)'
  BY <1>1, <1>4 DEF Placed, Through, Latest
<1> QED BY <1>2, <1>3, <1>4 DEF ArrivalInv

(* The steps of the browser that leave the wire alone.                     *)
LEMMA BrowserStays ==
    ASSUME ArrivalInv, FilesTypeOK',
           \/ \E f \in Files : SelectFile(f) \/ Cool(f)
           \/ \E g \in gets : GetSessionFile(g) \/ GetAnswered(g)
           \/ Frame \/ TreePolling \/ Type \/ Save \/ SaveSucceeded \/ SaveFailed
           \/ UNCHANGED filesVars
    PROVE  ArrivalInv'
<1>1. UNCHANGED <<disk, changes, latest, events, handling, rows, wire, swallowed>>
  BY DEF SelectFile, Cool, GetSessionFile, GetAnswered, Frame, TreePolling, FetchTree, ListDirectory,
         TreeAnswered, Type, Save, SaveSucceeded, SaveFailed, filesVars, serverVars
<1>2. ASSUME NEW f \in Files, Arrived(f) PROVE Arrived(f)'
  <2>1. CASE \E h \in Files : SelectFile(h)
    <3>1. PICK h \in Files : SelectFile(h)
      BY <2>1
    <3> DEFINE new == [file |-> h, answered |-> FALSE, answer |-> NoContent]
    <3>2. selected' = h /\ new \in gets'
      BY <3>1 DEF SelectFile, StartGet
    <3>3. new.file = h /\ new.answered = FALSE
      OBVIOUS
    <3> HIDE DEF new
    <3> QED BY <3>2, <3>3 DEF Arrived
  <2>2. ASSUME NEW g \in gets, GetSessionFile(g) PROVE Arrived(f)'
    <3>0. PICK answer \in {disk[g.file], None} :
              /\ gets' = (gets \ {g}) \cup {[file |-> g.file, answered |-> TRUE, answer |-> answer]}
              /\ missed' = IF answer = None /\ g.file = selected
                           THEN missed \cup {latest[g.file]} ELSE missed
      BY <2>2 DEF GetSessionFile, ReadFileContent
    <3> DEFINE new == [file |-> g.file, answered |-> TRUE, answer |-> answer]
    <3>1. gets' = (gets \ {g}) \cup {new} /\ UNCHANGED <<selected, seen>>
      BY <2>2, <3>0 DEF GetSessionFile
    <3>2. new.file = g.file /\ new.answer = answer
      OBVIOUS
    <3> HIDE DEF new
    <3>3. SUFFICES ASSUME f = selected, disk[f] # None, disk[f] \notin seen, latest[f] \notin missed'
                   PROVE  \E d \in gets' : d.file = f /\ (d.answered => d.answer = disk[f])
      BY <1>1, <3>1 DEF Arrived
    <3>4. PICK d \in gets : d.file = f /\ (d.answered => d.answer = disk[f])
      BY <1>2, <3>0, <3>3 DEF Arrived
    <3>5. CASE d = g
      BY <3>0, <3>1, <3>2, <3>3, <3>4, <3>5
    <3>6. CASE d # g
      BY <3>1, <3>4, <3>6
    <3> QED BY <3>5, <3>6
  <2>3. ASSUME NEW g \in gets, GetAnswered(g) PROVE Arrived(f)'
    <3>1. gets' = gets \ {g} /\ UNCHANGED <<selected, missed>> /\ g.answered
          /\ seen' = IF g.answer # None /\ g.file = selected THEN seen \cup {g.answer} ELSE seen
      BY <2>3 DEF GetAnswered, Saw
    <3> QED BY <1>1, <1>2, <3>1 DEF Arrived
  <2>4. CASE SaveSucceeded
    <3>1. UNCHANGED <<gets, selected, missed>> /\ seen \subseteq seen'
      BY <2>4 DEF SaveSucceeded, Saw
    <3> QED BY <1>1, <1>2, <3>1 DEF Arrived
  <2>5. CASE UNCHANGED <<selected, seen, missed, gets>>
    BY <1>1, <1>2, <2>5 DEF Arrived
  <2> QED BY <2>1, <2>2, <2>3, <2>4, <2>5
          DEF Cool, Frame, TreePolling, FetchTree, ListDirectory, TreeAnswered, Type, Save, SaveFailed,
              filesVars, editorVars
<1> QED BY <1>1, <1>2, WayStays

(* The disk changes: the new event is the last of its file.                *)
LEMMA ChangeStep ==
    ASSUME ArrivalInv, FilesTypeOK', NEW f \in Files,
           AgentWrites(f) \/ AgentDeletes(f) \/ (SaveSessionFile /\ saving.file = f)
    PROVE  ArrivalInv'
<1>1. FilesTypeOK /\ InOrder /\ KindIsTrue /\ HandledIsTrue /\ WireIsTrue
  BY DEF ArrivalInv
<1>2. PICK content \in Contents \cup {None}, kind \in {"created", "modified", "deleted"} :
          Put(f, content, kind) /\ (kind = "deleted" <=> content = None)
  BY <1>1, ChangesPut
<1>3. UNCHANGED <<handling, rows, wire, swallowed, selected, gets, seen, missed>>
  BY <1>1, ChangesPut
<1>4. PICK e \in FileEvents : e = [file |-> f, kind |-> kind, change |-> changes + 1]
  <2>1. [file |-> f, kind |-> kind, change |-> changes + 1] \in FileEvents
    BY <1>1 DEF FilesTypeOK, FileEvents
  <2> QED BY <2>1
<1>5. /\ e.file = f /\ e.kind = kind /\ e.change = changes + 1 /\ e \in FileEvents
      /\ events' = Append(events, e)
  BY <1>2, <1>4 DEF Put
<1>6. /\ disk'[f] = content /\ latest'[f] = changes + 1 /\ changes' = changes + 1
      /\ \A g \in Files : g # f => disk'[g] = disk[g] /\ latest'[g] = latest[g]
  BY <1>1, <1>2 DEF Put, FilesTypeOK
<1>7. Waiting' = Waiting \cup {e} /\ OnWire' = OnWire /\ Handled' = Handled
  BY <1>1, <1>3, <1>5, ElementsOfAppend DEF Waiting, OnWire, Handled, FilesTypeOK
<1>8. /\ changes \in Nat /\ \A g \in Files : latest[g] \in Nat /\ latest[g] <= changes
      /\ \A d \in Waiting \cup Handled \cup OnWire : /\ d.file \in Files /\ d.change \in Nat
                                                     /\ d.change <= latest[d.file]
  BY <1>1, UnderWayIsTyped DEF FilesTypeOK, InOrder
<1>9. \A d \in Waiting \cup Handled \cup OnWire :
          d.change < changes + 1 /\ (d.file = f => d.change # latest'[f])
  BY <1>6, <1>8
<1>10. InOrder'
  <2>1. \A g \in Files : latest'[g] <= changes'
    BY <1>6, <1>8
  <2>2. ASSUME NEW d \in Waiting \cup {e} \cup Handled \cup OnWire PROVE d.change <= latest'[d.file]
    <3>1. CASE d = e
      BY <1>5, <1>6, <1>8, <3>1
    <3>2. CASE d # e
      BY <1>6, <1>8, <2>2, <3>2
    <3> QED BY <3>1, <3>2
  <2>3. Rising(events')
    <3>1. \A d \in Elements(events) : d.file = e.file => d.change < e.change
      BY <1>5, <1>9 DEF Waiting
    <3> QED BY <1>1, <1>5, <3>1, RisingAppend DEF InOrder, FilesTypeOK
  <2>4. \A h \in Handled, d \in Waiting \cup {e} : h.file = d.file => h.change < d.change
    BY <1>1, <1>5, <1>9 DEF InOrder
  <2> QED BY <1>7, <2>1, <2>2, <2>3, <2>4 DEF InOrder
<1>11. \A d \in Waiting \cup Handled \cup OnWire :
           Latest(d)' => d.file # f /\ Latest(d) /\ disk'[d.file] = disk[d.file]
  BY <1>6, <1>8, <1>9 DEF Latest
<1>12. KindIsTrue'
  <2>1. e.kind = "deleted" <=> disk'[e.file] = None
    BY <1>2, <1>5, <1>6
  <2> QED BY <1>1, <1>7, <1>11, <2>1 DEF KindIsTrue
<1>13. HandledIsTrue'
  <2>1. handling # None => handling.event \in Handled
    BY DEF Handled
  <2> QED BY <1>1, <1>3, <1>11, <2>1 DEF HandledIsTrue, ReadIsTrue
<1>14. WireIsTrue'
  BY <1>1, <1>7, <1>11 DEF WireIsTrue
<1>15. ASSUME NEW g \in Files \ Unwatched PROVE Placed(g)'
  <2>1. CASE g = f
    <3>1. Latest(e)'
      BY <1>5, <1>6 DEF Latest
    <3> QED BY <1>5, <1>7, <2>1, <3>1 DEF Placed
  <2>2. CASE g # f
    <3>1. Placed(g) /\ disk'[g] = disk[g] /\ latest'[g] = latest[g]
      BY <1>6, <2>2 DEF ArrivalInv
    <3>2. \A d \in Waiting \cup Handled \cup OnWire : d.file = g => (Latest(d) => Latest(d)')
      BY <3>1 DEF Latest
    <3>3. Through(g) => Through(g)'
      BY <1>3, <1>5, <1>7, <2>2, <3>1, <3>2 DEF Through, Arrived
    <3> QED BY <1>3, <1>7, <3>1, <3>2, <3>3 DEF Placed
  <2> QED BY <2>1, <2>2
<1> QED BY <1>10, <1>12, <1>13, <1>14, <1>15 DEF ArrivalInv

-----------------------------------------------------------------------------
(* The watcher loop takes the oldest event.                                *)
LEMMA TakeStep ==
    ASSUME ArrivalInv, FilesTypeOK', TakeEvent
    PROVE  ArrivalInv'
<1>1. FilesTypeOK /\ InOrder /\ KindIsTrue /\ HandledIsTrue /\ WireIsTrue
  BY DEF ArrivalInv
<1>2. events # <<>> /\ events \in Seq(FileEvents) /\ events' = Tail(events) /\ handling = None
  BY <1>1 DEF TakeEvent, FilesTypeOK
<1>3. PICK e \in FileEvents : e = Head(events)
  BY <1>2, ElementsOfTail
<1>4. UNCHANGED <<disk, changes, latest, rows, wire, selected, gets, seen, missed>>
  BY DEF TakeEvent, editorVars
<1>5. Waiting = Waiting' \cup {e} /\ OnWire' = OnWire /\ Handled = {}
  BY <1>2, <1>3, <1>4, ElementsOfTail DEF Waiting, OnWire, Handled
<1>6. /\ Rising(events')
      /\ \A d \in Waiting' : d.file = e.file => e.change < d.change
  BY <1>1, <1>2, <1>3, RisingTail DEF InOrder, Waiting
<1>7. \/ handling' = None /\ (e.file \in Unwatched \/ e.change \in swallowed') /\ swallowed \subseteq swallowed'
      \/ /\ handling' = [event |-> e, size |-> None, content |-> NoContent,
                         at |-> IF e.kind = "deleted" THEN "publish" ELSE "measure"]
         /\ swallowed' = swallowed
  BY <1>2, <1>3 DEF TakeEvent, ShouldIgnorePath
<1>8. swallowed \subseteq swallowed'
  BY <1>7
<1>9. \/ Handled' = {} /\ handling' = None /\ (e.file \in Unwatched \/ e.change \in swallowed')
      \/ /\ Handled' = {e} /\ handling' # None
         /\ handling' = [event |-> e, size |-> None, content |-> NoContent,
                         at |-> IF e.kind = "deleted" THEN "publish" ELSE "measure"]
  <2>1. CASE handling' = None
    BY <1>7, <2>1, FilesAssumption, ContentIsTyped DEF Handled, FilesAssumption, Handlings
  <2>2. CASE handling' # None
    BY <1>7, <2>2 DEF Handled
  <2> QED BY <2>1, <2>2
<1>10. Waiting' \cup Handled' \subseteq Waiting /\ e \in Waiting
  BY <1>5, <1>9
<1>11. \A d \in Waiting : d.file \in Files /\ d.change \in Nat /\ d.change <= latest[d.file] /\ latest[d.file] \in Nat
  BY <1>1, UnderWayIsTyped DEF InOrder, FilesTypeOK
<1>12. InOrder'
  <2>1. \A d \in Waiting' \cup Handled' \cup OnWire' : d.change <= latest'[d.file]
    BY <1>1, <1>4, <1>5, <1>10 DEF InOrder
  <2>2. \A h \in Handled', d \in Waiting' : h.file = d.file => h.change < d.change
    BY <1>6, <1>9
  <2> QED BY <1>1, <1>4, <1>6, <2>1, <2>2 DEF InOrder
<1>13. KindIsTrue'
  BY <1>1, <1>4, <1>5, <1>10 DEF KindIsTrue, Latest
<1>14. HandledIsTrue'
  <2>1. SUFFICES ASSUME handling' # None, Latest(handling.event)'
                 PROVE  ReadIsTrue(disk[handling.event.file])'
    BY DEF HandledIsTrue
  <2>2. /\ handling'.event = e /\ handling'.size = None /\ handling'.content = NoContent
        /\ handling'.at = IF e.kind = "deleted" THEN "publish" ELSE "measure"
    BY <1>9, <2>1
  <2>3. e.kind = "deleted" <=> disk[e.file] = None
    BY <1>1, <1>4, <1>10, <2>1, <2>2 DEF KindIsTrue, Latest
  <2> QED BY <1>4, <2>2, <2>3 DEF ReadIsTrue, SizeOf, Carried
<1>15. WireIsTrue'
  BY <1>1, <1>4, <1>5 DEF WireIsTrue, Latest
<1>16. ASSUME NEW f \in Files \ Unwatched PROVE Placed(f)'
  <2>1. CASE latest[f] \in swallowed
    BY <1>4, <1>8, <2>1 DEF Placed
  <2>2. CASE \E d \in Waiting \cup Handled : d.file = f /\ Latest(d)
    <3>1. PICK d \in Waiting : d.file = f /\ Latest(d)
      BY <1>5, <2>2
    <3>2. CASE d \in Waiting' \cup Handled'
      BY <1>4, <3>1, <3>2 DEF Placed, Latest
    <3>3. CASE d \notin Waiting' \cup Handled'
      <4>1. d = e /\ e.change \in swallowed'
        BY <1>5, <1>9, <3>1, <3>3
      <4> QED BY <1>4, <3>1, <4>1 DEF Placed, Latest
    <3> QED BY <3>2, <3>3
  <2>3. CASE Through(f)
    <3>1. Through(f)'
      BY <1>4, <1>5, <1>10, <2>3 DEF Through, Arrived, Latest
    <3> QED BY <3>1 DEF Placed
  <2> QED BY <2>1, <2>2, <2>3 DEF ArrivalInv, Placed
<1> QED BY <1>12, <1>13, <1>14, <1>15, <1>16 DEF ArrivalInv

(* What it reads for the last change is what the disk holds.               *)
LEMMA ReadStep ==
    ASSUME ArrivalInv, FilesTypeOK', Measure \/ ReadContent
    PROVE  ArrivalInv'
<1>1. FilesTypeOK /\ InOrder /\ KindIsTrue /\ HandledIsTrue /\ WireIsTrue
  BY DEF ArrivalInv
<1>2. handling \in Handlings /\ handling # None
  BY <1>1 DEF Measure, ReadContent, FilesTypeOK
<1>3. UNCHANGED <<disk, changes, latest, events, rows, wire, swallowed, selected, gets, seen, missed>>
  BY DEF Measure, ReadContent, editorVars
<1>4. PICK now \in Contents \cup {None} : now = disk[handling.event.file]
  BY <1>1, <1>2 DEF FilesTypeOK, Handlings, FileEvents
<1>5. /\ handling' \in Handlings /\ handling'.event = handling.event
      /\ Latest(handling.event) => ReadIsTrue(now)'
  <2>1. CASE Measure
    <3>1. /\ handling.at = "measure"
          /\ handling' = IF now = None THEN [handling EXCEPT !.at = "publish"]
                         ELSE [handling EXCEPT !.size = now.size,
                                   !.at = IF now.size = "large" THEN "publish" ELSE "read"]
      BY <1>4, <2>1 DEF Measure
    <3>2. Latest(handling.event) => handling.size = None /\ handling.content = NoContent
      BY <1>1, <1>2, <3>1 DEF HandledIsTrue, ReadIsTrue
    <3>3. CASE now = None
      BY <1>2, <3>1, <3>2, <3>3 DEF Handlings, ReadIsTrue, SizeOf, Carried
    <3>4. CASE now # None
      BY <1>2, <1>4, <3>1, <3>2, <3>4 DEF Handlings, Contents, ReadIsTrue, SizeOf, Carried
    <3> QED BY <3>3, <3>4
  <2>2. CASE ReadContent
    <3>1. /\ handling.at = "read"
      BY <2>2 DEF ReadContent
    <3>0. PICK content \in ReadToString(handling.event.file) : HasRead(content)
      BY <2>2 DEF ReadContent
    <3>5. content = NoContent \/ (content = now /\ now # None)
      BY <1>4, <3>0 DEF ReadToString
    <3>2. Latest(handling.event) => handling.size = SizeOf(now) /\ SizeOf(now) # "large"
      BY <1>1, <1>2, <1>4, <3>1 DEF HandledIsTrue, ReadIsTrue
    <3>3. content \in Contents
      BY <1>4, <3>0, ContentIsTyped DEF ReadToString
    <3>4. handling' \in Handlings /\ handling'.event = handling.event /\ handling'.at = "publish"
          /\ handling'.size = handling.size /\ handling'.content = content
      BY <1>2, <3>0, <3>3 DEF Handlings, HasRead
    <3>6. Latest(handling.event) => content \in {NoContent, Carried(now)}
      BY <3>2, <3>5 DEF SizeOf, Carried
    <3> QED BY <3>2, <3>4, <3>6 DEF ReadIsTrue
  <2> QED BY <2>1, <2>2
<1>6. Waiting' = Waiting /\ OnWire' = OnWire /\ Handled' = Handled
  BY <1>2, <1>3, <1>5, FilesAssumption DEF Waiting, OnWire, Handled, FilesAssumption
<1>7. InOrder' /\ KindIsTrue' /\ WireIsTrue'
  BY <1>1, <1>3, <1>6 DEF InOrder, KindIsTrue, WireIsTrue, Latest
<1>8. HandledIsTrue'
  BY <1>3, <1>4, <1>5 DEF HandledIsTrue, Latest
<1>9. ASSUME NEW f \in Files, Placed(f) PROVE Placed(f)'
  BY <1>3, <1>6, <1>9 DEF Placed, Through, Arrived, Latest
<1> QED BY <1>7, <1>8, <1>9 DEF ArrivalInv

(* The row and the payload.                                                *)
LEMMA PublishStep ==
    ASSUME ArrivalInv, FilesTypeOK', PublishChange
    PROVE  ArrivalInv'
<1>1. FilesTypeOK /\ InOrder /\ KindIsTrue /\ HandledIsTrue /\ WireIsTrue
  BY DEF ArrivalInv
<1>2. handling \in Handlings /\ handling # None /\ handling.at = "publish" /\ handling' = None
  BY <1>1 DEF PublishChange, FilesTypeOK
<1>3. UNCHANGED <<disk, changes, latest, events, swallowed, selected, gets, seen, missed>>
  BY DEF PublishChange, editorVars
<1>4. PICK e \in FileEvents : e = handling.event
  BY <1>2 DEF Handlings
<1>5. PICK p \in EventPayloads : p = [file |-> e.file, kind |-> e.kind, content |-> handling.content, change |-> e.change]
  <2>1. [file |-> e.file, kind |-> e.kind, content |-> handling.content, change |-> e.change] \in EventPayloads
    BY <1>2, <1>4 DEF Handlings, FileEvents, EventPayloads
  <2> QED BY <2>1
<1>6. p.file = e.file /\ p.kind = e.kind /\ p.content = handling.content /\ p.change = e.change
      /\ wire' = Append(wire, p) /\ e.file \in Files
  BY <1>4, <1>5 DEF PublishChange, FileEvents
<1>7. Waiting' = Waiting /\ OnWire' = OnWire \cup {p} /\ Handled = {e} /\ Handled' = {}
  BY <1>1, <1>2, <1>3, <1>4, <1>6, ElementsOfAppend DEF Waiting, OnWire, Handled, FilesTypeOK
<1>8. InOrder'
  <2>1. \A d \in Waiting \cup OnWire \cup {p} : d.change <= latest[d.file]
    BY <1>1, <1>6, <1>7 DEF InOrder
  <2> QED BY <1>1, <1>3, <1>7, <2>1 DEF InOrder
<1>9. Latest(p) <=> Latest(e)
  BY <1>6 DEF Latest
<1>10. KindIsTrue'
  <2>1. \A d \in Waiting \cup OnWire \cup {p} : Latest(d) => (d.kind = "deleted" <=> disk[d.file] = None)
    BY <1>1, <1>6, <1>7, <1>9 DEF KindIsTrue
  <2> QED BY <1>3, <1>7, <2>1 DEF KindIsTrue, Latest
<1>11. HandledIsTrue'
  BY <1>2 DEF HandledIsTrue
<1>12. Latest(e) => /\ handling.size = SizeOf(disk[e.file]) /\ p.content \in {NoContent, Carried(disk[e.file])}
                    /\ (e.kind = "deleted" <=> disk[e.file] = None)
  BY <1>1, <1>2, <1>4, <1>6, <1>7 DEF HandledIsTrue, ReadIsTrue, KindIsTrue
<1>13. WireIsTrue'
  <2>1. \A d \in OnWire \cup {p} : Latest(d) => d.content \in {NoContent, Carried(disk[d.file])}
    BY <1>1, <1>6, <1>9, <1>12 DEF WireIsTrue
  <2> QED BY <1>3, <1>7, <2>1 DEF WireIsTrue, Latest
<1>14. rows' = IF e.kind = "deleted" THEN DespawnFile(e.file)
               ELSE UpsertFile(e.file, IF handling.size = None THEN "empty" ELSE handling.size)
  BY <1>4 DEF PublishChange
<1>15. \A f \in Files : f # e.file => rows'[f] = rows[f]
  BY <1>1, <1>14 DEF DespawnFile, UpsertFile, FilesTypeOK
<1>16. Latest(e) => rows'[e.file] = SizeOf(disk[e.file])
  <2>1. disk[e.file] \in Contents \cup {None} /\ rows \in [Files -> AllSizes \cup {None}]
    BY <1>1, <1>6 DEF FilesTypeOK
  <2>2. disk[e.file] # None => SizeOf(disk[e.file]) \in AllSizes /\ SizeOf(disk[e.file]) # None
    BY <2>1, FilesAssumption DEF SizeOf, Contents, FilesAssumption
  <2> QED BY <1>6, <1>12, <1>14, <2>1, <2>2 DEF SizeOf, DespawnFile, UpsertFile
<1>17. ASSUME NEW f \in Files \ Unwatched PROVE Placed(f)'
  <2>1. CASE latest[f] \in swallowed
    BY <1>3, <2>1 DEF Placed
  <2>2. CASE \E d \in Waiting : d.file = f /\ Latest(d)
    BY <1>3, <1>7, <2>2 DEF Placed, Latest
  <2>3. CASE e.file = f /\ Latest(e)
    <3>1. \A d \in Waiting : d.file # f
      <4>1. ASSUME NEW d \in Waiting, d.file = f PROVE FALSE
        <5>1. e.change < d.change /\ d.change <= latest[f] /\ e.change = latest[f]
          BY <1>1, <1>7, <2>3, <4>1 DEF InOrder, Latest
        <5>2. d.change \in Nat /\ latest[f] \in Nat
          BY <1>1, <4>1, UnderWayIsTyped DEF FilesTypeOK
        <5> QED BY <5>1, <5>2
      <4> QED BY <4>1
    <3>2. Latest(p)'
      BY <1>3, <1>6, <2>3 DEF Latest
    <3>3. Through(f)'
      BY <1>3, <1>6, <1>7, <1>16, <2>3, <3>1, <3>2 DEF Through
    <3> QED BY <3>3 DEF Placed
  <2>4. CASE Through(f)
    <3>1. f # e.file
      BY <1>7, <2>4 DEF Through
    <3>2. Through(f)'
      BY <1>3, <1>7, <1>15, <2>4, <3>1 DEF Through, Arrived, Latest
    <3> QED BY <3>2 DEF Placed
  <2> QED BY <1>7, <2>1, <2>2, <2>3, <2>4 DEF ArrivalInv, Placed
<1> QED BY <1>8, <1>10, <1>11, <1>13, <1>17 DEF ArrivalInv

-----------------------------------------------------------------------------
(* A payload leaves the wire: what is said of it is said of fewer.         *)
LEMMA WireShortens ==
    ASSUME ArrivalInv, FilesTypeOK', NEW p \in EventPayloads, OnWire = OnWire' \cup {p},
           UNCHANGED <<disk, changes, latest, events, handling, rows>>,
           swallowed \subseteq swallowed',
           \A f \in Files : Arrived(f) => Arrived(f)',
           Latest(p) => p.change \in swallowed' \/ Arrived(p.file)'
    PROVE  ArrivalInv'
<1>1. FilesTypeOK /\ InOrder /\ KindIsTrue /\ HandledIsTrue /\ WireIsTrue
  BY DEF ArrivalInv
<1>2. Waiting' = Waiting /\ Handled' = Handled /\ OnWire' \subseteq OnWire
  BY DEF Waiting, Handled
<1>3. InOrder'
  BY <1>1, <1>2 DEF InOrder
<1>4. KindIsTrue' /\ WireIsTrue' /\ HandledIsTrue'
  BY <1>1, <1>2 DEF KindIsTrue, WireIsTrue, HandledIsTrue, ReadIsTrue, Latest
<1>5. ASSUME NEW f \in Files, Placed(f) PROVE Placed(f)'
  <2>1. CASE latest[f] \in swallowed
    BY <2>1 DEF Placed
  <2>2. CASE \E d \in Waiting \cup Handled : d.file = f /\ Latest(d)
    BY <1>2, <2>2 DEF Placed, Latest
  <2>3. CASE Through(f)
    <3>1. /\ rows'[f] = SizeOf(disk'[f])
          /\ \A d \in Waiting' \cup Handled' : d.file # f
      BY <1>2, <2>3 DEF Through
    <3>2. CASE Arrived(f)
      BY <3>1, <3>2 DEF Placed, Through
    <3>3. CASE \E d \in OnWire : d.file = f /\ Latest(d)
      <4>1. PICK d \in OnWire : d.file = f /\ Latest(d)
        BY <3>3
      <4>2. CASE d \in OnWire'
        <5>1. Latest(d)'
          BY <4>1 DEF Latest
        <5> QED BY <3>1, <4>1, <4>2, <5>1 DEF Placed, Through
      <4>3. CASE d = p
        <5>1. p.file = f /\ p.change = latest'[f] /\ Latest(p)
          BY <4>1, <4>3 DEF Latest
        <5>2. CASE p.change \in swallowed'
          BY <5>1, <5>2 DEF Placed
        <5>3. CASE Arrived(p.file)'
          BY <3>1, <5>1, <5>3 DEF Placed, Through
        <5> QED BY <5>1, <5>2, <5>3
      <4> QED BY <4>1, <4>2, <4>3
    <3> QED BY <2>3, <3>2, <3>3 DEF Through
  <2> QED BY <1>5, <2>1, <2>2, <2>3 DEF Placed
<1> QED BY <1>3, <1>4, <1>5 DEF ArrivalInv

LEMMA WireStep ==
    ASSUME ArrivalInv, FilesTypeOK', Deliver \/ DropPayload
    PROVE  ArrivalInv'
<1>1. FilesTypeOK /\ KindIsTrue /\ WireIsTrue
  BY DEF ArrivalInv
<1>2. wire # <<>> /\ wire \in Seq(EventPayloads) /\ wire' = Tail(wire)
      /\ UNCHANGED <<disk, changes, latest, events, handling, rows, selected>>
      /\ swallowed \subseteq swallowed' /\ seen \subseteq seen' /\ missed \subseteq missed' /\ gets \subseteq gets'
  BY <1>1 DEF Deliver, DropPayload, FilesTypeOK, serverVars, editorVars, Saw, StartGet
<1>3. PICK p \in EventPayloads : p = Head(wire)
  BY <1>2, ElementsOfTail
<1>4. OnWire = OnWire' \cup {p}
  BY <1>2, <1>3, ElementsOfTail DEF OnWire
<1>5. \A f \in Files : Arrived(f) => Arrived(f)'
  BY <1>2 DEF Arrived
<1>6. ASSUME Latest(p) PROVE p.change \in swallowed' \/ Arrived(p.file)'
  <2>1. CASE DropPayload
    BY <1>3, <2>1 DEF DropPayload
  <2>2. CASE Deliver
    <3>1. (p.kind = "deleted" <=> disk[p.file] = None) /\ p.content \in {NoContent, Carried(disk[p.file])}
      BY <1>1, <1>4, <1>6 DEF KindIsTrue, WireIsTrue
    <3> SUFFICES ASSUME p.file = selected, disk[p.file] # None
                 PROVE  \/ p.change \in missed' \/ disk[p.file] \in seen'
                        \/ \E g \in gets' : g.file = p.file /\ ~g.answered
      BY <1>2, <1>6 DEF Arrived, Latest
    <3>2. disk[p.file] \in Contents /\ p.file \in Files
      BY <1>1 DEF FilesTypeOK, EventPayloads
    <3>3. CASE p.content.size \in {"small", "large"}
      <4>1. p.content = disk[p.file]
        BY <3>1, <3>3 DEF Carried, NoContent, Content
      <4>2. seen' = Saw(p.file, p.content)
        BY <1>3, <2>2, <3>3 DEF Deliver
      <4> QED BY <4>1, <4>2 DEF Saw
    <3>4. CASE p.content.size \notin {"small", "large"}
      <4>1. CASE p.kind = "modified"
        <5> DEFINE new == [file |-> p.file, answered |-> FALSE, answer |-> NoContent]
        <5>1. gets' = gets \cup {new}
          BY <1>3, <2>2, <3>4, <4>1 DEF Deliver, StartGet
        <5>2. new.file = p.file /\ new.answered = FALSE
          OBVIOUS
        <5> HIDE DEF new
        <5> QED BY <5>1, <5>2
      <4>2. CASE p.kind = "created"
        BY <1>3, <2>2, <3>4, <4>2 DEF Deliver
      <4> QED BY <3>1, <4>1, <4>2 DEF EventPayloads
    <3> QED BY <3>3, <3>4
  <2> QED BY <2>1, <2>2
<1> QED BY <1>2, <1>4, <1>5, <1>6, WireShortens

LEMMA NextArrivalInv == ArrivalInv /\ [FilesNext]_filesVars => ArrivalInv'
<1> SUFFICES ASSUME ArrivalInv, [FilesNext]_filesVars PROVE ArrivalInv'
  OBVIOUS
<1>1. FilesTypeOK /\ FilesTypeOK'
  BY FilesTypesStay DEF ArrivalInv
<1>2. ASSUME NEW f \in Files, AgentWrites(f) \/ AgentDeletes(f) PROVE ArrivalInv'
  BY <1>1, <1>2, ChangeStep
<1>3. CASE SaveSessionFile
  <2>1. saving.file \in Files
    BY <1>1, <1>3 DEF SaveSessionFile, FilesTypeOK, Saves
  <2> QED BY <1>1, <1>3, <2>1, ChangeStep
<1>4. CASE WatcherLoop
  BY <1>1, <1>4, TakeStep, ReadStep, PublishStep DEF WatcherLoop
<1>5. CASE Deliver \/ DropPayload
  BY <1>1, <1>5, WireStep
<1>6. ASSUME NEW f \in Files, SelectFile(f) \/ Cool(f) PROVE ArrivalInv'
  BY <1>1, <1>6, BrowserStays
<1>7. ASSUME NEW g \in gets, GetSessionFile(g) \/ GetAnswered(g) PROVE ArrivalInv'
  BY <1>1, <1>7, BrowserStays
<1>8. CASE Frame \/ TreePolling \/ Type \/ Save \/ SaveSucceeded \/ SaveFailed \/ UNCHANGED filesVars
  BY <1>1, <1>8, BrowserStays
<1> QED BY <1>2, <1>3, <1>4, <1>5, <1>6, <1>7, <1>8 DEF FilesNext, ServerNext, EditorNext

LEMMA InvArrives == ArrivalInv => LastChangeArrives
<1> SUFFICES ASSUME ArrivalInv, NEW f \in Files \ Unwatched, Quiet(f)
             PROVE  /\ rows[f] = IF disk[f] = None THEN None ELSE disk[f].size
                    /\ (f = selected /\ disk[f] # None /\ \A g \in gets : g.file # f)
                           => disk[f] \in seen \/ latest[f] \in missed
  BY DEF LastChangeArrives
<1>1. latest[f] \notin swallowed /\ \A e \in Waiting \cup Handled \cup OnWire : e.file # f
  BY DEF Quiet, Waiting, Handled, OnWire, Elements
<1>2. Through(f)
  BY <1>1 DEF ArrivalInv, Placed
<1> QED BY <1>1, <1>2 DEF Through, Arrived, SizeOf

(* LastChangeArrives: once nothing of a watched file is under way, its row *)
(* is that of the disk and its content was in the editor if it is the      *)
(* selected file, unless its last change was passed over or dropped (for   *)
(* the editor: or its content could not be got), whatever the loop reads   *)
(* late and however answers and payloads overtake each other               *)
(* (main.rs:1043-1167, file.ts:137-224).                                   *)
THEOREM LastChangeGetsThrough == FilesSpec => []LastChangeArrives
<1>1. FilesSpec => []ArrivalInv
  BY InitArrivalInv, NextArrivalInv, PTL DEF FilesSpec
<1> QED BY <1>1, InvArrives, PTL

-----------------------------------------------------------------------------
(* plan-edits.json of a plan: what concurrent posts leave in it.           *)
Edit == (Posts \cup {"old"}) \X {1, 2}
\* What the replacements in K brought, of the first n posts of m.
Share(w, m, K, i) == IF i \in K THEN w[m[i]] ELSE <<>>
Brought(w, m, K, n) == FlattenSeq([i \in 1 .. n |-> Share(w, m, K, i)])
Brings(w, m, n, S) == \A i \in 1 .. n : w[m[i]] \in Seq(S)
LEMMA BroughtNothing == ASSUME NEW w, NEW m, NEW K PROVE Brought(w, m, K, 0) = <<>>
<1>1. [i \in 1 .. 0 |-> Share(w, m, K, i)] = <<>>
  OBVIOUS
<1>2. Len(<<>>) = 0
  OBVIOUS
<1> QED BY <1>1, <1>2 DEF Brought, FlattenSeq

LEMMA BroughtOneMore ==
    ASSUME NEW w, NEW m, NEW K, NEW n \in Nat, NEW S, Share(w, m, K, n + 1) \in Seq(S)
    PROVE  Brought(w, m, K, n + 1) = Brought(w, m, K, n) \o Share(w, m, K, n + 1)
<1>1. PICK s : s = [i \in 1 .. n |-> Share(w, m, K, i)]
  OBVIOUS
<1>2. PICK t : t = [i \in 1 .. n + 1 |-> Share(w, m, K, i)]
  OBVIOUS
<1>3. Brought(w, m, K, n) = FlattenSeq(s) /\ Brought(w, m, K, n + 1) = FlattenSeq(t)
  BY <1>1, <1>2 DEF Brought
<1>4. t[n + 1] = Share(w, m, K, n + 1)
  <2>1. n + 1 \in 1 .. n + 1
    OBVIOUS
  <2> QED BY <1>2, <2>1
<1>5. CASE n = 0
  <2>1. t = <<Share(w, m, K, n + 1)>>
    BY <1>2, <1>4, <1>5
  <2>2. Brought(w, m, K, n) = <<>>
    BY <1>5, BroughtNothing
  <2>3. <<>> \o Share(w, m, K, n + 1) = Share(w, m, K, n + 1)
    BY ConcatEmptySeq
  <2> QED BY <1>3, <2>1, <2>2, <2>3, FlattenOne
<1>6. CASE n # 0
  <2>1. Len(s) = n /\ Len(t) = n + 1 /\ \A i \in 1 .. n : t[i] = s[i]
    BY <1>1, <1>2
  <2>2. LongerByOne(s, t, n)
    BY <1>6, <2>1 DEF LongerByOne, Agree
  <2> QED BY <1>3, <1>4, <2>2, FlattenLonger
<1> QED BY <1>5, <1>6

Somewhere(x, w, m, K, n) == \E i \in 1 .. n : i \in K /\ x \in ToSet(w[m[i]])

\* It is a sequence of what those posts brought, and of nothing else.
LEMMA BroughtElements ==
    ASSUME NEW w, NEW m, NEW K, NEW S, NEW n \in Nat, Brings(w, m, n, S)
    PROVE  /\ Brought(w, m, K, n) \in Seq(S)
           /\ \A x : x \in ToSet(Brought(w, m, K, n)) <=> Somewhere(x, w, m, K, n)
<1> DEFINE Good(k) == /\ Brought(w, m, K, k) \in Seq(S)
                      /\ \A x : x \in ToSet(Brought(w, m, K, k)) <=> Somewhere(x, w, m, K, k)
           T == {k \in Nat : k <= n => Good(k)}
<1>1. 0 \in T
  <2>1. <<>> \in Seq(S) /\ ToSet(<<>>) = {}
    BY DEF ToSet
  <2>2. \A x : ~Somewhere(x, w, m, K, 0)
    BY DEF Somewhere
  <2> QED BY <2>1, <2>2, BroughtNothing
<1>2. ASSUME NEW k \in Nat, k \in T PROVE k + 1 \in T
  <2>1. SUFFICES ASSUME k + 1 <= n PROVE Good(k + 1)
    OBVIOUS
  <2>2. Good(k)
    BY <1>2, <2>1
  <2>3. k + 1 \in 1 .. n
    BY <2>1
  <2>4. w[m[k + 1]] \in Seq(S)
    BY <2>3 DEF Brings
  <2>5. Share(w, m, K, k + 1) \in Seq(S)
    BY <2>4 DEF Share
  <2>6. Brought(w, m, K, k + 1) = Brought(w, m, K, k) \o Share(w, m, K, k + 1)
    BY <2>5, BroughtOneMore
  <2>7. Brought(w, m, K, k + 1) \in Seq(S)
    BY <2>2, <2>5, <2>6, ConcatProperties
  <2>8. ASSUME NEW x PROVE x \in ToSet(Brought(w, m, K, k + 1)) <=> Somewhere(x, w, m, K, k + 1)
    <3>1. x \in ToSet(Brought(w, m, K, k + 1)) <=> x \in ToSet(Brought(w, m, K, k)) \/ x \in ToSet(Share(w, m, K, k + 1))
      BY <2>2, <2>5, <2>6, ElementsOfConcat
    <3>2. x \in ToSet(Share(w, m, K, k + 1)) <=> k + 1 \in K /\ x \in ToSet(w[m[k + 1]])
      <4>1. ToSet(<<>>) = {}
        BY DEF ToSet
      <4> QED BY <4>1 DEF Share
    <3>3. x \in ToSet(Brought(w, m, K, k)) <=> Somewhere(x, w, m, K, k)
      BY <2>2
    <3>4. Somewhere(x, w, m, K, k + 1) <=> Somewhere(x, w, m, K, k) \/ (k + 1 \in K /\ x \in ToSet(w[m[k + 1]]))
      <4>1. \A i : i \in 1 .. k + 1 <=> i \in 1 .. k \/ i = k + 1
        OBVIOUS
      <4> QED BY <4>1 DEF Somewhere
    <3> QED BY <3>1, <3>2, <3>3, <3>4
  <2> QED BY <2>7, <2>8
<1>3. Nat \subseteq T
  <2> HIDE DEF T
  <2> QED BY <1>1, <1>2, NatSet
<1>4. n \in T /\ n <= n
  BY <1>3
<1> QED BY <1>4

\* Replacements that brought nothing more change nothing.
LEMMA BroughtNoMore ==
    ASSUME NEW w, NEW m, NEW K, NEW S, NEW k \in Nat, NEW n \in Nat, k <= n, K \subseteq 1 .. k, Brings(w, m, n, S)
    PROVE  Brought(w, m, K, n) = Brought(w, m, K, k)
<1> DEFINE T == {d \in Nat : k + d <= n => Brought(w, m, K, k + d) = Brought(w, m, K, k)}
<1>1. 0 \in T
  OBVIOUS
<1>2. ASSUME NEW d \in Nat, d \in T PROVE d + 1 \in T
  <2>1. SUFFICES ASSUME k + (d + 1) <= n PROVE Brought(w, m, K, k + (d + 1)) = Brought(w, m, K, k)
    OBVIOUS
  <2>2. PICK l \in Nat : l = k + d /\ l + 1 = k + (d + 1) /\ l <= n
    BY <2>1
  <2>3. l + 1 \notin 1 .. k
    BY <2>2
  <2>4. Share(w, m, K, l + 1) = <<>>
    BY <2>3 DEF Share
  <2>5. Brought(w, m, K, l + 1) = Brought(w, m, K, l) \o <<>>
    <3>1. <<>> \in Seq(S)
      OBVIOUS
    <3>2. Share(w, m, K, l + 1) \in Seq(S)
      BY <2>4, <3>1
    <3> QED BY <2>4, <3>2, BroughtOneMore
  <2>6. Brought(w, m, K, l) \in Seq(S)
    <3>1. Brings(w, m, l, S)
      <4>1. \A i \in 1 .. l : i \in 1 .. n
        BY <2>2
      <4> QED BY <4>1 DEF Brings
    <3> QED BY <3>1, BroughtElements
  <2>7. Brought(w, m, K, l) = Brought(w, m, K, k)
    BY <1>2, <2>2
  <2> QED BY <2>2, <2>5, <2>6, <2>7, ConcatEmptySeq
<1>3. Nat \subseteq T
  <2> HIDE DEF T
  <2> QED BY <1>1, <1>2, NatSet
<1>4. n - k \in Nat /\ k + (n - k) = n /\ n <= n
  OBVIOUS
<1> QED BY <1>3, <1>4

SameParts(w, m, K, x, L, n) == \A i \in 1 .. n : Share(w, m, K, i) = Share(w, x, L, i)

LEMMA BroughtSame ==
    ASSUME NEW w, NEW m, NEW K, NEW x, NEW L, NEW n \in Nat, SameParts(w, m, K, x, L, n)
    PROVE  Brought(w, m, K, n) = Brought(w, x, L, n)
<1>1. [i \in 1 .. n |-> Share(w, m, K, i)] = [i \in 1 .. n |-> Share(w, x, L, i)]
  BY DEF SameParts
<1> QED BY <1>1 DEF Brought
-----------------------------------------------------------------------------
\* What is left in a file of what the first n replacements wrote: its first
\* edits and what those in K brought, and the others were written over by a
\* post that had read the file before.
LostLater(m, s, K, n) == \A i \in (1 .. n) \ K : \E j \in i + 1 .. n : s[m[j]] < i
Left(first, w, m, s, e, K, n) ==
    /\ K \subseteq 1 .. n
    /\ e = first \o Brought(w, m, K, n)
    /\ LostLater(m, s, K, n)
IsLeft(first, w, m, s, e, n) == \E K : Left(first, w, m, s, e, K, n)

\* What a post between its read and its rename has in hand.
Carries(r, first, w, m, s, p) ==
    /\ r.pc \in {"merge", "rename"} => r.since <= Len(m)
    /\ r.pc = "merge" => IsLeft(first, w, m, s, r.text.edits, r.since)
    /\ r.pc = "rename" => \E e : IsLeft(first, w, m, s, e, r.since) /\ r.text.edits = e \o w[p]

\* x goes on where m ends, and the posts of m had read what they had read.
GoesOn(m, x, s, z) ==
    /\ m \in Seq(Posts) /\ x \in Seq(Posts) /\ Len(m) <= Len(x)
    /\ \A i \in 1 .. Len(m) : x[i] = m[i] /\ z[m[i]] = s[m[i]]

LEMMA LeftStays ==
    ASSUME NEW first, NEW w, NEW m, NEW s, NEW e, NEW n \in Nat, NEW x, NEW z,
           IsLeft(first, w, m, s, e, n), GoesOn(m, x, s, z), n <= Len(m)
    PROVE  IsLeft(first, w, x, z, e, n)
<1>1. PICK K : Left(first, w, m, s, e, K, n)
  BY DEF IsLeft
<1>2. PICK l \in Nat : l = Len(m) /\ n <= l
  BY DEF GoesOn
<1>3. \A i \in 1 .. n : x[i] = m[i] /\ z[x[i]] = s[m[i]]
  BY <1>2 DEF GoesOn
<1>4. Brought(w, m, K, n) = Brought(w, x, K, n)
  <2>1. SameParts(w, m, K, x, K, n)
    BY <1>3 DEF SameParts, Share
  <2> QED BY <2>1, BroughtSame
<1>5. LostLater(x, z, K, n)
  <2> SUFFICES ASSUME NEW i \in (1 .. n) \ K PROVE \E j \in i + 1 .. n : z[x[j]] < i
    BY DEF LostLater
  <2>1. PICK j \in i + 1 .. n : s[m[j]] < i
    BY <1>1 DEF Left, LostLater
  <2>2. j \in 1 .. n
    OBVIOUS
  <2> QED BY <1>3, <2>1, <2>2
<1>6. Left(first, w, x, z, e, K, n)
  BY <1>1, <1>4, <1>5 DEF Left
<1> QED BY <1>6 DEF IsLeft

LEMMA CarriesStays ==
    ASSUME NEW first, NEW w, NEW m, NEW s, NEW x, NEW z, NEW r, NEW p, r.since \in Nat,
           Carries(r, first, w, m, s, p), GoesOn(m, x, s, z)
    PROVE  Carries(r, first, w, x, z, p)
<1>1. PICK l \in Nat : l = Len(m)
  BY DEF GoesOn
<1>2. PICK k \in Nat : k = Len(x) /\ l <= k
  BY <1>1 DEF GoesOn
<1>3. r.pc \in {"merge", "rename"} => r.since <= Len(x)
  BY <1>1, <1>2 DEF Carries
<1>4. r.pc = "merge" => IsLeft(first, w, x, z, r.text.edits, r.since)
  BY LeftStays DEF Carries
<1>5. ASSUME r.pc = "rename" PROVE \E e : IsLeft(first, w, x, z, e, r.since) /\ r.text.edits = e \o w[p]
  <2>1. PICK e : IsLeft(first, w, m, s, e, r.since) /\ r.text.edits = e \o w[p]
    BY <1>5 DEF Carries
  <2>2. r.since <= Len(m)
    BY <1>5 DEF Carries
  <2>3. IsLeft(first, w, x, z, e, r.since)
    BY <2>1, <2>2, LeftStays
  <2> QED BY <2>1, <2>3
<1> QED BY <1>3, <1>4, <1>5 DEF Carries

LEMMA EditsConcat ==
    ASSUME NEW s \in Seq(Edit), NEW t \in Seq(Edit), NEW u \in Seq(Edit)
    PROVE  (s \o t) \o u = s \o (t \o u)
BY ConcatAssociative

\* The n-th replacement is by a post that had read the file after k others.
LEMMA LeftAfterRename ==
    ASSUME NEW first, NEW w, NEW m, NEW s, NEW e, NEW k \in Nat, NEW p \in Posts, NEW x, NEW z,
           IsLeft(first, w, m, s, e, k), GoesOn(m, x, s, z), k <= Len(m), x = Append(m, p), z[p] = k,
           first \in Seq(Edit), \A q \in Posts : w[q] \in Seq(Edit)
    PROVE  IsLeft(first, w, x, z, e \o w[p], Len(x))
<1>1. PICK n \in Nat : n = Len(m)
  BY DEF GoesOn
<1>2. Len(x) = n + 1 /\ x[n + 1] = p /\ m \in Seq(Posts) /\ x \in Seq(Posts)
  BY <1>1, AppendProperties DEF GoesOn
<1>3. PICK K : Left(first, w, x, z, e, K, k)
  BY LeftStays DEF IsLeft
<1> DEFINE L == K \cup {n + 1}
<1>4. K \subseteq 1 .. k /\ k <= n
  BY <1>1, <1>3 DEF Left
<1>5. Brings(w, x, n + 1, Edit)
  <2>1. \A i \in 1 .. n + 1 : x[i] \in Posts
    BY <1>2
  <2> QED BY <2>1 DEF Brings
<1>6. Brings(w, x, n, Edit) /\ Brings(w, x, k, Edit)
  <2>1. \A i : (i \in 1 .. n => i \in 1 .. n + 1) /\ (i \in 1 .. k => i \in 1 .. n + 1)
    BY <1>4
  <2> QED BY <1>5, <2>1 DEF Brings
<1>7. Brought(w, x, L, n) = Brought(w, x, K, k)
  <2>1. SameParts(w, x, L, x, K, n)
    <3>1. \A i \in 1 .. n : i \in L <=> i \in K
      OBVIOUS
    <3> HIDE DEF L
    <3> QED BY <3>1 DEF SameParts, Share
  <2>2. Brought(w, x, L, n) = Brought(w, x, K, n)
    <3> HIDE DEF L
    <3> QED BY <2>1, BroughtSame
  <2>3. Brought(w, x, K, n) = Brought(w, x, K, k)
    BY <1>4, <1>6, BroughtNoMore
  <2> QED BY <2>2, <2>3
<1>8. Share(w, x, L, n + 1) = w[p] /\ w[p] \in Seq(Edit)
  BY <1>2 DEF Share
<1>9. Brought(w, x, L, n + 1) = Brought(w, x, K, k) \o w[p]
  <2> HIDE DEF L
  <2> QED BY <1>7, <1>8, BroughtOneMore
<1>10. e \o w[p] = first \o Brought(w, x, L, n + 1)
  <2>1. Brought(w, x, K, k) \in Seq(Edit)
    BY <1>6, BroughtElements
  <2>2. PICK b \in Seq(Edit) : b = Brought(w, x, K, k)
    BY <2>1
  <2>3. PICK c \in Seq(Edit) : c = w[p]
    BY <1>8
  <2>4. (first \o b) \o c = first \o (b \o c)
    BY EditsConcat
  <2> HIDE DEF L
  <2> QED BY <1>3, <1>9, <2>2, <2>3, <2>4 DEF Left
<1>11. LostLater(x, z, L, n + 1)
  <2> SUFFICES ASSUME NEW i \in (1 .. n + 1) \ L PROVE \E j \in i + 1 .. n + 1 : z[x[j]] < i
    BY DEF LostLater
  <2>1. i \in 1 .. n /\ i \notin K
    OBVIOUS
  <2>2. CASE i <= k
    <3>1. i \in (1 .. k) \ K
      BY <2>1, <2>2
    <3>2. PICK j \in i + 1 .. k : z[x[j]] < i
      BY <1>3, <3>1 DEF Left, LostLater
    <3>3. j \in i + 1 .. n + 1
      BY <1>4
    <3> HIDE DEF L
    <3> QED BY <3>2, <3>3
  <2>3. CASE i > k
    <3>1. n + 1 \in i + 1 .. n + 1 /\ z[x[n + 1]] < i
      BY <1>2, <2>1, <2>3
    <3> HIDE DEF L
    <3> QED BY <3>1
  <2>4. i <= k \/ i > k
    BY <2>1
  <2> QED BY <2>2, <2>3, <2>4
<1>12. L \subseteq 1 .. n + 1
  BY <1>4
<1>13. Left(first, w, x, z, e \o w[p], L, n + 1)
  <2> HIDE DEF L
  <2> QED BY <1>10, <1>11, <1>12 DEF Left
<1> QED BY <1>2, <1>13 DEF IsLeft
-----------------------------------------------------------------------------
EditsText == [shape : FileShapes \cup {"none"}, edits : Seq(Edit)]
PostState == [pc : {"idle", "merge", "rename", "publish", "done"}, text : EditsText, since : Nat]

EditsTypeOK ==
    /\ payload \in [Posts -> Payloads]
    /\ post \in [Posts -> PostState]
    /\ editsFile \in EditsText
    /\ firstEdits \in Seq(Edit)
    /\ merged \in Seq(Posts)

Work == [p \in Posts |-> IncomingEdits(p)]
Since == [p \in Posts |-> post[p].since]
Renamed(r) == r.pc \in {"publish", "done"}
MergedOnce(m, ps) ==
    /\ \A i \in 1 .. Len(m) : Renamed(ps[m[i]])
    /\ \A i, k \in 1 .. Len(m) : m[i] = m[k] => i = k

EditsInv ==
    /\ EditsTypeOK
    /\ \A x \in ToSet(firstEdits) : x[1] \notin Posts
    /\ \A p \in Posts : Carries(post[p], firstEdits, Work, merged, Since, p)
    /\ MergedOnce(merged, post)
    /\ IsLeft(firstEdits, Work, merged, Since, editsFile.edits, Len(merged))

LEMMA WorkIsEdits == ASSUME EditsInv, NEW p \in Posts PROVE IncomingEdits(p) \in Seq(Edit) /\ Work[p] = IncomingEdits(p)
<1>1. <<p, 1>> \in Edit /\ <<p, 2>> \in Edit
  BY DEF Edit
<1>2. <<<<p, 1>>, <<p, 2>>>> \in Seq(Edit) /\ <<<<p, 1>>>> \in Seq(Edit) /\ <<>> \in Seq(Edit)
  BY <1>1
<1>3. IncomingEdits(p) \in Seq(Edit)
  <2>1. payload[p] \in Payloads
    BY DEF EditsInv, EditsTypeOK
  <2> QED BY <1>2, <2>1 DEF IncomingEdits, Payloads
<1> QED BY <1>3 DEF Work

LEMMA WorkStays == payload' = payload => Work' = Work
BY DEF Work, IncomingEdits

LEMMA StartEditsInv == EditsInit => EditsInv
<1> SUFFICES ASSUME EditsInit PROVE EditsInv
  OBVIOUS
<1>1. NoFile \in EditsText
  BY DEF NoFile, EditsText
<1>2. <<<<"old", 1>>>> \in Seq(Edit) /\ <<>> \in Seq(Edit)
  <2>1. <<"old", 1>> \in Edit
    BY DEF Edit
  <2> QED BY <2>1
<1>3. editsFile \in EditsText
  <2>1. CASE editsFile = NoFile
    BY <1>1, <2>1
  <2>2. CASE editsFile # NoFile
    <3>1. PICK h \in FileShapes :
              editsFile = [shape |-> h, edits |-> IF h \in {"object", "list"} THEN <<<<"old", 1>>>> ELSE <<>>]
      BY <2>2 DEF EditsInit
    <3> QED BY <1>2, <3>1 DEF EditsText
  <2> QED BY <2>1, <2>2
<1>4. firstEdits = <<>> \/ firstEdits = <<<<"old", 1>>>>
  BY DEF EditsInit, NoFile
<1>5. \A x \in ToSet(firstEdits) : x[1] \notin Posts
  BY <1>4, PostsAssumption DEF ToSet
<1>6. EditsTypeOK
  <2>1. NoPost \in PostState
    BY <1>1 DEF NoPost, PostState
  <2>2. firstEdits \in Seq(Edit)
    BY <1>2, <1>4
  <2>3. merged \in Seq(Posts)
    BY DEF EditsInit
  <2> QED BY <1>3, <2>1, <2>2, <2>3 DEF EditsTypeOK, EditsInit
<1>7. \A p \in Posts : Carries(post[p], firstEdits, Work, merged, Since, p)
  BY DEF EditsInit, Carries, NoPost
<1>8. MergedOnce(merged, post)
  BY DEF EditsInit, MergedOnce
<1>9. IsLeft(firstEdits, Work, merged, Since, editsFile.edits, Len(merged))
  <2>1. Brought(Work, merged, {}, 0) = <<>>
    BY BroughtNothing
  <2>2. firstEdits \o <<>> = firstEdits
    BY <1>6, ConcatEmptySeq DEF EditsTypeOK
  <2>3. Len(merged) = 0
    BY DEF EditsInit
  <2>4. Left(firstEdits, Work, merged, Since, editsFile.edits, {}, 0)
    <3>1. LostLater(merged, Since, {}, 0)
      BY DEF LostLater
    <3>2. editsFile.edits = firstEdits
      BY DEF EditsInit
    <3> QED BY <2>1, <2>2, <3>1, <3>2 DEF Left
  <2> QED BY <2>3, <2>4 DEF IsLeft
<1> QED BY <1>5, <1>6, <1>7, <1>8, <1>9 DEF EditsInv

\* What a post does that changes no file.
LeavesFile(r, t, first, w, m, s, p) ==
    /\ t \in PostState
    /\ Renamed(r) => Renamed(t) /\ t.since = r.since
    /\ Carries(t, first, w, m, s, p)

LEMMA QuietStep ==
    ASSUME EditsInv, UNCHANGED <<payload, editsFile, firstEdits, merged>>,
           post' = [p \in Posts |-> post'[p]],
           \A p \in Posts : LeavesFile(post[p], post'[p], firstEdits, Work, merged, Since, p)
    PROVE  EditsInv'
<1>1. PICK m, s, z, w, ps, pz : /\ m = merged /\ s = Since /\ z = Since' /\ w = Work
                                /\ ps = post /\ pz = post'
  OBVIOUS
<1>2. Work' = w
  <2>1. payload' = payload
    OBVIOUS
  <2>2. Work' = Work
    BY <2>1, WorkStays
  <2> QED BY <1>1, <2>2
<1>3. EditsTypeOK'
  BY DEF EditsInv, EditsTypeOK, LeavesFile
<1>4. m \in Seq(Posts)
  BY <1>1 DEF EditsInv, EditsTypeOK
<1>5. \A i \in 1 .. Len(m) : m[i] \in Posts /\ Renamed(ps[m[i]])
  <2>1. \A i \in 1 .. Len(m) : m[i] \in Posts
    BY <1>4
  <2> QED BY <1>1, <2>1 DEF EditsInv, MergedOnce
<1>6. \A p \in Posts : s[p] = ps[p].since /\ z[p] = pz[p].since
  BY <1>1 DEF Since
<1>7. \A p \in Posts : Renamed(ps[p]) => Renamed(pz[p]) /\ pz[p].since = ps[p].since
  BY <1>1 DEF LeavesFile
<1>8. GoesOn(m, m, s, z)
  BY <1>4, <1>5, <1>6, <1>7 DEF GoesOn
<1>9. MergedOnce(m, pz)
  <2>1. MergedOnce(m, ps)
    BY <1>1 DEF EditsInv
  <2> QED BY <1>5, <1>7, <2>1 DEF MergedOnce
<1>10. ASSUME NEW p \in Posts PROVE Carries(pz[p], firstEdits, w, m, z, p)
  <2>1. PICK r : r = pz[p]
    OBVIOUS
  <2>2. r.since \in Nat /\ Carries(r, firstEdits, w, m, s, p)
    BY <1>1, <2>1 DEF LeavesFile, PostState
  <2> QED BY <1>8, <2>1, <2>2, CarriesStays
<1>11. IsLeft(firstEdits, w, m, z, editsFile.edits, Len(m))
  <2>1. PICK l \in Nat : l = Len(m)
    BY <1>4
  <2>2. IsLeft(firstEdits, w, m, s, editsFile.edits, l) /\ l <= Len(m)
    BY <1>1, <2>1 DEF EditsInv
  <2> QED BY <1>8, <2>1, <2>2, LeftStays
<1> QED BY <1>1, <1>2, <1>3, <1>9, <1>10, <1>11 DEF EditsInv

LEMMA AnswerIsQuiet ==
    ASSUME EditsInv, NEW p \in Posts
    PROVE  LeavesFile(post[p], Answered(p), firstEdits, Work, merged, Since, p)
<1>1. PICK r \in PostState : r = post[p]
  BY DEF EditsInv, EditsTypeOK
<1>2. PICK t : t = [r EXCEPT !.pc = "done", !.text = NoFile]
  OBVIOUS
<1>3. NoFile \in EditsText
  BY DEF NoFile, EditsText
<1>4. t \in PostState /\ t.pc = "done" /\ t.since = r.since
  BY <1>2, <1>3 DEF PostState
<1>5. Carries(t, firstEdits, Work, merged, Since, p)
  BY <1>4 DEF Carries
<1> QED BY <1>1, <1>2, <1>4, <1>5 DEF LeavesFile, Renamed, Answered

LEMMA StayIsQuiet ==
    ASSUME EditsInv, NEW p \in Posts
    PROVE  LeavesFile(post[p], post[p], firstEdits, Work, merged, Since, p)
BY DEF EditsInv, EditsTypeOK, LeavesFile

\* A step of one post that changes no file.
LEMMA OneQuiet ==
    ASSUME EditsInv, NEW p \in Posts, NEW t, post' = [post EXCEPT ![p] = t],
           UNCHANGED <<payload, editsFile, firstEdits, merged>>,
           LeavesFile(post[p], t, firstEdits, Work, merged, Since, p)
    PROVE  EditsInv'
<1>1. post' = [q \in Posts |-> post'[q]]
  BY DEF EditsInv, EditsTypeOK
<1>2. \A q \in Posts : post'[q] = IF q = p THEN t ELSE post[q]
  BY DEF EditsInv, EditsTypeOK
<1>3. \A q \in Posts : LeavesFile(post[q], post'[q], firstEdits, Work, merged, Since, q)
  BY <1>2, StayIsQuiet
<1> QED BY <1>1, <1>3, QuietStep

LEMMA ReadEditsKeeps == ASSUME EditsInv, NEW p \in Posts, ReadEdits(p) PROVE EditsInv'
<1>1. PICK t : t = [pc |-> "merge", text |-> editsFile, since |-> Len(merged)]
  OBVIOUS
<1>2. Len(merged) \in Nat
  BY DEF EditsInv, EditsTypeOK
<1>3. t \in PostState
  BY <1>1, <1>2 DEF EditsInv, EditsTypeOK, PostState
<1>4. ~Renamed(post[p])
  BY DEF ReadEdits, Renamed
<1>5. Carries(t, firstEdits, Work, merged, Since, p)
  <2>1. t.pc = "merge" /\ t.text.edits = editsFile.edits /\ t.since = Len(merged)
    BY <1>1
  <2> QED BY <1>2, <2>1 DEF EditsInv, Carries
<1>6. LeavesFile(post[p], t, firstEdits, Work, merged, Since, p)
  BY <1>3, <1>4, <1>5 DEF LeavesFile
<1> QED BY <1>1, <1>6, OneQuiet DEF ReadEdits

LEMMA MergeEditsKeeps == ASSUME EditsInv, NEW p \in Posts, MergeEdits(p) PROVE EditsInv'
<1>1. CASE Answer(p)
  BY <1>1, AnswerIsQuiet, OneQuiet DEF MergeEdits, Answer
<1>2. CASE post' = [post EXCEPT ![p].pc = "rename", ![p].text = MergePayloads(@, p)]
  <2>1. PICK r \in PostState : r = post[p]
    BY DEF EditsInv, EditsTypeOK
  <2>2. PICK g : g = MergePayloads(r.text, p)
    OBVIOUS
  <2>3. PICK t : t = [pc |-> "rename", text |-> g, since |-> r.since]
    OBVIOUS
  <2>4. r.text.edits \in Seq(Edit) /\ r.since \in Nat /\ r.pc = "merge"
    BY <2>1 DEF PostState, EditsText, MergeEdits
  <2>5. g.edits = r.text.edits \o Work[p] /\ g \in EditsText
    <3>1. r.text.edits \o IncomingEdits(p) \in Seq(Edit)
      BY <2>4, WorkIsEdits, ConcatProperties
    <3> QED BY <2>2, <3>1, WorkIsEdits DEF MergePayloads, EditsText, FileShapes
  <2>6. t \in PostState
    BY <2>3, <2>4, <2>5 DEF PostState
  <2>7. Carries(r, firstEdits, Work, merged, Since, p)
    BY <2>1 DEF EditsInv
  <2>8. Carries(t, firstEdits, Work, merged, Since, p)
    <3>1. IsLeft(firstEdits, Work, merged, Since, r.text.edits, r.since) /\ r.since <= Len(merged)
      BY <2>4, <2>7 DEF Carries
    <3>2. t.pc = "rename" /\ t.text = g /\ t.since = r.since
      BY <2>3
    <3> QED BY <2>5, <3>1, <3>2 DEF Carries
  <2>9. LeavesFile(post[p], t, firstEdits, Work, merged, Since, p)
    BY <2>1, <2>4, <2>6, <2>8 DEF LeavesFile, Renamed
  <2>10. post' = [post EXCEPT ![p] = t]
    <3>1. post \in [Posts -> PostState]
      BY DEF EditsInv, EditsTypeOK
    <3>2. t = [r EXCEPT !.pc = "rename", !.text = g]
      <4>1. PICK v : v = [r EXCEPT !.pc = "rename"]
        OBVIOUS
      <4>2. v = [pc |-> "rename", text |-> r.text, since |-> r.since]
        BY <4>1 DEF PostState
      <4>3. [v EXCEPT !.text = g] = t
        BY <2>3, <4>2
      <4> QED BY <4>1, <4>3
    <3>3. post'[p] = [r EXCEPT !.pc = "rename", !.text = g]
      BY <1>2, <2>1, <2>2, <3>1
    <3>4. \A q \in Posts : q # p => post'[q] = post[q]
      BY <1>2, <3>1
    <3>5. post' = [q \in Posts |-> post'[q]]
      BY <1>2, <3>1
    <3> QED BY <3>1, <3>2, <3>3, <3>4, <3>5
  <2> QED BY <2>9, <2>10, OneQuiet DEF MergeEdits
<1> QED BY <1>1, <1>2 DEF MergeEdits

LEMMA LosePostsKeeps == ASSUME EditsInv, LosePosts PROVE EditsInv'
<1>1. post' = [p \in Posts |-> post'[p]]
  BY DEF LosePosts
<1>2. \A p \in Posts : post'[p] = IF post[p].pc = "idle" THEN NoPost ELSE Answered(p)
  BY DEF LosePosts
<1>3. NoPost \in PostState
  BY DEF NoPost, PostState, NoFile, EditsText
<1>4. ASSUME NEW p \in Posts PROVE LeavesFile(post[p], post'[p], firstEdits, Work, merged, Since, p)
  <2>1. CASE post[p].pc = "idle"
    <3>1. post'[p] = NoPost /\ NoPost.pc = "idle"
      BY <1>2, <2>1 DEF NoPost
    <3>2. Carries(NoPost, firstEdits, Work, merged, Since, p)
      BY <3>1 DEF Carries
    <3> QED BY <1>3, <2>1, <3>1, <3>2 DEF LeavesFile, Renamed
  <2>2. CASE post[p].pc # "idle"
    BY <1>2, <2>2, AnswerIsQuiet
  <2> QED BY <2>1, <2>2
<1> QED BY <1>1, <1>4, QuietStep DEF LosePosts

LEMMA RenameEditsKeeps == ASSUME EditsInv, NEW p \in Posts, RenameEdits(p) PROVE EditsInv'
<1>1. CASE Answer(p) /\ UNCHANGED <<editsFile, merged>>
  BY <1>1, AnswerIsQuiet, OneQuiet DEF RenameEdits, Answer
<1>2. CASE editsFile' = post[p].text /\ merged' = Append(merged, p) /\ post' = [post EXCEPT ![p].pc = "publish"]
  <2>1. PICK m, x, s, z, w, ps, pz : /\ m = merged /\ x = merged' /\ s = Since /\ z = Since' /\ w = Work
                                     /\ ps = post /\ pz = post'
    OBVIOUS
  <2>2. PICK r \in PostState : r = ps[p]
    BY <2>1 DEF EditsInv, EditsTypeOK
  <2>3. ps \in [Posts -> PostState] /\ m \in Seq(Posts)
    BY <2>1 DEF EditsInv, EditsTypeOK
  <2>4. pz = [ps EXCEPT ![p].pc = "publish"]
    BY <1>2, <2>1
  <2>5. pz \in [Posts -> PostState] /\ \A q \in Posts : pz[q].since = ps[q].since /\ (q # p => pz[q] = ps[q])
    BY <2>3, <2>4 DEF PostState
  <2>6. pz[p].pc = "publish"
    BY <2>2, <2>3, <2>4 DEF PostState
  <2>7. x = Append(m, p) /\ x \in Seq(Posts) /\ Len(x) = Len(m) + 1 /\ x[Len(m) + 1] = p
        /\ \A i \in 1 .. Len(m) : x[i] = m[i]
    BY <1>2, <2>1, <2>3, AppendProperties
  <2>8. \A q \in Posts : s[q] = ps[q].since /\ z[q] = ps[q].since
    BY <2>1, <2>5 DEF Since
  <2>9. GoesOn(m, x, s, z)
    <3>1. \A i \in 1 .. Len(m) : m[i] \in Posts
      BY <2>3
    <3>2. Len(m) <= Len(x)
      BY <2>3, <2>7
    <3> QED BY <2>3, <2>7, <2>8, <3>1, <3>2 DEF GoesOn
  <2>10. r.pc = "rename" /\ Carries(r, firstEdits, w, m, s, p)
    BY <2>1, <2>2 DEF RenameEdits, EditsInv
  <2>11. PICK e : IsLeft(firstEdits, w, m, s, e, r.since) /\ r.text.edits = e \o w[p]
    BY <2>10 DEF Carries
  <2>12. r.since \in Nat /\ r.since <= Len(m) /\ z[p] = r.since
    BY <2>2, <2>8, <2>10 DEF Carries, PostState
  <2>13. firstEdits \in Seq(Edit) /\ \A q \in Posts : w[q] \in Seq(Edit)
    BY <2>1, WorkIsEdits DEF EditsInv, EditsTypeOK
  <2>14. IsLeft(firstEdits, w, x, z, e \o w[p], Len(x))
    BY <2>7, <2>9, <2>11, <2>12, <2>13, LeftAfterRename
  <2>15. Work' = w /\ firstEdits' = firstEdits
    <3>1. payload' = payload /\ firstEdits' = firstEdits
      BY DEF RenameEdits
    <3>2. Work' = Work
      BY <3>1, WorkStays
    <3> QED BY <2>1, <3>1, <3>2
  <2>16. EditsTypeOK'
    <3>1. r.text \in EditsText
      BY DEF PostState
    <3>2. editsFile' \in EditsText
      BY <1>2, <2>1, <2>2, <3>1
    <3> QED BY <2>1, <2>5, <2>7, <3>2 DEF EditsInv, EditsTypeOK, RenameEdits
  <2>17. MergedOnce(x, pz)
    <3>1. MergedOnce(m, ps) /\ ~Renamed(ps[p])
      BY <2>1, <2>2, <2>10 DEF EditsInv, Renamed
    <3>2. \A i \in 1 .. Len(m) : m[i] \in Posts /\ m[i] # p /\ Renamed(pz[m[i]])
      <4>1. \A i \in 1 .. Len(m) : m[i] \in Posts
        BY <2>3
      <4> QED BY <2>5, <3>1, <4>1 DEF MergedOnce
    <3>3. Renamed(pz[p])
      BY <2>6 DEF Renamed
    <3>4. \A i \in 1 .. Len(x) : i \in 1 .. Len(m) \/ i = Len(m) + 1
      BY <2>3, <2>7
    <3>5. \A i \in 1 .. Len(x) : Renamed(pz[x[i]])
      BY <2>7, <3>2, <3>3, <3>4
    <3>6. ASSUME NEW i \in 1 .. Len(x), NEW k \in 1 .. Len(x), x[i] = x[k] PROVE i = k
      <4>1. CASE i \in 1 .. Len(m) /\ k \in 1 .. Len(m)
        BY <2>7, <3>1, <3>6, <4>1 DEF MergedOnce
      <4>2. CASE i \in 1 .. Len(m) /\ k = Len(m) + 1
        BY <2>7, <3>2, <3>6, <4>2
      <4>3. CASE i = Len(m) + 1 /\ k \in 1 .. Len(m)
        BY <2>7, <3>2, <3>6, <4>3
      <4> QED BY <3>4, <4>1, <4>2, <4>3
    <3> QED BY <3>5, <3>6 DEF MergedOnce
  <2>18. ASSUME NEW q \in Posts PROVE Carries(pz[q], firstEdits, w, x, z, q)
    <3>1. CASE q = p
      BY <2>6, <3>1 DEF Carries
    <3>2. CASE q # p
      <4>1. PICK t \in PostState : t = ps[q]
        BY <2>3
      <4>2. t.since \in Nat /\ Carries(t, firstEdits, w, m, s, q)
        BY <2>1, <4>1 DEF EditsInv, PostState
      <4>3. Carries(t, firstEdits, w, x, z, q)
        BY <2>9, <4>2, CarriesStays
      <4> QED BY <2>5, <3>2, <4>1, <4>3
    <3> QED BY <3>1, <3>2
  <2>19. IsLeft(firstEdits, w, x, z, editsFile'.edits, Len(x))
    BY <1>2, <2>1, <2>2, <2>11, <2>14
  <2>20. \A y \in ToSet(firstEdits) : y[1] \notin Posts
    BY DEF EditsInv
  <2> QED BY <2>1, <2>15, <2>16, <2>17, <2>18, <2>19, <2>20 DEF EditsInv
<1> QED BY <1>1, <1>2 DEF RenameEdits

LEMMA NextEditsInv == EditsInv /\ [EditsNext]_editsVars => EditsInv'
<1> SUFFICES ASSUME EditsInv, [EditsNext]_editsVars PROVE EditsInv'
  OBVIOUS
<1>1. CASE UNCHANGED editsVars
  <2>1. UNCHANGED <<payload, post, editsFile, firstEdits, merged>>
    BY <1>1 DEF editsVars
  <2>2. post' = [p \in Posts |-> post'[p]] /\ \A p \in Posts : post'[p] = post[p]
    BY <2>1 DEF EditsInv, EditsTypeOK
  <2>3. \A p \in Posts : LeavesFile(post[p], post'[p], firstEdits, Work, merged, Since, p)
    BY <2>2, StayIsQuiet
  <2> QED BY <2>1, <2>2, <2>3, QuietStep
<1>2. ASSUME NEW p \in Posts, RefusePost(p) \/ PublishPlan(p) PROVE EditsInv'
  BY <1>2, AnswerIsQuiet, OneQuiet DEF RefusePost, PublishPlan, Answer
<1> QED BY <1>1, <1>2, ReadEditsKeeps, MergeEditsKeeps, RenameEditsKeeps, LosePostsKeeps DEF EditsNext

\* The edits a post brings are its own.
LEMMA EditsOf == ASSUME EditsInv, NEW p \in Posts, NEW x \in ToSet(IncomingEdits(p)) PROVE x[1] = p
<1>1. /\ ToSet(<<<<p, 1>>, <<p, 2>>>>) = {<<p, 1>>, <<p, 2>>}
      /\ ToSet(<<<<p, 1>>>>) = {<<p, 1>>} /\ ToSet(<<>>) = {}
  BY DEF ToSet
<1>2. ToSet(IncomingEdits(p)) \subseteq {<<p, 1>>, <<p, 2>>}
  <2>1. payload[p] \in Payloads
    BY DEF EditsInv, EditsTypeOK
  <2> QED BY <1>1, <2>1 DEF IncomingEdits, Payloads
<1> QED BY <1>2

\* Nor are they the edits the file began with.
LEMMA OwnFirst ==
    ASSUME EditsInv, NEW p \in Posts, NEW x \in ToSet(IncomingEdits(p))
    PROVE  x \notin ToSet(firstEdits)
<1>1. x[1] = p
  BY EditsOf
<1> QED BY <1>1 DEF EditsInv

LEMMA InvSurvives == EditsInv => EditsSurvive
<1> SUFFICES ASSUME EditsInv PROVE EditsSurvive
  OBVIOUS
<1>1. PICK n \in Nat : n = Len(merged)
  BY DEF EditsInv, EditsTypeOK
<1>2. PICK K : Left(firstEdits, Work, merged, Since, editsFile.edits, K, n)
  BY <1>1 DEF EditsInv, IsLeft
<1>3. DOMAIN merged = 1 .. n /\ \A i \in 1 .. n : merged[i] \in Posts
  BY <1>1 DEF EditsInv, EditsTypeOK
<1>4. Brings(Work, merged, n, Edit)
  BY <1>3, WorkIsEdits DEF Brings
<1>5. /\ Brought(Work, merged, K, n) \in Seq(Edit)
      /\ \A x : x \in ToSet(Brought(Work, merged, K, n)) <=> Somewhere(x, Work, merged, K, n)
  BY <1>4, BroughtElements
<1>6. \A x : x \in ToSet(editsFile.edits) <=> x \in ToSet(firstEdits) \/ Somewhere(x, Work, merged, K, n)
  <2>1. firstEdits \in Seq(Edit) /\ editsFile.edits = firstEdits \o Brought(Work, merged, K, n)
    BY <1>2 DEF EditsInv, EditsTypeOK, Left
  <2> QED BY <1>5, <2>1, ElementsOfConcat
<1>7. ASSUME NEW i \in 1 .. n, i \in K PROVE merged[i] \in Kept
  <2>1. merged[i] \in ToSet(merged) /\ merged[i] \in Posts
    BY <1>3 DEF ToSet
  <2>2. \A x \in ToSet(IncomingEdits(merged[i])) : Somewhere(x, Work, merged, K, n)
    BY <1>7, <2>1, WorkIsEdits DEF Somewhere
  <2> QED BY <1>6, <2>1, <2>2 DEF Kept
<1>8. ASSUME NEW i \in 1 .. n, i \notin K, merged[i] \in Kept PROVE IncomingEdits(merged[i]) = <<>>
  <2>1. PICK p \in Posts : p = merged[i]
    BY <1>3
  <2>2. ASSUME NEW x \in ToSet(IncomingEdits(p)) PROVE FALSE
    <3>1. x \in ToSet(editsFile.edits)
      BY <1>8, <2>1, <2>2 DEF Kept
    <3>2. x \notin ToSet(firstEdits)
      BY <2>1, <2>2, OwnFirst
    <3>3. Somewhere(x, Work, merged, K, n)
      BY <1>6, <3>1, <3>2
    <3>4. PICK k \in 1 .. n : k \in K /\ x \in ToSet(Work[merged[k]])
      BY <3>3 DEF Somewhere
    <3>5. merged[k] \in Posts /\ x \in ToSet(IncomingEdits(merged[k]))
      BY <1>3, <3>4, WorkIsEdits
    <3>6. merged[k] = merged[i]
      BY <2>1, <2>2, <3>5, EditsOf
    <3>7. k = i
      BY <1>1, <3>6 DEF EditsInv, MergedOnce
    <3> QED BY <1>8, <3>4, <3>7
  <2>3. PICK s \in Seq(Edit) : s = IncomingEdits(p)
    BY WorkIsEdits
  <2>4. Len(s) = 0
    <3>1. SUFFICES ASSUME Len(s) # 0 PROVE FALSE
      OBVIOUS
    <3>2. 1 \in DOMAIN s
      BY <3>1
    <3>3. s[1] \in ToSet(s)
      BY <3>2 DEF ToSet
    <3> QED BY <2>2, <2>3, <3>3
  <2> QED BY <2>1, <2>3, <2>4
<1>9. editsFile.edits = firstEdits \o
          FlattenSeq([i \in DOMAIN merged |-> IF merged[i] \in Kept THEN IncomingEdits(merged[i]) ELSE <<>>])
  <2>1. \A i \in 1 .. n : Share(Work, merged, K, i) = IF merged[i] \in Kept THEN IncomingEdits(merged[i]) ELSE <<>>
    BY <1>3, <1>7, <1>8, WorkIsEdits DEF Share
  <2>2. [i \in 1 .. n |-> Share(Work, merged, K, i)]
            = [i \in DOMAIN merged |-> IF merged[i] \in Kept THEN IncomingEdits(merged[i]) ELSE <<>>]
    BY <1>3, <2>1
  <2> QED BY <1>2, <2>2 DEF Left, Brought
<1>10. ASSUME NEW i \in DOMAIN merged, merged[i] \notin Kept PROVE \E j \in i + 1 .. Len(merged) : post[merged[j]].since < i
  <2>1. i \in (1 .. n) \ K
    BY <1>3, <1>7, <1>10
  <2>2. PICK j \in i + 1 .. n : Since[merged[j]] < i
    BY <1>2, <2>1 DEF Left, LostLater
  <2>3. j \in 1 .. n
    BY <2>1
  <2>4. Since[merged[j]] = post[merged[j]].since
    BY <1>3, <2>3 DEF Since
  <2> QED BY <1>1, <2>2, <2>4
<1> QED BY <1>9, <1>10 DEF EditsSurvive

\* The file keeps what was in it and, in the order of the replacements, what
\* the posts brought; a post's edits are only lost to a later replacement by
\* a post that had read the file before.
THEOREM EditsAreKept == EditsSpec => []EditsSurvive
<1>1. EditsSpec => []EditsInv
  BY StartEditsInv, NextEditsInv, PTL DEF EditsSpec
<1> QED BY <1>1, InvSurvives, PTL
=============================================================================
