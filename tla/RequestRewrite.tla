--------------------------- MODULE RequestRewrite ----------------------------
(***************************************************************************)
(* What the proxy does to a request body before the gate sees it           *)
(* (server/src/proxy/handler.rs, inject.rs, rewrite.rs): queued images are *)
(* put into the conversation, the session's text into the system prompt,   *)
(* and the session's overrides are applied.                                *)
(*                                                                         *)
(* A body maps paths to what is there: for a conversation or a system      *)
(* prompt a sequence of messages, for a setting whether the client or an   *)
(* override put it there.  The tool fields count as one.  The stores are   *)
(* left out: a request may find any of Configs, whoever set it.            *)
(***************************************************************************)
EXTENDS Naturals, Sequences, FiniteSets, SequencesExt, Functions

CONSTANTS
    Bodies,     \* requests with a body; each runs once
    Proxied,    \* managed sessions, which the session manager knows and the proxy path names
    Former,     \* managed sessions of an earlier run of the server
    Viewed,     \* ids of JSONL sessions; a viewer may know a session by this one
    Images,     \* images; each queued once
    Configs     \* bound: sets of overrides that a request may find

Providers == {"Anthropic", "OpenAI", "ChatGPT", "Google", "GoogleCodeAssist"}
Overrides == {"flash model", "other model", "temperature", "max tokens",
              "set thinking", "remove thinking", "pure", "strip system", "strip tools"}

ASSUME RewriteAssumption == Configs \subseteq SUBSET Overrides

Message(role, block) == [role |-> role, blocks |-> <<block>>]
OwnPrompt == <<Message("system", "prompt")>>
Ask == Message("user", "ask")
Reply == Message("assistant", "reply")
Talks == {<<Ask, Reply, Ask>>, <<Ask, Reply>>}      \* the second one is prefilled
Override == <<Message("setting", "override")>>
Sent(paths) == [p \in paths |-> <<Message("setting", "own")>>]

Under(prefixes, body) == {p \in DOMAIN body : \E x \in prefixes : IsPrefix(x, p)}
Without(body, prefixes) == Restrict(body, DOMAIN body \ Under(prefixes, body))
With(body, path, what) == [p \in DOMAIN body \cup {path} |-> IF p = path THEN what ELSE body[p]]

\* What the clients of each provider send.
Config(at) == {at \o <<"generationConfig", "thinkingConfig">>, at \o <<"generationConfig", "temperature">>}
Nested == <<"request">>
Prompted(bodies, paths) == bodies \cup {With(b, p, OwnPrompt) : b \in bodies, p \in paths}
ClientBodies(provider) ==
    CASE provider = "Anthropic" ->
            Prompted({With(Sent({<<"model">>, <<"tools">>, <<"thinking">>}), <<"messages">>, t) : t \in Talks},
                     {<<"system">>})
      [] provider = "OpenAI" ->
            LET own == Sent({<<"model">>, <<"tools">>, <<"temperature">>})
            IN  {With(own, at, p \o t) : at \in {<<"messages">>, <<"input">>}, p \in {<<>>, OwnPrompt}, t \in Talks}
                \cup {With(b, <<"instructions">>, OwnPrompt) : b \in {With(own, <<"input">>, t) : t \in Talks}}
                \cup {With(own, <<"input">>, <<Message("text", "ask")>>)}
      [] provider = "ChatGPT" ->
            {With(With(Sent({<<"model">>, <<"tools">>}), <<"input">>, t), <<"instructions">>, OwnPrompt) : t \in Talks}
      [] provider = "Google" ->
            Prompted({With(Sent({<<"tools">>} \cup Config(<<>>)), <<"contents">>, t) : t \in Talks},
                     {<<"systemInstruction">>, <<"system_instruction">>})
      [] provider = "GoogleCodeAssist" ->
            LET own == Sent({<<"model">>, <<"project">>, Nested \o <<"tools">>} \cup Config(Nested))
            IN  Prompted({With(own, <<"request", "contents">>, t) : t \in Talks}, {<<"request", "systemInstruction">>})
                \cup {own}

Paths == {"streamGenerateContent", "generateContent", "other"}
Nobody == "none"

\* A body that cannot be read is compressed in a way, or is not the JSON, that the proxy knows.
ClientRequests == UNION {
    [session : Proxied \cup Former \cup {Nobody}, provider : {p}, path : IF p = "GoogleCodeAssist" THEN Paths ELSE {"other"},
     body : ClientBodies(p), readable : BOOLEAN] : p \in Providers}

VARIABLES
    original,  \* original[r]: session, provider, path and body as the client sent them
    work,      \* work[r]: where the request is, the body so far, and what it has found
    queued,    \* pending_images
    entries,   \* managed_session_paths: the managed sessions to which a directory leads
    asked,     \* history: asked[i]: the id with which an image was queued
    takenBy    \* history: takenBy[i]: the request that took an image out of the queue

bodyVars == <<original, work, queued, entries, asked, takenBy>>

Managed == Proxied \cup Former
Ids == Managed \cup Viewed
DirectoryOf(m) == <<"directory of", m>>

BodyInit ==
    /\ original \in [Bodies -> ClientRequests]
    /\ work = [r \in Bodies |-> [pc |-> "images", body |-> original[r].body, text |-> FALSE, config |-> {}]]
    /\ queued = [s \in Ids \cup {DirectoryOf(m) : m \in Managed} |-> <<>>]
    /\ entries \in SUBSET Managed          \* some are restored from a file
    /\ asked = [i \in Images |-> Nobody] /\ takenBy = [i \in Images |-> Nobody]

-----------------------------------------------------------------------------
(* Queueing images.                                                        *)

\* A JSONL session is linked to m: the directory leads nowhere any more.
Link(m) ==
    /\ m \in entries /\ entries' = entries \ {m}
    /\ UNCHANGED <<original, work, queued, asked, takenBy>>

\* An id that the manager does not know is looked for among those to which a
\* directory leads, which are ids of managed sessions too, and becomes that
\* directory if it is found; the id of a JSONL session never is.
QueueTarget(id) == IF id \in Proxied \/ id \notin entries THEN id ELSE DirectoryOf(id)

QueueImage(i, id) ==
    /\ asked[i] = Nobody
    /\ queued' = [queued EXCEPT ![QueueTarget(id)] = Append(@, i)]
    /\ asked' = [asked EXCEPT ![i] = id]
    /\ UNCHANGED <<original, work, entries, takenBy>>

-----------------------------------------------------------------------------
(* Image injection, under the write lock of pending_images.                *)

\* Only the streaming calls of Code Assist are conversations.
Skips(r) == original[r].provider = "GoogleCodeAssist" /\ original[r].path # "streamGenerateContent"

\* The last message of the user, of a list that has one.
LastUser(talk) == {i \in DOMAIN talk : talk[i].role = "user" /\ \A j \in i + 1 .. Len(talk) : talk[j].role # "user"}

\* "messages" first, then "contents" of the body or of its "request".
ImagePlace(body) == {p \in {<<"messages">>, <<"contents">>, <<"request", "contents">>} \cap DOMAIN body : LastUser(body[p]) # {}}

\* Mutation: the last message, whoever's it is.
PutImages_Last(body, images) ==
    [p \in DOMAIN body |->
        IF p \in ImagePlace(body) THEN [body[p] EXCEPT ![Len(body[p])].blocks = @ \o images] ELSE body[p]]

PutImages(body, images) ==
    [p \in DOMAIN body |->
        IF p \in ImagePlace(body)
        THEN [i \in DOMAIN body[p] |->
                 IF i \in LastUser(body[p]) THEN [body[p][i] EXCEPT !.blocks = @ \o images] ELSE body[p][i]]
        ELSE body[p]]

\* The images leave the queue before it is known if the body can be read or has a place for them.
TakeImages(r) ==
    /\ work[r].pc = "images"
    /\ LET s == original[r].session
       IN  IF s = Nobody \/ Skips(r)
           THEN work' = [work EXCEPT ![r].pc = "inject"] /\ UNCHANGED <<queued, takenBy>>
           ELSE /\ queued' = [queued EXCEPT ![s] = <<>>]
                /\ takenBy' = [i \in Images |-> IF i \in ToSet(queued[s]) THEN r ELSE takenBy[i]]
                /\ work' = [work EXCEPT ![r].pc = "inject",
                                        ![r].body = IF original[r].readable THEN PutImages(@, queued[s]) ELSE @]
    /\ UNCHANGED <<original, entries, asked>>

-----------------------------------------------------------------------------
(* inject_into_body.                                                       *)
Text == "injected"
Instructions == {<<"systemInstruction">>, <<"system_instruction">>, <<"request", "systemInstruction">>,
                 <<"request", "system_instruction">>}

AppendText(body, path) == With(body, path, (IF path \in DOMAIN body THEN body[path] ELSE <<>>) \o <<Message("system", Text)>>)

InjectGoogle(body, otherwise) ==
    LET present == Instructions \cap DOMAIN body
    IN  IF present = {} THEN AppendText(body, otherwise) ELSE AppendText(body, CHOOSE p \in present : TRUE)

\* Into "instructions" if there are any, else in front of the conversation if that is a list.
InjectOpenAI(body) ==
    LET key == IF <<"input">> \in DOMAIN body THEN <<"input">> ELSE <<"messages">>
    IN  CASE <<"instructions">> \in DOMAIN body -> AppendText(body, <<"instructions">>)
          [] <<"instructions">> \notin DOMAIN body /\ key \in DOMAIN body /\ Head(body[key]).role # "text" ->
                [body EXCEPT ![key] = <<Message("system", Text)>> \o @]
          [] OTHER -> body

\* Mutation: the top-level field is used for both of Google's APIs.
InjectInto_TopLevel(provider, body) ==
    CASE provider = "Anthropic"                     -> AppendText(body, <<"system">>)
      [] provider \in {"Google", "GoogleCodeAssist"} -> AppendText(body, <<"systemInstruction">>)
      [] provider \in {"OpenAI", "ChatGPT"}         -> InjectOpenAI(body)

InjectInto(provider, body) ==
    CASE provider = "Anthropic"             -> AppendText(body, <<"system">>)
      [] provider = "Google"                -> InjectGoogle(body, <<"systemInstruction">>)
      [] provider = "GoogleCodeAssist"      -> InjectGoogle(body, <<"request", "systemInstruction">>)
      [] provider \in {"OpenAI", "ChatGPT"} -> InjectOpenAI(body)

InjectText(r) ==
    /\ work[r].pc = "inject"
    /\ \E text \in BOOLEAN :
          work' = [work EXCEPT ![r].pc = "rewrite", ![r].text = text,
                      ![r].body = IF text /\ ~Skips(r) /\ original[r].readable
                                  THEN InjectInto(original[r].provider, @) ELSE @]
    /\ UNCHANGED <<original, queued, entries, asked, takenBy>>

-----------------------------------------------------------------------------
(* apply_rewrites: one step after the other, each on the result of the last. *)
Essential(provider) ==
    CASE provider = "Anthropic" -> {<<"model">>, <<"messages">>, <<"stream">>, <<"max_tokens">>}
      [] provider = "OpenAI"    -> {<<"model">>, <<"messages">>, <<"input">>, <<"stream">>, <<"max_output_tokens">>}
      [] provider = "ChatGPT"   -> {<<"model">>, <<"input">>}
      [] provider = "Google"    -> {<<"model">>, <<"contents">>, <<"stream">>, <<"generationConfig">>}
      [] provider = "GoogleCodeAssist" ->
            {<<"model">>, <<"project">>, <<"user_prompt_id">>, <<"request", "contents">>,
             <<"request", "generationConfig">>, <<"request", "session_id">>}

StripToEssentials(provider, body) == Restrict(body, Under(Essential(provider), body))

StripSystemPrompt(provider, body) ==
    CASE provider = "Anthropic" -> Without(body, {<<"system">>})
      [] provider \in {"OpenAI", "ChatGPT"} ->
            LET NotSystem(m) == m.role # "system"
            IN  [p \in DOMAIN Without(body, {<<"system">>}) |->
                    IF p \in {<<"messages">>, <<"input">>} THEN SelectSeq(body[p], NotSystem) ELSE body[p]]
      [] provider = "Google" -> Without(body, {<<"systemInstruction">>, <<"system_instruction">>})
      [] provider = "GoogleCodeAssist" -> Without(body, Instructions)

StripTools(provider, body) ==
    Without(body, {<<"tools">>} \cup (IF provider = "GoogleCodeAssist" THEN {<<"request", "tools">>} ELSE {}))

ConfigAt(provider) == IF provider = "GoogleCodeAssist" THEN <<"request", "generationConfig">> ELSE <<"generationConfig">>
IsGoogle(provider) == provider \in {"Google", "GoogleCodeAssist"}

OverrideModel(provider, body, config) ==
    LET named == With(body, <<"model">>, Override)
    IN  IF IsGoogle(provider) /\ "flash model" \notin config
        THEN Without(named, {ConfigAt(provider) \o <<"thinkingConfig">>}) ELSE named

OverrideTemperature(provider, body) ==
    With(body, IF IsGoogle(provider) THEN ConfigAt(provider) \o <<"temperature">> ELSE <<"temperature">>, Override)

OverrideMaxTokens(provider, body) ==
    With(body, CASE IsGoogle(provider)               -> ConfigAt(provider) \o <<"maxOutputTokens">>
                 [] provider = "Anthropic"           -> <<"max_tokens">>
                 [] provider \in {"OpenAI", "ChatGPT"} -> <<"max_output_tokens">>, Override)

\* Only Anthropic's field is called that.
OverrideThinking(provider, body, config) ==
    CASE provider # "Anthropic" -> body
      [] provider = "Anthropic" /\ "remove thinking" \in config -> Without(body, {<<"thinking">>})
      [] provider = "Anthropic" /\ "remove thinking" \notin config -> With(body, <<"thinking">>, Override)

IsConversation(provider, body) == provider = "GoogleCodeAssist" => <<"request", "contents">> \in DOMAIN body

ApplyRewrites(provider, body, config) ==
    LET If(options, changed, unchanged) == IF options \cap config # {} THEN changed ELSE unchanged
        b1 == If({"pure"}, StripToEssentials(provider, body), body)
        b2 == If({"strip system"}, StripSystemPrompt(provider, b1), b1)
        b3 == If({"strip tools"}, StripTools(provider, b2), b2)
        b4 == If({"flash model", "other model"}, OverrideModel(provider, b3, config), b3)
        b5 == If({"temperature"}, OverrideTemperature(provider, b4), b4)
        b6 == If({"max tokens"}, OverrideMaxTokens(provider, b5), b5)
        b7 == If({"set thinking", "remove thinking"}, OverrideThinking(provider, b6, config), b6)
    IN  IF IsConversation(provider, body) THEN b7 ELSE body

RewriteBody(r) ==
    /\ work[r].pc = "rewrite"
    /\ \E config \in Configs :
          work' = [work EXCEPT ![r].pc = "sent", ![r].config = config,
                      ![r].body = IF original[r].readable
                                     /\ ~(original[r].provider = "GoogleCodeAssist" /\ original[r].path = "other")
                                  THEN ApplyRewrites(original[r].provider, @, config) ELSE @]
    /\ UNCHANGED <<original, queued, entries, asked, takenBy>>

BodyNext ==
    \/ \E m \in Managed : Link(m)
    \/ \E i \in Images, id \in Ids : QueueImage(i, id)
    \/ \E r \in Bodies : TakeImages(r) \/ InjectText(r) \/ RewriteBody(r)
-----------------------------------------------------------------------------
Conversation(body) == {p \in {<<"messages">>, <<"input">>, <<"contents">>, <<"request", "contents">>} : p \in DOMAIN body}
Spoken(talk) ==
    LET InConversation(m) == m.role \notin {"system"}
        OwnBlock(b) == b \notin Images
        Mine == SelectSeq(talk, InConversation)
    IN  [i \in DOMAIN Mine |-> [Mine[i] EXCEPT !.blocks = SelectSeq(@, OwnBlock)]]

(* Whatever is injected, overridden and stripped, in whichever combination *)
(* (rewrite.rs:170 "Keeps only the minimum provider-specific payload       *)
(* required for prompting"): what user and assistant said is still there,  *)
(* in its place and order.                                                 *)
ConversationSurvives ==
    \A r \in Bodies : \A p \in Conversation(original[r].body) :
        p \in DOMAIN work[r].body /\ Spoken(work[r].body[p]) = Spoken(original[r].body[p])

Carried(i, r) == {<<p, k>> \in (DOMAIN work[r].body) \X (1 .. 5) :
                     k \in DOMAIN work[r].body[p] /\ i \in ToSet(work[r].body[p][k].blocks)}

(* main.rs:3153: "The proxy handler will pick these up when the CLI tool   *)
(* makes its next /v1/messages call and inject them as image content       *)
(* blocks into the last user message".  An image goes to one request at    *)
(* most, whose session has the id it was queued with, a call of the        *)
(* conversation, and into the user's last message if the body can be read  *)
(* and has one where it is looked for.  Until then an image for a session  *)
(* that the manager knows waits where that session's requests look.        *)
ImagesArriveOnce ==
    /\ \A i \in Images : asked[i] \in Proxied /\ takenBy[i] = Nobody => i \in ToSet(queued[asked[i]])
    /\ \A i \in Images : \A r \in Bodies :
        /\ Carried(i, r) # {} => takenBy[i] = r /\ asked[i] = original[r].session /\ ~Skips(r)
        /\ takenBy[i] = r /\ original[r].readable /\ ImagePlace(original[r].body) # {} =>
              \E p \in DOMAIN work[r].body : \E k \in LastUser(work[r].body[p]) : Carried(i, r) = {<<p, k>>}

\* Where the provider of r looks for a system prompt.
PromptPlaces(r) ==
    CASE original[r].provider = "Anthropic"             -> {<<"system">>}
      [] original[r].provider \in {"OpenAI", "ChatGPT"} -> {<<"instructions">>, <<"messages">>, <<"input">>}
      [] original[r].provider = "Google"                -> {<<"systemInstruction">>, <<"system_instruction">>}
      [] original[r].provider = "GoogleCodeAssist"      -> {<<"request", "systemInstruction">>}

Prompts(r, block) == {<<p, k>> \in (DOMAIN work[r].body) \X (1 .. 5) :
                         k \in DOMAIN work[r].body[p] /\ work[r].body[p][k].blocks = <<block>>}

(* The session's text is found once, where the provider looks for it, if   *)
(* there is a place and nothing strips it; after the system prompt was to  *)
(* be removed (rewrite.rs:26) no text of client or session is left but in  *)
(* "instructions", which only pure mode removes; and what user and         *)
(* assistant said survives all of it.                                      *)
PromptIsAsConfigured ==
    /\ ConversationSurvives
    /\ \A r \in Bodies : work[r].pc = "sent" /\ original[r].readable /\ ~Skips(r) =>
        /\ work[r].text /\ work[r].config \cap {"pure", "strip system"} = {}
              /\ <<Message("text", "ask")>> \notin {original[r].body[p] : p \in DOMAIN original[r].body} =>
              \E p \in PromptPlaces(r), k \in 1 .. 5 : Prompts(r, Text) = {<<p, k>>}
        /\ "strip system" \in work[r].config /\ IsConversation(original[r].provider, original[r].body) =>
              Prompts(r, Text) \cup Prompts(r, "prompt") \subseteq {<<<<"instructions">>, k>> : k \in 1 .. 2}
=============================================================================
