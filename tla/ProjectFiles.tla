---------------------------- MODULE ProjectFiles ----------------------------
(***************************************************************************)
(* The files of one project, from the disk to the editor.                  *)
(*                                                                         *)
(* The agent and the editor write files.  The watcher loop of the server   *)
(* (server/src/main.rs, 1043-1167) turns every event into a row of the     *)
(* world and a FILE_CHANGES payload that carries the content of a small    *)
(* file; it passes over an event that follows another of the same file     *)
(* within 50 ms.  The browser (frontend/src/stores/file.ts) keeps a tree,  *)
(* which it also fetches every 30 s, and the content of the selected file, *)
(* which it also fetches on selection; the editor panel shows that         *)
(* content, lets the user type, and saves it.                              *)
(*                                                                         *)
(* A content is known by the number of the change that made it and by its  *)
(* size; 0 is the text of the user.                                        *)
(***************************************************************************)
EXTENDS Naturals, Sequences, FiniteSets

CONSTANTS
    Files,          \* files of the project's root directory
    Unwatched,      \* those whose events are dropped: logs, JSON, excluded paths
    Unlisted,       \* those a listing leaves out: excluded or ignored by git
    Sizes,          \* sizes a content may have: "empty", "small", "large"
    None,           \* no file, no content
    MaxChanges,     \* bound on the changes of the disk
    MaxWire,        \* bound on the payloads under way
    MaxGets         \* bound on the content requests under way

(* None, the absence of a value, is none of the values it stands for.      *)
AllSizes == {"empty", "small", "large"}
Contents == [made : Nat, size : AllSizes]
FileEvents == [file : Files, kind : {"created", "modified", "deleted"}, change : Nat]
Handlings == [event : FileEvents, size : AllSizes \cup {None}, content : Contents,
              at : {"measure", "read", "publish"}]

ASSUME FilesAssumption ==
    /\ Unwatched \subseteq Files /\ Unlisted \subseteq Files
    /\ Sizes \subseteq AllSizes
    /\ MaxChanges \in Nat /\ MaxWire \in Nat /\ MaxGets \in Nat
    /\ None \notin Files \cup AllSizes /\ None \notin Contents /\ None \notin Handlings

VARIABLES
    disk,           \* content of every file, or None
    changes,        \* the number of changes so far
    latest,         \* the last change of every file
    events,         \* the watcher's channel
    hot,            \* files whose last handled event is younger than 50 ms
    handling,       \* the event the loop is at, with what it has read
    rows,           \* the file rows of the world: a size, or None
    wire,           \* published payloads on their way to the browser
    tree,           \* the files the tree shows
    frame,          \* payloads waiting for the animation frame
    treeGet,        \* the listing under way
    selected,       \* the file in the editor
    shown,          \* state.fileContent; None is its null
    doc,            \* the editor's document: a content, or "typed"
    lastSaved,      \* what the editor compares its document with
    dirty,          \* the mark for unsaved changes
    saving,         \* the save under way, or None
    gets,           \* the content requests under way
    \* History:
    swallowed,      \* changes whose event never took effect
    seen,           \* the contents of the selected file that were shown
    missed,         \* changes of the selected file whose content was not got
    typedOver       \* the user typed while a save was under way

serverVars == <<events, hot, handling, rows>>
treeVars == <<tree, frame, treeGet>>
editorVars == <<selected, shown, doc, lastSaved, dirty, saving, gets, seen, missed, typedOver>>
filesVars == <<disk, changes, latest, wire, swallowed, serverVars, treeVars, editorVars>>

Content(n, size) == [made |-> IF size = "empty" THEN 0 ELSE n, size |-> size]
NoContent == Content(0, "empty")
Typed == Content(0, "small")
NoListing == [at |-> "none", files |-> {}]
-----------------------------------------------------------------------------
FilesInit ==
    /\ disk = [f \in Files |-> None]
    /\ changes = 0 /\ latest = [f \in Files |-> 0]
    /\ events = <<>> /\ hot = {} /\ handling = None
    /\ rows = [f \in Files |-> None]
    /\ wire = <<>>
    /\ tree = {} /\ frame = <<>> /\ treeGet = NoListing
    /\ selected = None
    /\ shown = None /\ doc = NoContent /\ lastSaved = NoContent
    /\ dirty = FALSE /\ saving = None /\ gets = {}
    /\ swallowed = {} /\ seen = {} /\ missed = {} /\ typedOver = FALSE

-----------------------------------------------------------------------------
(* The disk.  Every change leaves an event; a replacement by renaming      *)
(* reads as a creation.                                                    *)

Put(f, content, kind) ==
    /\ disk' = [disk EXCEPT ![f] = content]
    /\ changes' = changes + 1
    /\ latest' = [latest EXCEPT ![f] = changes + 1]
    /\ events' = Append(events, [file |-> f, kind |-> kind, change |-> changes + 1])

AgentWrites(f) ==
    /\ changes < MaxChanges
    /\ \E size \in Sizes, kind \in {"created", "modified"} :
           /\ disk[f] = None => kind = "created"
           /\ Put(f, Content(changes + 1, size), kind)
    /\ UNCHANGED <<hot, handling, rows, wire, swallowed, treeVars, editorVars>>

AgentDeletes(f) ==
    /\ changes < MaxChanges
    /\ disk[f] # None
    /\ Put(f, None, "deleted")
    /\ UNCHANGED <<hot, handling, rows, wire, swallowed, treeVars, editorVars>>

-----------------------------------------------------------------------------
(* The watcher loop of the server.                                         *)

ShouldIgnorePath(f) == f \in Unwatched

Debounced(f) == f \in hot

\* The loop takes an event: ignored, passed over, or handled.
TakeEvent ==
    /\ handling = None /\ events # <<>>
    /\ events' = Tail(events)
    /\ LET e == Head(events)
       IN  IF ShouldIgnorePath(e.file)
           THEN UNCHANGED <<hot, handling, swallowed>>
           ELSE IF Debounced(e.file)
           THEN /\ swallowed' = swallowed \cup {e.change}
                /\ UNCHANGED <<hot, handling>>
           ELSE /\ hot' = hot \cup {e.file}
                /\ handling' = [event |-> e, size |-> None, content |-> NoContent,
                                at |-> IF e.kind = "deleted" THEN "publish" ELSE "measure"]
                /\ UNCHANGED swallowed
    /\ UNCHANGED <<disk, changes, latest, rows, wire, treeVars, editorVars>>

\* 50 ms pass.
Cool(f) ==
    /\ f \in hot
    /\ hot' = hot \ {f}
    /\ UNCHANGED <<disk, changes, latest, events, handling, rows, wire, swallowed, treeVars, editorVars>>

\* metadata(path): only a small file is read afterwards.
Measure ==
    /\ handling # None /\ handling.at = "measure"
    /\ LET now == disk[handling.event.file]
       IN  handling' = IF now = None THEN [handling EXCEPT !.at = "publish"]
                       ELSE [handling EXCEPT !.size = now.size,
                                 !.at = IF now.size = "large" THEN "publish" ELSE "read"]
    /\ UNCHANGED <<disk, changes, latest, events, hot, rows, wire, swallowed, treeVars, editorVars>>

\* A file that is gone, or is no text, gives none.
ReadToString(f) == IF disk[f] = None THEN {NoContent} ELSE {disk[f], NoContent}

HasRead(content) == handling' = [handling EXCEPT !.content = content, !.at = "publish"]

ReadContent ==
    /\ handling # None /\ handling.at = "read"
    /\ \E content \in ReadToString(handling.event.file) : HasRead(content)
    /\ UNCHANGED <<disk, changes, latest, events, hot, rows, wire, swallowed, treeVars, editorVars>>

\* Mutation: a row that exists only gets a new time.
UpsertFile_KeepsSize(f, size) ==
    IF rows[f] = None THEN [rows EXCEPT ![f] = size] ELSE rows

UpsertFile(f, size) == [rows EXCEPT ![f] = size]
DespawnFile(f) == [rows EXCEPT ![f] = None]

\* The row, then the payload.  A file that is gone leaves a row of size 0.
PublishChange ==
    /\ handling # None /\ handling.at = "publish"
    /\ Len(wire) < MaxWire
    /\ LET e == handling.event
       IN  /\ rows' = IF e.kind = "deleted" THEN DespawnFile(e.file)
                      ELSE UpsertFile(e.file, IF handling.size = None THEN "empty"
                                              ELSE handling.size)
           /\ wire' = Append(wire, [file |-> e.file, kind |-> e.kind,
                                    content |-> handling.content, change |-> e.change])
    /\ handling' = None
    /\ UNCHANGED <<disk, changes, latest, events, hot, swallowed, treeVars, editorVars>>

\* FILE_CHANGES is a topic that may drop; so may the transport.
DropPayload ==
    /\ wire # <<>>
    /\ swallowed' = swallowed \cup {Head(wire).change}
    /\ wire' = Tail(wire)
    /\ UNCHANGED <<disk, changes, latest, serverVars, treeVars, editorVars>>

-----------------------------------------------------------------------------
(* The editor panel: a new content, or another file, builds the editor     *)
(* anew with that content and calls it clean.                              *)

TextOf(content) == IF content = None THEN NoContent ELSE content

\* Mutation: the panel keeps its mark when a content comes from outside.
ShowAnew_KeepsMark(content) ==
    /\ shown' = content
    /\ doc' = TextOf(content) /\ lastSaved' = TextOf(content)
    /\ UNCHANGED dirty

ShowAnew(content) ==
    /\ shown' = content
    /\ doc' = TextOf(content) /\ lastSaved' = TextOf(content)
    /\ dirty' = FALSE

SetFileContent(content) ==
    IF content = shown THEN UNCHANGED <<shown, doc, lastSaved, dirty>>
    ELSE ShowAnew(content)

Saw(f, content) == IF f = selected THEN seen \cup {content} ELSE seen

StartGet(f) == gets \cup {[file |-> f, answered |-> FALSE, answer |-> NoContent]}

\* handleFileChangeEvent: the tree waits for the frame; the editor takes the
\* content at once, or asks for it when a modification carries none.
Deliver ==
    /\ wire # <<>>
    /\ LET p       == Head(wire)
           open    == selected = p.file
           carries == p.content.size \in {"small", "large"}    \* "" is falsy
           asks    == open /\ ~carries /\ p.kind = "modified"
       IN  /\ frame' = Append(frame, [file |-> p.file, kind |-> p.kind])
           /\ IF open /\ carries
              THEN SetFileContent(p.content) /\ seen' = Saw(p.file, p.content)
              ELSE UNCHANGED <<shown, doc, lastSaved, dirty, seen>>
           /\ asks => Cardinality(gets) < MaxGets
           /\ gets' = IF asks THEN StartGet(p.file) ELSE gets
           /\ missed' = IF open /\ ~carries /\ p.kind = "created"
                        THEN missed \cup {p.change} ELSE missed
    /\ wire' = Tail(wire)
    /\ UNCHANGED <<disk, changes, latest, swallowed, serverVars, tree, treeGet, selected, saving, typedOver>>

InsertTreeNode(files, f) == files \cup {f}
RemoveTreeNode(files, f) == files \ {f}

\* A modification only touches a node that is there.
ApplyTreeUpdate(files, p) ==
    CASE p.kind = "created" -> InsertTreeNode(files, p.file)
      [] p.kind = "deleted" -> RemoveTreeNode(files, p.file)
      [] OTHER              -> files

Frame ==
    /\ frame # <<>>
    /\ tree' = LET after[i \in 0..Len(frame)] ==
                       IF i = 0 THEN tree ELSE ApplyTreeUpdate(after[i - 1], frame[i])
               IN  after[Len(frame)]
    /\ frame' = <<>>
    /\ UNCHANGED <<disk, changes, latest, wire, swallowed, serverVars, treeGet, editorVars>>

-----------------------------------------------------------------------------
(* Fetching: the tree now and then, the content on selection.              *)

Listing == {f \in Files \ Unlisted : disk[f] # None}

\* Mutation: the listing is fetched only while the tree is empty.
FetchTree_Once ==
    /\ treeGet = NoListing /\ tree = {}
    /\ treeGet' = [at |-> "asked", files |-> {}]
    /\ UNCHANGED <<disk, changes, latest, wire, swallowed, serverVars, tree, frame, editorVars>>

FetchTree ==
    /\ treeGet = NoListing
    /\ treeGet' = [at |-> "asked", files |-> {}]
    /\ UNCHANGED <<disk, changes, latest, wire, swallowed, serverVars, tree, frame, editorVars>>

ListDirectory ==
    /\ treeGet.at = "asked"
    /\ treeGet' = [at |-> "answered", files |-> Listing]
    /\ UNCHANGED <<disk, changes, latest, wire, swallowed, serverVars, tree, frame, editorVars>>

TreeAnswered ==
    /\ treeGet.at = "answered"
    /\ tree' = treeGet.files
    /\ treeGet' = NoListing
    /\ UNCHANGED <<disk, changes, latest, wire, swallowed, serverVars, frame, editorVars>>

\* The editor is built for the new file, with the content of the old one.
SelectFile(f) ==
    /\ f # selected
    /\ Cardinality(gets) < MaxGets
    /\ selected' = f
    /\ doc' = TextOf(shown) /\ lastSaved' = TextOf(shown)
    /\ dirty' = FALSE /\ typedOver' = FALSE
    /\ gets' = StartGet(f)
    /\ seen' = {} /\ missed' = {}
    /\ UNCHANGED <<disk, changes, latest, wire, swallowed, serverVars, treeVars, shown, saving>>

\* A file that is gone, binary or over 10 MB is an error; so may be the request.
ReadFileContent(f) == {disk[f], None}

GetSessionFile(g) ==
    /\ ~g.answered
    /\ \E answer \in ReadFileContent(g.file) :
           /\ gets' = (gets \ {g}) \cup {[file |-> g.file, answered |-> TRUE, answer |-> answer]}
           /\ missed' = IF answer = None /\ g.file = selected
                        THEN missed \cup {latest[g.file]} ELSE missed
    /\ UNCHANGED <<disk, changes, latest, wire, swallowed, serverVars, treeVars,
                   selected, shown, doc, lastSaved, dirty, saving, seen, typedOver>>

\* The answer is shown, whichever file is selected by now; an error empties
\* the editor.
GetAnswered(g) ==
    /\ g.answered
    /\ gets' = gets \ {g}
    /\ SetFileContent(g.answer)
    /\ seen' = IF g.answer = None THEN seen ELSE Saw(g.file, g.answer)
    /\ UNCHANGED <<disk, changes, latest, wire, swallowed, serverVars, treeVars,
                   selected, saving, missed, typedOver>>

-----------------------------------------------------------------------------
(* Typing and saving.                                                      *)

Type ==
    /\ selected # None
    /\ doc # Typed
    /\ doc' = Typed
    /\ dirty' = (Typed # lastSaved)
    /\ typedOver' = (typedOver \/ saving # None)
    /\ UNCHANGED <<disk, changes, latest, wire, swallowed, serverVars, treeVars,
                   selected, shown, lastSaved, saving, gets, seen, missed>>

Save ==
    /\ selected # None /\ saving = None
    /\ saving' = [file |-> selected, text |-> doc, done |-> FALSE]
    /\ UNCHANGED <<disk, changes, latest, wire, swallowed, serverVars, treeVars,
                   selected, shown, doc, lastSaved, dirty, gets, seen, missed, typedOver>>

\* The file, and its directory, may not have existed.
WriteFileContent(f, text) ==
    Put(f, text, IF disk[f] = None THEN "created" ELSE "modified")

SaveSessionFile ==
    /\ saving # None /\ ~saving.done
    /\ changes < MaxChanges
    /\ WriteFileContent(saving.file, saving.text)
    /\ saving' = [saving EXCEPT !.done = TRUE]
    /\ UNCHANGED <<hot, handling, rows, wire, swallowed, treeVars,
                   selected, shown, doc, lastSaved, dirty, gets, seen, missed, typedOver>>

\* The saved text becomes the content, and the document clean.
SaveSucceeded ==
    /\ saving # None /\ saving.done
    /\ shown' = saving.text
    /\ doc' = IF saving.text = shown THEN doc ELSE saving.text
    /\ lastSaved' = saving.text
    /\ dirty' = FALSE
    /\ saving' = None
    /\ seen' = Saw(saving.file, saving.text)
    /\ UNCHANGED <<disk, changes, latest, wire, swallowed, serverVars, treeVars,
                   selected, gets, missed, typedOver>>

\* The request failed, or its answer was lost.
SaveFailed ==
    /\ saving # None
    /\ saving' = None
    /\ UNCHANGED <<disk, changes, latest, wire, swallowed, serverVars, treeVars,
                   selected, shown, doc, lastSaved, dirty, gets, seen, missed, typedOver>>

WatcherLoop == TakeEvent \/ Measure \/ ReadContent \/ PublishChange

TreePolling == FetchTree \/ ListDirectory \/ TreeAnswered

ServerNext ==
    \/ \E f \in Files : AgentWrites(f) \/ AgentDeletes(f) \/ Cool(f)
    \/ WatcherLoop
    \/ DropPayload \/ Deliver

EditorNext ==
    \/ \E f \in Files : SelectFile(f)
    \/ \E g \in gets : GetSessionFile(g) \/ GetAnswered(g)
    \/ Type \/ Save \/ SaveSessionFile \/ SaveSucceeded \/ SaveFailed

FilesNext == ServerNext \/ Frame \/ TreePolling \/ EditorNext

\* The loop, the transport, the frames and the 30 s timer go on.
FilesFairness ==
    /\ WF_filesVars(WatcherLoop) /\ WF_filesVars(Deliver)
    /\ WF_filesVars(Frame) /\ WF_filesVars(TreePolling)

FilesSpec == FilesInit /\ [][FilesNext]_filesVars /\ FilesFairness
-----------------------------------------------------------------------------
(* Properties.                                                             *)

Quiet(f) ==
    /\ \A i \in DOMAIN events : events[i].file # f
    /\ \A i \in DOMAIN wire : wire[i].file # f
    /\ handling # None => handling.event.file # f
    /\ latest[f] \notin swallowed

\* Once the events of a watched file are through, its row is that of the
\* disk, unless the very last change was passed over (within 50 ms of another)
\* or dropped on the way.  If the file is the selected one, its content has
\* then been in the editor, unless the request for it failed or, for a creation
\* without content, was never made.
\* (main.rs:1080-1167, file.ts:137-224: content is read after the event.)
LastChangeArrives ==
    \A f \in Files \ Unwatched : Quiet(f) =>
        /\ rows[f] = IF disk[f] = None THEN None ELSE disk[f].size
        /\ (f = selected /\ disk[f] # None /\ \A g \in gets : g.file # f)
               => disk[f] \in seen \/ latest[f] \in missed

\* The dirty mark tells whether the document differs from what the editor
\* last saved or was given, and both agree on what that was, unless the
\* user typed while a save was under way.
\* (EditorPanel.tsx:106-189: three places set the mark.)
DirtyMarkIsTrue ==
    /\ lastSaved = TextOf(shown)
    /\ ~typedOver => (dirty <=> doc # lastSaved)

\* What a tree that has settled shows: the listing of the disk.
TreeIsListing == tree = Listing
=============================================================================
