------------------------------ MODULE MCFiles -------------------------------
(* Three parts that share no state, checked in one run: the reading of a   *)
(* session file, a project's files up to the tree, and up to the editor.   *)
(* A behaviour picks one of them.                                          *)
EXTENDS CountedFiles, ProjectFiles

VARIABLE focus

vars == <<focus, countedVars, filesVars>>

Init ==
    /\ focus \in {"session file", "tree", "editor"}
    /\ focus # "session file" => cli = "codex"
    /\ CountedInit /\ FilesInit

\* The editor is looked at on two files and two changes, with the frames of
\* the tree at once; only the watched file is saved, and the other one has
\* contents of one size.  So has every file for the tree.
EditorStep ==
    /\ IF frame = <<>> THEN ServerNext \/ EditorNext ELSE Frame
    /\ disk'["ignored"] = None /\ selected' # "ignored" /\ changes' <= 2
    /\ disk'["log"] # None => disk'["log"].size = "small"
    /\ saving' # None => saving'.file = "code"

TreeStep ==
    /\ ServerNext \/ Frame \/ TreePolling
    /\ \A f \in Files : disk'[f] # None => disk'[f].size = "small"

Next ==
    \/ /\ focus = "session file" /\ CountedNext
       /\ UNCHANGED <<focus, filesVars>>
    \/ /\ focus = "tree" /\ TreeStep
       /\ UNCHANGED <<focus, countedVars>>
    \/ /\ focus = "editor" /\ EditorStep
       /\ UNCHANGED <<focus, countedVars>>

OutsideFiles == UNCHANGED <<focus, countedVars>>

Spec ==
    /\ Init /\ [][Next]_vars
    /\ WF_vars(focus = "tree" /\ WatcherLoop /\ OutsideFiles)
    /\ WF_vars(focus = "tree" /\ Deliver /\ OutsideFiles)
    /\ WF_vars(focus = "tree" /\ Frame /\ OutsideFiles)
    /\ WF_vars(focus = "tree" /\ TreePolling /\ OutsideFiles)

\* Whatever events are passed over, ignored or lost, the tree comes to show
\* what a listing of the disk shows.
\* (frontend/src/components/files/FileTree.tsx:69-70: a listing every 30 s.)
TreeSettles == <>[](focus = "tree" => TreeIsListing)
=============================================================================
