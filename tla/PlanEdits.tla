------------------------------ MODULE PlanEdits ------------------------------
(***************************************************************************)
(* plan-edits.json of one plan: POST /api/plans/{name}/edits of            *)
(* server/src/main.rs.  A post reads the file, merges its payload into     *)
(* what it read, writes a temporary file and renames it over the old one.  *)
(* No lock is held from the read to the rename.                            *)
(*                                                                         *)
(* An edit is a model value; the other keys of the payload are left out,   *)
(* and temporary files of two posts never have the same name.              *)
(***************************************************************************)
EXTENDS Naturals, Sequences, SequencesExt

CONSTANTS Posts   \* HTTP calls; each runs once

ASSUME PostsAssumption == "old" \notin Posts   \* whose edit the file may begin with

\* What a payload can be, and what plan-edits.json can hold beforehand.
Payloads == {"edits", "one edit", "no edits", "plain", "list", "null", "scalar"}
FileShapes == {"object", "list", "null", "invalid"}

VARIABLES
    payload,     \* payload[p]: the shape of what p sends
    post,        \* post[p]: where p stands, what it read and how many replacements before
    editsFile,   \* plan-edits.json: its shape and its edits
    firstEdits,  \* history: the edits in it before the first post
    merged       \* history: the posts that replaced the file, in that order

editsVars == <<payload, post, editsFile, firstEdits, merged>>

NoFile == [shape |-> "none", edits |-> <<>>]
NoPost == [pc |-> "idle", text |-> NoFile, since |-> 0]

EditsInit ==
    /\ payload \in [Posts -> Payloads]
    /\ \/ editsFile = NoFile
       \/ \E s \in FileShapes : editsFile = [shape |-> s, edits |-> IF s \in {"object", "list"} THEN <<<<"old", 1>>>> ELSE <<>>]
    /\ firstEdits = editsFile.edits
    /\ post = [p \in Posts |-> NoPost]
    /\ merged = <<>>

\* append_incoming_edit_values: an object with "edits" is taken apart, any other is an edit.
IncomingEdits(p) ==
    CASE payload[p] \in {"edits", "list"}             -> <<<<p, 1>>, <<p, 2>>>>
      [] payload[p] \in {"one edit", "plain", "scalar"} -> <<<<p, 1>>>>
      [] payload[p] \in {"no edits", "null"}           -> <<>>

\* append_existing_edit_values: whatever is not a list, or an object with a list, is refused.
CanMerge(existing) == existing.shape # "invalid"

\* Mutation: a payload that brings its own list replaces the list.
MergePayloads_Replace(existing, p) ==
    [shape |-> "object",
     edits |-> (IF payload[p] = "edits" THEN <<>> ELSE existing.edits) \o IncomingEdits(p)]

MergePayloads(existing, p) ==
    [shape |-> "object", edits |-> existing.edits \o IncomingEdits(p)]

Answered(p) == [post[p] EXCEPT !.pc = "done", !.text = NoFile]
Answer(p) == post' = [post EXCEPT ![p] = Answered(p)]

\* An invalid name or a directory that cannot be made.
RefusePost(p) ==
    /\ post[p].pc = "idle" /\ Answer(p)
    /\ UNCHANGED <<payload, editsFile, firstEdits, merged>>

ReadEdits(p) ==
    /\ post[p].pc = "idle"
    /\ post' = [post EXCEPT ![p] = [pc |-> "merge", text |-> editsFile, since |-> Len(merged)]]
    /\ UNCHANGED <<payload, editsFile, firstEdits, merged>>

\* The merge and the temporary file; either may fail, and leaves the old file alone.
MergeEdits(p) ==
    /\ post[p].pc = "merge"
    /\ \/ /\ CanMerge(post[p].text)
          /\ post' = [post EXCEPT ![p].pc = "rename", ![p].text = MergePayloads(@, p)]
       \/ Answer(p)
    /\ UNCHANGED <<payload, editsFile, firstEdits, merged>>

RenameEdits(p) ==
    /\ post[p].pc = "rename"
    /\ \/ /\ editsFile' = post[p].text
          /\ merged' = Append(merged, p)
          /\ post' = [post EXCEPT ![p].pc = "publish"]
       \/ Answer(p) /\ UNCHANGED <<editsFile, merged>>
    /\ UNCHANGED <<payload, firstEdits>>

\* plan.json is published if it can be read, and the post answered.
PublishPlan(p) ==
    /\ post[p].pc = "publish" /\ Answer(p)
    /\ UNCHANGED <<payload, editsFile, firstEdits, merged>>

\* A crash ends every post wherever it stands; what is on disk stays.
LosePosts ==
    /\ \E p \in Posts : post[p].pc \notin {"idle", "done"}
    /\ post' = [p \in Posts |-> IF post[p].pc = "idle" THEN NoPost ELSE Answered(p)]
    /\ UNCHANGED <<payload, editsFile, firstEdits, merged>>

EditsNext ==
    \/ \E p \in Posts : RefusePost(p) \/ ReadEdits(p) \/ MergeEdits(p) \/ RenameEdits(p) \/ PublishPlan(p)
    \/ LosePosts

EditsSpec == EditsInit /\ [][EditsNext]_editsVars
-----------------------------------------------------------------------------
Kept == {p \in ToSet(merged) : ToSet(IncomingEdits(p)) \subseteq ToSet(editsFile.edits)}

(* "Append plan-edits.json for the session to pick up" (main.rs:2523):     *)
(* after any posts, failures and crashes the file holds the edits it had   *)
(* and then, in the order of the replacements and once each, those of the  *)
(* posts that replaced it; and those of a post are only missing if another *)
(* one that had read the file before came after it.                        *)
EditsSurvive ==
    /\ editsFile.edits = firstEdits \o
          FlattenSeq([i \in DOMAIN merged |-> IF merged[i] \in Kept THEN IncomingEdits(merged[i]) ELSE <<>>])
    /\ \A i \in DOMAIN merged : merged[i] \notin Kept =>
          \E j \in i + 1 .. Len(merged) : post[merged[j]].since < i
=============================================================================
