---------------------------- MODULE MessageCache ----------------------------
(***************************************************************************)
(* From an agent's JSONL file to the browser: the watcher loop and the     *)
(* periodic rescan of server/src/main.rs, the byte-offset parser of        *)
(* parser/jsonl.rs, and the message cache of cache/mod.rs over the ECS     *)
(* world.                                                                  *)
(*                                                                         *)
(* Three tasks share the files, the offsets, the ECS world and the LRU     *)
(* list; whatever runs under one write lock of the world is one action.    *)
(* A file is its length: the agent writes every line in two pieces, line i *)
(* being the pieces 2i-1 and 2i, and a line parses when both are read.     *)
(*                                                                         *)
(* Abstracted: what a message says, hence also the session status derived  *)
(* from the last one; aliases of managed sessions; deleted or rewritten    *)
(* files (an agent only appends); the Codex and Gemini formats.            *)
(***************************************************************************)
EXTENDS Integers, FiniteSets, SequencesExt, FiniteSetsExt

CONSTANTS Sessions,
          Old,              \* the sessions found at startup
          OldLines,         \* the lines each of them has by then
          MaxWarm,          \* MAX_WARM_SESSIONS (20)
          MaxCached,        \* MAX_TOTAL_CACHED_MESSAGES (200 000)
          MaxCacheable,     \* MAX_CACHEABLE_FILE_SIZE (10 MB), in pieces
          Writes,           \* the pieces an agent may write at once
          MaxPieces         \* bound: the length of all files together

ASSUME CacheAssumption ==
    /\ Old \subseteq Sessions
    /\ OldLines \in Nat /\ MaxWarm \in Nat \ {0} /\ MaxCached \in Nat
    /\ MaxCacheable \in Nat /\ MaxPieces \in Nat
    /\ Writes \subseteq {1, 2}

VARIABLES
    size,         \* the length of each file; 0: there is none
    changed,      \* sessions with an event in the watcher's channel
    missed,       \* sessions whose last event was lost or came before the loop
    paths,        \* session_paths: the sessions the API finds a file for
    registered,   \* the sessions in the ECS world
    offsets,      \* the watcher's byte offsets; 0 stands for "none"
    watcher,      \* what the watcher loop is doing
    found,        \* what the rescan has still to process
    adopting,     \* the new session the rescan is registering, if any
    messages,     \* the cached lines of each session, in order
    warm,         \* the sessions with a warm CacheMetaComponent
    lru,          \* LRU, the least recently used first
    emitted,      \* the lines pushed to session/messages
    warmed        \* not in the code: the file's length when the cache became warm

fileVars == <<size, changed, missed>>
indexVars == <<paths, registered, offsets>>
cacheVars == <<messages, warm, lru, warmed>>
vars == <<fileVars, indexVars, cacheVars, watcher, found, adopting, emitted>>

Lines(from, to) == {i \in 1 .. MaxPieces : 2 * i - 1 > from /\ 2 * i <= to}
InOrder(lines) ==
    CHOOSE q \in [1 .. Cardinality(lines) -> lines] : \A i, j \in DOMAIN q : i < j => q[i] < q[j]

Asleep == [at |-> "asleep"]
Old0 == 2 * OldLines

(* The files of Old may have grown between the scan and the start of the   *)
(* loop, whose receiver does not see the events of that time.              *)
Init ==
    /\ missed \in SUBSET Old
    /\ size = [s \in Sessions |-> IF s \in missed THEN Old0 + 2 ELSE IF s \in Old THEN Old0 ELSE 0]
    /\ changed = {}
    /\ paths = Old /\ registered = Old
    /\ offsets = [s \in Sessions |-> IF s \in Old THEN Old0 ELSE 0]
    /\ watcher = Asleep
    /\ found = {} /\ adopting = <<>>
    /\ messages = [s \in Sessions |-> <<>>]
    /\ warm = {} /\ lru = <<>>
    /\ emitted = [s \in Sessions |-> <<>>]
    /\ warmed = [s \in Sessions |-> 0]

-----------------------------------------------------------------------------
(* The agent appends and the kernel reports it.                            *)
Write(s) ==
    /\ \E n \in Writes :
          /\ MapThenSumSet(LAMBDA x : size[x], Sessions) + n <= MaxPieces
          /\ size' = [size EXCEPT ![s] = @ + n]
    /\ changed' = changed \cup {s}
    /\ missed' = missed \ {s}
    /\ UNCHANGED <<indexVars, cacheVars, watcher, found, adopting, emitted>>

(* The channel of 1024 events overflows.                                   *)
LoseEvent(s) ==
    /\ s \in changed
    /\ changed' = changed \ {s}
    /\ missed' = missed \cup {s}
    /\ UNCHANGED <<size, indexVars, cacheVars, watcher, found, adopting, emitted>>

-----------------------------------------------------------------------------
(* The watcher loop, one event at a time.  It stores the path, registers   *)
(* a session it does not know, and reads the offset.                       *)
Notice(s) ==
    /\ watcher = Asleep /\ s \in changed
    /\ changed' = changed \ {s}
    /\ paths' = paths \cup {s}
    /\ registered' = registered \cup {s}
    /\ watcher' = [at |-> "offset", session |-> s]
    /\ UNCHANGED <<size, missed, offsets, cacheVars, found, adopting, emitted>>

ReadOffset ==
    /\ watcher.at = "offset"
    /\ watcher' = [at |-> "parse", session |-> watcher.session, from |-> offsets[watcher.session]]
    /\ UNCHANGED <<fileVars, indexVars, cacheVars, found, adopting, emitted>>

Goes(lines) ==
    watcher' = IF lines = {} THEN Asleep
               ELSE [at |-> "store", session |-> watcher.session, lines |-> lines]

(* parse_incremental reads to the end of the file; a piece of a line is a  *)
(* malformed line, skipped like any other, and the offset is moved past    *)
(* it.  The loop is done if there is nothing new.                          *)
ParseNew ==
    /\ watcher.at = "parse"
    /\ Goes(Lines(watcher.from, size[watcher.session]))
    /\ offsets' = [offsets EXCEPT ![watcher.session] = size[watcher.session]]
    /\ UNCHANGED <<fileVars, paths, registered, cacheVars, found, adopting, emitted>>

Published == watcher' = [watcher EXCEPT !.at = "publish"]

(* Under the world's write lock: the messages are spawned and the cache    *)
(* meta is written, with is_warm.                                          *)
StoreMessages ==
    /\ watcher.at = "store"
    /\ LET s == watcher.session IN
       /\ messages' = [messages EXCEPT ![s] = @ \o InOrder(watcher.lines)]
       /\ warm' = warm \cup {s}
       /\ warmed' = IF s \in warm THEN warmed ELSE [warmed EXCEPT ![s] = size[s]]
    /\ Published
    /\ UNCHANGED <<fileVars, indexVars, lru, found, adopting, emitted>>

PublishMessages ==
    /\ watcher.at = "publish"
    /\ emitted' = [emitted EXCEPT ![watcher.session] = @ \o InOrder(watcher.lines)]
    /\ watcher' = Asleep
    /\ UNCHANGED <<fileVars, indexVars, cacheVars, found, adopting>>

-----------------------------------------------------------------------------
(* The rescan, every 30 seconds: the sizes are those of the scan, which    *)
(* ends before the first session is looked at.                             *)
Scan ==
    /\ found = {} /\ adopting = <<>>
    /\ found' = {[session |-> s, size |-> size[s]] : s \in {x \in Sessions : size[x] > 0}}
    /\ UNCHANGED <<fileVars, indexVars, cacheVars, watcher, adopting, emitted>>

Look(entry) ==
    /\ entry \in found /\ adopting = <<>>
    /\ found' = found \ {entry}
    /\ paths' = paths \cup {entry.session}
    /\ adopting' = IF entry.session \in registered THEN <<>> ELSE <<entry>>
    /\ UNCHANGED <<fileVars, registered, offsets, cacheVars, watcher, emitted>>

(* A session that was unknown is registered, and its offset set although   *)
(* the watcher may have registered and read it meanwhile.                  *)
Adopt ==
    /\ adopting # <<>>
    /\ LET entry == Head(adopting) IN
       /\ registered' = registered \cup {entry.session}
       /\ offsets' = [offsets EXCEPT ![entry.session] = entry.size]
    /\ adopting' = <<>>
    /\ UNCHANGED <<fileVars, paths, cacheVars, watcher, found, emitted>>

-----------------------------------------------------------------------------
(* The cache, under the world's write lock of the API handler.             *)

Held(set) == MapThenSumSet(LAMBDA s : Len(messages[s]), set)

(* Mutant: only the number of sessions is looked at.                       *)
Victims_ByCount == SubSeq(lru, 1, Max({0, Len(lru) - MaxWarm}))

(* lru_evict pops from the front while there are too many sessions, or too *)
(* many messages in the whole world.                                       *)
Victims ==
    LET Popped(n) == SubSeq(lru, 1, n)
        Enough(n) ==
            /\ Len(lru) - n <= MaxWarm
            /\ n = Len(lru) \/ Held(Sessions \ ToSet(Popped(n))) <= MaxCached
    IN  Popped(Min({n \in 0 .. Len(lru) : Enough(n)}))

Kept == SubSeq(lru, Len(Victims) + 1, Len(lru))

(* Mutant: a session that is touched keeps its old place as well.          *)
Touch_KeepsPlace(list, s) == Append(list, s)

(* lru_touch                                                               *)
Touch(list, s) == Append(RemoveFirst(list, s), s)

(* invalidate_cache of every victim                                        *)
Evicted(cache, victims) == [s \in Sessions |-> IF s \in victims THEN <<>> ELSE cache[s]]

(* Mutant: the watcher's offset follows, so that it does not parse again.  *)
EnsureWarm_MovesOffset(s) ==
    LET victims == ToSet(Victims) IN
    /\ offsets' = [offsets EXCEPT ![s] = size[s]]
    /\ messages' = [Evicted(messages, victims) EXCEPT ![s] = InOrder(Lines(0, size[s]))]
    /\ warm' = (warm \ victims) \cup {s}
    /\ lru' = Touch(Kept, s)
    /\ warmed' = [warmed EXCEPT ![s] = size[s]]
    /\ UNCHANGED <<paths, registered>>

(* ensure_warm of a cold session evicts first and then parses the whole    *)
(* file: a cold session has no cache meta, so refresh starts at offset 0   *)
(* and its other branches are never taken.                                 *)
EnsureWarm(s) ==
    LET victims == ToSet(Victims) IN
    /\ messages' = [Evicted(messages, victims) EXCEPT ![s] = @ \o InOrder(Lines(0, size[s]))]
    /\ warm' = (warm \ victims) \cup {s}
    /\ lru' = Touch(Kept, s)
    /\ warmed' = [warmed EXCEPT ![s] = size[s]]
    /\ UNCHANGED indexVars

(* api_get_messages and api_get_session_stats                              *)
GetMessages(s) ==
    /\ s \in paths
    /\ IF s \in warm
       THEN lru' = Touch(lru, s) /\ UNCHANGED <<messages, warm, warmed, indexVars>>
       ELSE size[s] <= MaxCacheable /\ EnsureWarm(s)
    /\ UNCHANGED <<fileVars, watcher, found, adopting, emitted>>

WatcherStep == ReadOffset \/ ParseNew \/ StoreMessages \/ PublishMessages

Next ==
    \/ \E s \in Sessions : Write(s) \/ LoseEvent(s) \/ Notice(s) \/ GetMessages(s)
    \/ WatcherStep
    \/ Scan \/ (\E entry \in found : Look(entry)) \/ Adopt

Spec == Init /\ [][Next]_vars
-----------------------------------------------------------------------------
(* Type invariant.                                                         *)
TypeOK ==
    /\ size \in [Sessions -> 0 .. MaxPieces]
    /\ changed \subseteq Sessions /\ missed \subseteq Sessions \ changed
    /\ registered \subseteq paths /\ paths \subseteq Sessions
    /\ \A s \in Sessions : offsets[s] <= size[s]
    /\ messages \in [Sessions -> Seq(1 .. MaxPieces)]
    /\ emitted \in [Sessions -> Seq(1 .. MaxPieces)]
    /\ warm \subseteq Sessions /\ lru \in Seq(Sessions)

(* The list and the world agree: every listed session is warm and listed   *)
(* once, so that each eviction frees something.                            *)
LruIsWarm == ToSet(lru) \subseteq warm /\ IsInjective(lru)

(* A cold session has nothing left in the world that a new parse would     *)
(* repeat.                                                                 *)
ColdIsEmpty == \A s \in Sessions \ warm : messages[s] = <<>>

(* The three places that describe the cache - list, meta and messages -    *)
(* agree after every step of watcher, request and eviction.                *)
CacheIsConsistent == LruIsWarm /\ ColdIsEmpty

(* After a request the world holds at most the budget and what the request *)
(* itself loaded, unless the list had nothing more to give.                *)
EvictionMeetsBudget ==
    [][\A s \in Sessions : s \in warm' \ warm /\ watcher' = watcher
          => \/ lru' = <<s>>
             \/ MapThenSumSet(LAMBDA x : Len(messages'[x]), Sessions \ {s}) <= MaxCached]_vars

(* Nothing the watcher has to do for s.                                    *)
Settled(s) ==
    /\ s \notin changed \cup missed
    /\ watcher = Asleep \/ watcher.session # s

(* With whole-line writes, a session known since startup is pushed to the  *)
(* clients line by line, in order, each line once, whatever the rescan and *)
(* the cache do meanwhile.                                                 *)
EmittedInOrder ==
    \A s \in Old : \A i, j \in DOMAIN emitted[s] : i < j => emitted[s][i] < emitted[s][j]

(* And none is left out: once the watcher has caught up, all lines written *)
(* since startup were pushed; the event after a lost one makes up for it.  *)
EveryLineEmitted ==
    \A s \in Old : Settled(s) => ToSet(emitted[s]) = Lines(Old0, size[s])

(* A cache is as fresh as the watcher: a warm session is not parsed again, *)
(* so what was written since it became warm must have been stored.         *)
CacheCatchesUp ==
    \A s \in Old \cap warm : Settled(s) => Lines(warmed[s], size[s]) \subseteq ToSet(messages[s])


(* Every line written since startup arrives: at the clients once and in    *)
(* order, and in the cache.                                                *)
LinesArrive == EmittedInOrder /\ EveryLineEmitted /\ CacheCatchesUp
=============================================================================
