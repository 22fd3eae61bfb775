--------------------------- MODULE Sessions_proofs --------------------------
(***************************************************************************)
(* Proofs about sessions, for any files, directories, CLIs and messages:   *)
(* how their files are found (Discovery), what they are linked with        *)
(* (SessionLinking), that what passes between a CLI and the users arrives  *)
(* whole (SessionLifecycle), and what of them the browser shows            *)
(* (SessionStore).                                                         *)
(***************************************************************************)
EXTENDS Discovery, SessionLinking, SessionLifecycle, SessionStore, SequenceFacts

-----------------------------------------------------------------------------
(***************************************************************************)
(* Discovery.  The two writers of a row, the watcher loop and the scanner, *)
(* apply what they read earlier.  DiscoveryInv says of everything read and *)
(* not yet applied (a found SessionInfo, the latest time of parsed lines)  *)
(* that it is true of the file as it now is, however much was written to it*)
(* meanwhile.                                                              *)
(***************************************************************************)

Line == [time : Nat, size : {"small", "front", "back"}]
Info == [file : Logs, size : Nat, started : Nat, last : Nat]
Row == [count : Nat, started : Nat, last : Nat]

DiscoveryTypeOK ==
    /\ clock \in Nat
    /\ logs \in [Logs -> Seq(Line)]
    /\ phase \in {"startup", "registered", "running"}
    /\ scan \in [at : {"walking", "waiting"}, left : SUBSET Folders, found : SUBSET Info]
           \cup [at : {"settle"}, left : {{}}, found : SUBSET Info, info : Info, exists : BOOLEAN]
    /\ watch \in [at : {"idle"}] \cup [at : {"register"}, file : Logs, exists : BOOLEAN]
           \cup [at : {"parse"}, file : Logs]
           \cup [at : {"touch"}, file : Logs, upto : Nat, latest : Nat]
    /\ logEvents \subseteq Logs
    /\ parsed \in [Logs -> Nat]
    /\ rows \in [Logs -> Row]
    /\ behind \subseteq Logs

LinesOf(f) == DOMAIN logs[f]
TimeOf(f, k) == logs[f][k].time

(* The lines whose time can be read from the end of the file.              *)
Ending(lines) ==
    {k \in DOMAIN lines : lines[k].size # "front" /\ \A j \in (k + 1) .. Len(lines) : lines[j].size = "small"}

TimesGrow ==
    \A f \in Logs : \A k \in LinesOf(f) :
        /\ TimeOf(f, k) <= clock
        /\ TimeOf(f, k) = 0 => logs[f][k].size = "small"
        /\ \A j \in LinesOf(f) : j < k /\ TimeOf(f, k) # 0 => TimeOf(f, j) <= TimeOf(f, k)

IsFirst(f, time) == \A k \in LinesOf(f) : TimeOf(f, k) # 0 => time <= TimeOf(f, k)
Occurs(f, time) == time = 0 \/ \E k \in LinesOf(f) : TimeOf(f, k) = time

InfoIsTrue(info) ==
    /\ info.size <= Len(logs[info.file])
    /\ info.started <= clock /\ info.last <= clock
    /\ IsFirst(info.file, info.started) 
    /\ Occurs(info.file, info.last)
    /\ \A k \in Ending(logs[info.file]) : k <= info.size => TimeOf(info.file, k) <= info.last

Infos == scan.found \cup (IF scan.at = "settle" THEN {scan.info} ELSE {})

Pending(f) == IF watch.at = "touch" /\ watch.file = f THEN watch.latest ELSE 0

RowIsTrue(f) ==
    /\ parsed[f] <= Len(logs[f])
    /\ rows[f].count > 0 =>
          /\ rows[f].count = 1
          /\ rows[f].started <= clock /\ rows[f].last <= clock
          /\ rows[f].started <= rows[f].last \/ (rows[f].last = 0 /\ IsFirst(f, rows[f].started))
          /\ \A k \in Ending(logs[f]) :
                /\ k <= parsed[f] => TimeOf(f, k) <= rows[f].last \/ TimeOf(f, k) <= Pending(f)
                /\ f \notin behind => TimeOf(f, k) <= rows[f].last

WatchIsTrue ==
    /\ watch.at \in {"parse", "touch"} => rows[watch.file].count > 0
    /\ watch.at = "register" /\ watch.exists => rows[watch.file].count > 0
    /\ watch.at = "touch" =>
          /\ watch.upto <= Len(logs[watch.file])
          /\ watch.latest <= clock /\ Occurs(watch.file, watch.latest)
          /\ \A k \in Ending(logs[watch.file]) : k <= watch.upto =>
                TimeOf(watch.file, k) <= watch.latest \/ TimeOf(watch.file, k) <= rows[watch.file].last

ScanIsTrue ==
    /\ \A i \in Infos : InfoIsTrue(i)
    /\ \A i, j \in scan.found : i.file = j.file => i = j
    /\ \A i \in scan.found : FolderOf[i.file] \notin scan.left
    /\ scan.at = "settle" /\ scan.exists => rows[scan.info.file].count > 0
    /\ scan.at = "settle" /\ ~ scan.exists /\ rows[scan.info.file].count > 0 =>
          \A k \in LinesOf(scan.info.file) : k <= scan.info.size =>
              TimeOf(scan.info.file, k) <= rows[scan.info.file].last

StartsQuiet ==
    /\ phase # "running" => watch.at = "idle" /\ logEvents = {} /\ scan.at # "settle"
    /\ phase = "startup" => \A f \in Logs : rows[f].count = 0
    /\ phase # "startup" => \A f \in Logs : rows[f].count = 0 => f \in behind \/ logs[f] = <<>>

DiscoveryInv ==
    /\ DiscoveryTypeOK /\ TimesGrow /\ ScanIsTrue /\ WatchIsTrue /\ StartsQuiet
    /\ \A f \in Logs : RowIsTrue(f)

-----------------------------------------------------------------------------
(* The helpers.                                                            *)

(* A bounded set of numbers has a least member, and a largest.             *)
LEMMA LeastExists ==
    ASSUME NEW S \in SUBSET Nat, S # {}
    PROVE  \E x \in S : \A y \in S : x <= y
<1>1. PICK m \in S : \A y \in S : ~ (<<y, m>> \in OpToRel(<, Nat))
  BY NatLessThanWellFounded, WFMin
<1>2. ASSUME NEW i \in Nat, NEW j \in Nat, i < j
      PROVE  <<i, j>> \in OpToRel(<, Nat)
  BY <1>2, Zenon DEF OpToRel
<1>3. \A y \in S : ~ (y < m)
  BY <1>1, <1>2, Zenon
<1>4. \A y \in S : m <= y
  BY <1>3
<1> QED BY <1>4

LEMMA LargestIsLargest ==
    ASSUME NEW b \in Nat, NEW S \in SUBSET (0 .. b)
    PROVE  /\ LargestOf(S) \in 0 .. b
           /\ S # {} => LargestOf(S) \in S
           /\ \A x \in S : x <= LargestOf(S)
<1>1. CASE S = {}
  BY <1>1 DEF LargestOf
<1>2. CASE S # {}
  <2> DEFINE T == {b - x : x \in S}
  <2>1. T \subseteq Nat /\ T # {}
    <3>1. \A x \in S : b - x \in Nat
      OBVIOUS
    <3> QED BY <1>2, <3>1
  <2>2. PICK m \in T : \A y \in T : m <= y
    <3> HIDE DEF T
    <3> QED BY <2>1, LeastExists
  <2>3. PICK x \in S : m = b - x
    BY <2>2
  <2>4. \A y \in S : y <= x
    BY <2>2, <2>3
  <2>5. LargestOf(S) = CHOOSE z \in S : \A y \in S : y <= z
    BY <1>2 DEF LargestOf
  <2> QED BY <2>4, <2>5
<1> QED BY <1>1, <1>2

(* The first time the scanner can see is the first time of the file.       *)
LEMMA FirstTimestampIsFirst ==
    ASSUME DiscoveryTypeOK, TimesGrow, NEW f \in Logs
    PROVE  /\ FirstTimestamp(logs[f]) \in 0 .. clock
           /\ IsFirst(f, FirstTimestamp(logs[f]))
<1> DEFINE lines == logs[f]
           visible == {i \in DOMAIN lines : /\ lines[i].time # 0 /\ lines[i].size # "back"
                                            /\ \A j \in 1 .. (i - 1) : lines[j].size = "small"}
<1>1. clock \in Nat /\ lines \in Seq(Line) /\ \A k \in DOMAIN lines : lines[k] \in Line
  BY DEF DiscoveryTypeOK
<1>2. \A k \in DOMAIN lines : lines[k].time \in Nat
  BY <1>1 DEF Line
<1>3. DOMAIN lines \subseteq Nat /\ DOMAIN lines = 1 .. Len(lines)
  BY <1>1
<1>4. FirstTimestamp(lines) = IF visible = {} THEN 0
          ELSE lines[CHOOSE i \in visible : \A j \in visible : i <= j].time
  BY DEF FirstTimestamp
<1>5. CASE visible = {}
  <2>1. FirstTimestamp(lines) = 0
    <3> HIDE DEF visible, lines
    <3> QED BY <1>4, <1>5
  <2> QED BY <1>1, <1>2, <2>1 DEF IsFirst, LinesOf, TimeOf
<1>6. CASE visible # {}
  <2>1. visible \subseteq Nat
    BY <1>3
  <2>2. \E i \in visible : \A j \in visible : i <= j
    <3> HIDE DEF visible
    <3> QED BY <1>6, <2>1, LeastExists
  <2>3. PICK i \in visible : /\ \A j \in visible : i <= j
                             /\ FirstTimestamp(lines) = lines[i].time
    <3> HIDE DEF visible, lines
    <3> QED BY <1>4, <1>6, <2>2
  <2>4. ASSUME NEW k \in DOMAIN lines, lines[k].time # 0
        PROVE  lines[i].time <= lines[k].time
    <3>1. CASE i < k
      BY <2>4, <3>1 DEF TimesGrow, LinesOf, TimeOf
    <3>2. CASE i = k
      BY <1>2, <3>2
    <3>3. CASE k < i
      <4>1. lines[k].size = "small" /\ \A j \in 1 .. (k - 1) : lines[j].size = "small"
        <5>1. i \in DOMAIN lines /\ \A j \in 1 .. (i - 1) : lines[j].size = "small"
          OBVIOUS
        <5>2. k \in 1 .. (i - 1) /\ \A j \in 1 .. (k - 1) : j \in 1 .. (i - 1)
          BY <1>3, <3>3, <5>1
        <5> QED BY <5>1, <5>2
      <4>2. k \in visible
        BY <2>4, <4>1
      <4> QED BY <1>3, <2>3, <3>3, <4>2
    <3> QED BY <1>3, <3>1, <3>2, <3>3
  <2>5. lines[i].time \in 0 .. clock
    BY <1>1, <1>2 DEF TimesGrow, LinesOf, TimeOf
  <2> QED BY <2>3, <2>4, <2>5 DEF IsFirst, LinesOf, TimeOf
<1> QED BY <1>5, <1>6

LEMMA LastTimestampIsLast ==
    ASSUME DiscoveryTypeOK, TimesGrow, NEW f \in Logs
    PROVE  /\ LastTimestamp(logs[f]) \in 0 .. clock
           /\ \A k \in Ending(logs[f]) : TimeOf(f, k) <= LastTimestamp(logs[f])
           /\ \/ LastTimestamp(logs[f]) = 0
              \/ \E k \in Ending(logs[f]) : TimeOf(f, k) = LastTimestamp(logs[f])
<1> DEFINE S == {logs[f][i].time : i \in Ending(logs[f])}
<1>1. clock \in Nat /\ logs[f] \in Seq(Line) /\ \A k \in DOMAIN logs[f] : logs[f][k] \in Line
  BY DEF DiscoveryTypeOK
<1>2. Ending(logs[f]) \subseteq DOMAIN logs[f]
  BY DEF Ending
<1>3. S \in SUBSET (0 .. clock)
  BY <1>1, <1>2 DEF TimesGrow, LinesOf, TimeOf, Line
<1>4. LastTimestamp(logs[f]) = LargestOf(S)
  BY DEF LastTimestamp, Ending
<1>5. /\ LargestOf(S) \in 0 .. clock
      /\ S # {} => LargestOf(S) \in S
      /\ \A x \in S : x <= LargestOf(S)
  <2> HIDE DEF S
  <2> QED BY <1>1, <1>3, LargestIsLargest
<1>6. S = {} => LargestOf(S) = 0
  BY DEF LargestOf
<1> QED BY <1>4, <1>5, <1>6 DEF TimeOf

(* A file is read as it is.                                                *)
LEMMA SessionInfoIsTrue ==
    ASSUME DiscoveryTypeOK, TimesGrow, NEW f \in Logs
    PROVE  /\ SessionInfo(f) \in Info /\ SessionInfo(f).file = f
           /\ SessionInfo(f).size = Len(logs[f])
           /\ InfoIsTrue(SessionInfo(f))
<1>1. clock \in Nat /\ Len(logs[f]) \in Nat /\ Ending(logs[f]) \subseteq DOMAIN logs[f]
  BY DEF DiscoveryTypeOK, Ending
<1>2. /\ SessionInfo(f).file = f /\ SessionInfo(f).size = Len(logs[f])
      /\ SessionInfo(f).started = FirstTimestamp(logs[f])
      /\ SessionInfo(f).last = LastTimestamp(logs[f])
  BY DEF SessionInfo
<1>3. /\ FirstTimestamp(logs[f]) \in 0 .. clock
      /\ IsFirst(f, FirstTimestamp(logs[f]))
  BY FirstTimestampIsFirst
<1>4. /\ LastTimestamp(logs[f]) \in 0 .. clock
      /\ \A k \in Ending(logs[f]) : TimeOf(f, k) <= LastTimestamp(logs[f])
      /\ \/ LastTimestamp(logs[f]) = 0
         \/ \E k \in Ending(logs[f]) : TimeOf(f, k) = LastTimestamp(logs[f])
  BY LastTimestampIsLast
<1>5. SessionInfo(f) \in Info
  BY <1>1, <1>3, <1>4 DEF SessionInfo, Info
<1>6. InfoIsTrue(SessionInfo(f))
  <2>1. Occurs(f, LastTimestamp(logs[f]))
    BY <1>1, <1>4 DEF Occurs, LinesOf
  <2> QED BY <1>1, <1>2, <1>3, <1>4, <2>1 DEF InfoIsTrue
<1> QED BY <1>2, <1>5, <1>6

(* A row made from what was found is true, ...                             *)
LEMMA FoundStartsBeforeItEnds ==
    ASSUME DiscoveryTypeOK, NEW info \in Info, InfoIsTrue(info)
    PROVE  \/ info.started <= info.last
           \/ info.last = 0 /\ IsFirst(info.file, info.started)
BY DEF InfoIsTrue, IsFirst, Occurs, Info

(* What can be read from the end of a longer file could be before.         *)
LEMMA EndingOfAppend ==
    ASSUME NEW lines \in Seq(Line), NEW line \in Line
    PROVE  /\ Append(lines, line) \in Seq(Line)
           /\ Len(Append(lines, line)) = Len(lines) + 1 /\ Len(lines) \in Nat
           /\ DOMAIN Append(lines, line) = DOMAIN lines \cup {Len(lines) + 1}
           /\ DOMAIN lines = 1 .. Len(lines)
           /\ Append(lines, line)[Len(lines) + 1] = line
           /\ \A k \in DOMAIN lines : Append(lines, line)[k] = lines[k]
           /\ \A k \in Ending(Append(lines, line)) : k = Len(lines) + 1 \/ k \in Ending(lines)
<1> DEFINE longer == Append(lines, line)
<1>1. /\ longer \in Seq(Line)
      /\ Len(longer) = Len(lines) + 1 /\ Len(lines) \in Nat
      /\ DOMAIN longer = DOMAIN lines \cup {Len(lines) + 1}
      /\ DOMAIN lines = 1 .. Len(lines)
      /\ longer[Len(lines) + 1] = line
      /\ \A k \in DOMAIN lines : longer[k] = lines[k]
  OBVIOUS
<1> HIDE DEF longer
<1>2. ASSUME NEW k \in Ending(longer), k # Len(lines) + 1
      PROVE  k \in Ending(lines)
  <2>1. k \in DOMAIN lines /\ longer[k].size # "front" /\ \A j \in (k + 1) .. Len(longer) : longer[j].size = "small"
    BY <1>1, <1>2 DEF Ending
  <2>2. lines[k].size # "front" /\ \A j \in (k + 1) .. Len(lines) : lines[j].size = "small"
    BY <1>1, <2>1
  <2> QED BY <2>1, <2>2 DEF Ending
<1> QED BY <1>1, <1>2 DEF longer

-----------------------------------------------------------------------------
(* What each action leaves alone.                                          *)
LEMMA SameFiles ==
    ASSUME UNCHANGED <<logs, clock>>
    PROVE  /\ TimesGrow => TimesGrow'
           /\ \A i : InfoIsTrue(i)' <=> InfoIsTrue(i)
           /\ \A f, time : IsFirst(f, time)' <=> IsFirst(f, time)
           /\ \A f, time : Occurs(f, time)' <=> Occurs(f, time)
           /\ \A f, k : TimeOf(f, k)' = TimeOf(f, k)
           /\ \A f : LinesOf(f)' = LinesOf(f)
BY DEF TimesGrow, InfoIsTrue, IsFirst, Occurs, TimeOf, LinesOf

LEMMA SameRow ==
    ASSUME DiscoveryTypeOK, UNCHANGED <<logs, clock>>, NEW f \in Logs, RowIsTrue(f),
           rows'[f] = rows[f], parsed'[f] = parsed[f], f \in behind => f \in behind',
           UNCHANGED watch \/ Pending(f) = 0
    PROVE  RowIsTrue(f)'
<1>1. \A k \in Ending(logs[f]) : TimeOf(f, k) \in Nat /\ TimeOf(f, k)' = TimeOf(f, k)
  <2>1. logs[f] \in Seq(Line) /\ Ending(logs[f]) \subseteq DOMAIN logs[f]
    BY DEF DiscoveryTypeOK, Ending
  <2>2. \A k \in DOMAIN logs[f] : logs[f][k] \in Line
    BY <2>1
  <2> QED BY <2>1, <2>2 DEF TimeOf, Line
<1>2. rows[f].last \in Nat
  BY DEF DiscoveryTypeOK, Row
<1>3. UNCHANGED watch => Pending(f)' = Pending(f)
  BY DEF Pending
<1>4. \A k \in Ending(logs[f]) : TimeOf(f, k) <= rows[f].last \/ TimeOf(f, k) <= Pending(f) =>
          TimeOf(f, k) <= rows[f].last \/ TimeOf(f, k) <= Pending(f)'
  BY <1>1, <1>2, <1>3
<1>5. IsFirst(f, rows[f].started) => IsFirst(f, rows[f].started)'
  BY DEF IsFirst, TimeOf, LinesOf
<1> QED BY <1>1, <1>4, <1>5 DEF RowIsTrue

LEMMA SameWatch ==
    ASSUME UNCHANGED <<logs, clock, watch, rows>>, WatchIsTrue
    PROVE  WatchIsTrue'
BY DEF WatchIsTrue, Occurs, TimeOf, LinesOf

LEMMA SameScan ==
    ASSUME UNCHANGED <<logs, clock, scan, rows>>, ScanIsTrue
    PROVE  ScanIsTrue'
BY SameFiles DEF ScanIsTrue, Infos

(* A line at the end of one file.                                          *)
LEMMA AppendLineStep ==
    ASSUME DiscoveryInv, NEW f \in Logs, AppendLine(f)
    PROVE  DiscoveryInv'
<1>1. DiscoveryTypeOK /\ TimesGrow /\ ScanIsTrue /\ WatchIsTrue /\ StartsQuiet
  BY DEF DiscoveryInv
<1>2. PICK line \in LogLines : /\ line.time \in {0, clock'}
                               /\ line.time = 0 => line.size = "small"
                               /\ logs' = [logs EXCEPT ![f] = Append(@, line)]
  BY DEF AppendLine
<1>3. clock \in Nat /\ clock' = clock + 1 /\ line \in Line
  BY <1>1, <1>2, DiscoveryAssumption DEF AppendLine, DiscoveryTypeOK, LogLines, Line, DiscoveryAssumption
<1>4. /\ UNCHANGED <<phase, scan, watch, parsed, rows>> /\ behind' = behind \cup {f}
      /\ logEvents' \subseteq Logs /\ (phase # "running" => logEvents' = logEvents)
  BY <1>1 DEF AppendLine, DiscoveryTypeOK
<1>0. PICK n \in Nat : n = Len(logs[f])
  BY <1>1 DEF DiscoveryTypeOK
<1>5. /\ logs[f] \in Seq(Line) /\ logs'[f] = Append(logs[f], line)
      /\ \A g \in Logs \ {f} : logs'[g] = logs[g]
      /\ \A g \in Logs : logs[g] \in Seq(Line) /\ \A k \in DOMAIN logs[g] : logs[g][k] \in Line
      /\ DOMAIN logs' = Logs
  BY <1>1, <1>2 DEF DiscoveryTypeOK
<1>6. /\ logs'[f] \in Seq(Line)
      /\ Len(logs'[f]) = n + 1 /\ n \in Nat
      /\ DOMAIN logs'[f] = DOMAIN logs[f] \cup {n + 1}
      /\ DOMAIN logs[f] = 1 .. n
      /\ logs'[f][n + 1] = line
      /\ \A k \in DOMAIN logs[f] : logs'[f][k] = logs[f][k]
      /\ \A k \in Ending(logs'[f]) : k = n + 1 \/ k \in Ending(logs[f])
  BY <1>0, <1>3, <1>5, EndingOfAppend
<1>7. DiscoveryTypeOK'
  <2>1. logs' \in [Logs -> Seq(Line)]
    BY <1>1, <1>2, <1>5, <1>6 DEF DiscoveryTypeOK
  <2> QED BY <1>1, <1>3, <1>4, <2>1 DEF DiscoveryTypeOK
<1>8. \A g \in Logs : \A k \in LinesOf(g) : /\ TimeOf(g, k) \in Nat /\ TimeOf(g, k) <= clock
                                            /\ k \in LinesOf(g)' /\ TimeOf(g, k)' = TimeOf(g, k)
                                            /\ logs'[g][k] = logs[g][k]
  BY <1>1, <1>5, <1>6 DEF TimesGrow, LinesOf, TimeOf, Line
<1>9. \A g \in Logs : \A k \in LinesOf(g)' : \/ k \in LinesOf(g)
                                             \/ g = f /\ k = n + 1 /\ k \notin LinesOf(g)
  BY <1>5, <1>6 DEF LinesOf
<1>10. \A g \in Logs : Len(logs[g]) \in Nat /\ DOMAIN logs[g] = 1 .. Len(logs[g])
  BY <1>5
<1>11. TimeOf(f, n + 1)' = line.time /\ (line.time = 0 \/ line.time = clock + 1)
  BY <1>2, <1>3, <1>6 DEF TimeOf
<1>12. TimesGrow'
  <2> SUFFICES ASSUME NEW g \in Logs, NEW k \in LinesOf(g)'
               PROVE  /\ TimeOf(g, k)' <= clock'
                      /\ TimeOf(g, k)' = 0 => logs'[g][k].size = "small"
                      /\ \A j \in LinesOf(g)' : j < k /\ TimeOf(g, k)' # 0
                            => TimeOf(g, j)' <= TimeOf(g, k)'
    BY DEF TimesGrow
  <2>1. CASE k \in LinesOf(g)
    <3>1. TimeOf(g, k)' <= clock' /\ (TimeOf(g, k)' = 0 => logs'[g][k].size = "small")
      BY <1>1, <1>3, <1>8, <2>1 DEF TimesGrow
    <3>2. ASSUME NEW j \in LinesOf(g)', j < k, TimeOf(g, k)' # 0
          PROVE  TimeOf(g, j)' <= TimeOf(g, k)'
      <4>1. j \in LinesOf(g)
        BY <1>6, <1>9, <2>1, <3>2 DEF LinesOf
      <4> QED BY <1>1, <1>8, <2>1, <3>2, <4>1 DEF TimesGrow
    <3> QED BY <3>1, <3>2
  <2>2. CASE g = f /\ k = n + 1 /\ k \notin LinesOf(g)
    <3>1. TimeOf(g, k)' <= clock' /\ (TimeOf(g, k)' = 0 => logs'[g][k].size = "small")
      BY <1>2, <1>3, <1>6, <1>11, <2>2
    <3>2. ASSUME NEW j \in LinesOf(g)', j < k, TimeOf(g, k)' # 0
          PROVE  TimeOf(g, j)' <= TimeOf(g, k)'
      <4>1. j \in LinesOf(g)
        BY <1>6, <1>9, <2>2, <3>2
      <4> QED BY <1>3, <1>8, <1>11, <2>2, <3>2, <4>1
    <3> QED BY <3>1, <3>2
  <2> QED BY <1>9, <2>1, <2>2
<1>13. ASSUME NEW g \in Logs, NEW time \in 0 .. clock
       PROVE  /\ IsFirst(g, time) => IsFirst(g, time)'
              /\ Occurs(g, time) => Occurs(g, time)'
  <2>1. IsFirst(g, time) => IsFirst(g, time)'
    BY <1>3, <1>8, <1>9, <1>11 DEF IsFirst
  <2>2. Occurs(g, time) => Occurs(g, time)'
    BY <1>8 DEF Occurs
  <2> QED BY <2>1, <2>2
<1>14. ASSUME NEW g \in Logs, NEW k \in Ending(logs'[g])
       PROVE  \/ k \in Ending(logs[g]) /\ TimeOf(g, k)' = TimeOf(g, k)
              \/ g = f /\ k = n + 1
  <2>1. k \in Ending(logs[g]) => k \in LinesOf(g)
    BY DEF Ending, LinesOf
  <2> QED BY <1>5, <1>6, <1>8, <2>1
<1>15. ASSUME NEW i \in Info, InfoIsTrue(i)
       PROVE  InfoIsTrue(i)'
  <2>1. i.file \in Logs /\ i.size \in Nat /\ i.started \in 0 .. clock /\ i.last \in 0 .. clock
    BY <1>3, <1>15 DEF Info, InfoIsTrue
  <2>2. i.size <= Len(logs'[i.file]) /\ (i.file = f => i.size <= n)
    BY <1>5, <1>6, <1>10, <1>15, <2>1, <1>0 DEF InfoIsTrue
  <2>3. \A k \in Ending(logs'[i.file]) : k <= i.size => TimeOf(i.file, k)' <= i.last
    BY <1>6, <1>14, <1>15, <2>1, <2>2 DEF InfoIsTrue
  <2> QED BY <1>3, <1>13, <1>15, <2>1, <2>2, <2>3 DEF InfoIsTrue
<1>16. Infos' = Infos /\ Infos \subseteq Info
  BY <1>1, <1>4 DEF Infos, DiscoveryTypeOK
<1>17. ScanIsTrue'
  <2>1. \A i \in Infos' : InfoIsTrue(i)'
    BY <1>1, <1>15, <1>16 DEF ScanIsTrue
  <2>2. ASSUME scan.at = "settle", ~ scan.exists, rows[scan.info.file].count > 0
        PROVE  \A k \in LinesOf(scan.info.file)' : k <= scan.info.size =>
                   TimeOf(scan.info.file, k)' <= rows[scan.info.file].last
    <3>1. PICK i \in Info : i = scan.info /\ i \in Infos
      BY <1>16, <2>2 DEF Infos
    <3>2. i.file \in Logs /\ i.size \in Nat /\ i.size <= Len(logs[i.file])
      BY <1>1, <3>1 DEF ScanIsTrue, InfoIsTrue, Info
    <3>3. \A k \in LinesOf(i.file)' : k <= i.size => k \in LinesOf(i.file)
      BY <1>0, <1>6, <1>9, <3>2
    <3>4. \A k \in LinesOf(i.file) : k <= i.size => TimeOf(i.file, k) <= rows[i.file].last
      BY <1>1, <2>2, <3>1 DEF ScanIsTrue
    <3>5. \A k \in LinesOf(i.file)' : k <= i.size => TimeOf(i.file, k)' <= rows[i.file].last
      BY <1>8, <3>2, <3>3, <3>4
    <3> QED BY <1>4, <3>1, <3>5 DEF TimeOf, LinesOf
  <2> QED BY <1>1, <1>4, <2>1, <2>2 DEF ScanIsTrue
<1>18. WatchIsTrue'
  <2>1. ASSUME watch.at = "touch"
        PROVE  /\ watch.upto <= Len(logs'[watch.file])
               /\ watch.latest <= clock' /\ Occurs(watch.file, watch.latest)'
               /\ \A k \in Ending(logs'[watch.file]) : k <= watch.upto =>
                     \/ TimeOf(watch.file, k)' <= watch.latest
                     \/ TimeOf(watch.file, k)' <= rows[watch.file].last
    <3>1. PICK g \in Logs, upto \in Nat, latest \in Nat :
              watch.file = g /\ watch.upto = upto /\ watch.latest = latest
      BY <1>1, <2>1 DEF DiscoveryTypeOK
    <3>2. /\ upto <= Len(logs[g]) /\ latest \in 0 .. clock
          /\ Occurs(g, latest)
      BY <1>1, <1>3, <2>1, <3>1 DEF WatchIsTrue
    <3>3. upto <= Len(logs'[g]) /\ (g = f => upto <= n)
      BY <1>0, <1>5, <1>6, <1>10, <3>1, <3>2
    <3>4. \A k \in Ending(logs'[g]) : k <= upto =>
              k \in Ending(logs[g]) /\ TimeOf(g, k)' = TimeOf(g, k)
      BY <1>0, <1>14, <3>1, <3>3
    <3>5. \A k \in Ending(logs[g]) : k <= upto => TimeOf(g, k) <= latest \/ TimeOf(g, k) <= rows[g].last
      BY <1>1, <2>1, <3>1 DEF WatchIsTrue
    <3>6. Occurs(g, latest)' /\ latest <= clock'
      BY <1>3, <1>13, <3>2
    <3> QED BY <1>4, <3>1, <3>3, <3>4, <3>5, <3>6 DEF Occurs, TimeOf, LinesOf
  <2> QED BY <1>1, <1>4, <2>1 DEF WatchIsTrue
<1>19. StartsQuiet'
  <2>1. phase' # "running" => watch'.at = "idle" /\ logEvents' = {} /\ scan'.at # "settle"
    BY <1>1, <1>4 DEF StartsQuiet
  <2>2. \A g \in Logs : logs'[g] = <<>> \/ g \in behind' <=> logs[g] = <<>> \/ g \in behind \/ g = f
    BY <1>4, <1>5, <1>6
  <2> QED BY <1>1, <1>4, <2>1, <2>2 DEF StartsQuiet
<1>20. ASSUME NEW g \in Logs
       PROVE  RowIsTrue(g)'
  <2>1. PICK row \in Row, p \in Nat : row = rows[g] /\ p = parsed[g]
    BY <1>1 DEF DiscoveryTypeOK
  <2>2. p <= Len(logs[g]) /\ p <= Len(logs'[g]) /\ (g = f => p <= n)
    BY <1>0, <1>5, <1>6, <1>10, <2>1 DEF DiscoveryInv, RowIsTrue
  <2>3. ASSUME row.count > 0
        PROVE  /\ row.count = 1 /\ row.started \in 0 .. clock /\ row.last \in 0 .. clock
               /\ row.started <= row.last \/ (row.last = 0 /\ IsFirst(g, row.started))
               /\ \A k \in Ending(logs[g]) :
                     /\ k <= p => TimeOf(g, k) <= row.last \/ TimeOf(g, k) <= Pending(g)
                     /\ g \notin behind => TimeOf(g, k) <= row.last
    BY <1>3, <2>1, <2>3 DEF RowIsTrue, Row, DiscoveryInv
  <2>4. Pending(g)' = Pending(g)
    BY <1>4 DEF Pending
  <2>5. \A k \in Ending(logs'[g]) : /\ k <= p => k \in Ending(logs[g]) /\ TimeOf(g, k)' = TimeOf(g, k)
                                    /\ g # f => k \in Ending(logs[g]) /\ TimeOf(g, k)' = TimeOf(g, k)
    <3>1. g = f => p <= n
      BY <2>2
    <3> QED BY <1>14, <2>1, <3>1
  <2>6. ASSUME row.count > 0
        PROVE  /\ row.count = 1 /\ row.started <= clock' /\ row.last <= clock'
               /\ row.started <= row.last \/ (row.last = 0 /\ IsFirst(g, row.started)')
               /\ \A k \in Ending(logs'[g]) :
                     /\ k <= p => TimeOf(g, k)' <= row.last \/ TimeOf(g, k)' <= Pending(g)'
                     /\ g \notin behind' => TimeOf(g, k)' <= row.last
    <3>1. row.started <= row.last \/ (row.last = 0 /\ IsFirst(g, row.started)')
      BY <1>13, <2>3, <2>6
    <3>2. row.started <= clock' /\ row.last <= clock'
      BY <1>3, <2>3, <2>6
    <3> QED BY <1>4, <2>3, <2>4, <2>5, <2>6, <3>1, <3>2
  <2> QED BY <1>4, <2>1, <2>2, <2>6 DEF RowIsTrue, IsFirst, TimeOf, LinesOf
<1> QED BY <1>7, <1>12, <1>17, <1>18, <1>19, <1>20 DEF DiscoveryInv

(* A folder is read: what is found in it is true.                          *)
LEMMA ScanFolderStep ==
    ASSUME DiscoveryInv, NEW d \in Folders, ScanFolder(d)
    PROVE  DiscoveryInv'
<1> DEFINE here == {f \in Logs : FolderOf[f] = d /\ logs[f] # <<>> /\ ScannerKnows(f)}
           infos == {SessionInfo(f) : f \in here}
<1>1. DiscoveryTypeOK /\ TimesGrow /\ ScanIsTrue /\ WatchIsTrue /\ StartsQuiet
  BY DEF DiscoveryInv
<1>2. /\ UNCHANGED <<logs, clock, phase, watch, logEvents, parsed, rows, behind>>
      /\ scan.at = "walking" /\ d \in scan.left
      /\ scan' = [scan EXCEPT !.left = @ \ {d}, !.found = @ \cup infos]
  BY DEF ScanFolder
<1>3. \A i \in infos : /\ i \in Info /\ FolderOf[i.file] = d
                       /\ InfoIsTrue(i)
  BY <1>1, SessionInfoIsTrue
<1>4. \A i, j \in infos : i.file = j.file => i = j
  BY <1>1, SessionInfoIsTrue
<1> HIDE DEF infos
<1>5. /\ scan \in [at : {"walking", "waiting"}, left : SUBSET Folders, found : SUBSET Info]
      /\ scan'.at = "walking" /\ scan'.left = scan.left \ {d} /\ scan'.found = scan.found \cup infos
      /\ scan' \in [at : {"walking", "waiting"}, left : SUBSET Folders, found : SUBSET Info]
  <2>1. scan \in [at : {"walking", "waiting"}, left : SUBSET Folders, found : SUBSET Info]
    BY <1>1, <1>2 DEF DiscoveryTypeOK
  <2> QED BY <1>2, <1>3, <2>1
<1>6. DiscoveryTypeOK'
  BY <1>1, <1>2, <1>5 DEF DiscoveryTypeOK
<1>7. TimesGrow' /\ WatchIsTrue' /\ StartsQuiet' /\ \A f \in Logs : RowIsTrue(f)'
  BY <1>1, <1>2, SameFiles, SameRow, SameWatch DEF DiscoveryInv, StartsQuiet
<1>8. ScanIsTrue'
  <2>1. \A i \in Infos' : InfoIsTrue(i)'
    BY <1>1, <1>2, <1>3, <1>5, SameFiles DEF ScanIsTrue, Infos
  <2>2. \A i, j \in scan'.found : i.file = j.file => i = j
    BY <1>1, <1>2, <1>3, <1>4, <1>5 DEF ScanIsTrue
  <2>3. \A i \in scan'.found : FolderOf[i.file] \notin scan'.left
    BY <1>1, <1>3, <1>5 DEF ScanIsTrue
  <2> QED BY <1>5, <2>1, <2>2, <2>3 DEF ScanIsTrue
<1> QED BY <1>6, <1>7, <1>8 DEF DiscoveryInv

(* A walk begins with nothing found.                                       *)
LEMMA WalkIsTrue ==
    ASSUME DiscoveryTypeOK, NEW done \in {"walking", "waiting"}, scan' = Walk(done)
    PROVE  /\ scan' \in [at : {"walking", "waiting"}, left : SUBSET Folders, found : SUBSET Info]
           /\ ScanIsTrue'
BY DEF Walk, ScanIsTrue, Infos

(* Startup lists what its walk found.                                      *)
LEMMA RegisterAllStep ==
    ASSUME DiscoveryInv, RegisterAll
    PROVE  DiscoveryInv'
<1> DEFINE InfoOf(f) == {i \in scan.found : i.file = f}
           Chosen(f) == CHOOSE i \in InfoOf(f) : TRUE
<1>1. DiscoveryTypeOK /\ TimesGrow /\ ScanIsTrue /\ WatchIsTrue /\ StartsQuiet
  BY DEF DiscoveryInv
<1>2. /\ UNCHANGED <<logs, clock, watch, logEvents>>
      /\ phase = "startup" /\ phase' = "registered"
      /\ scan' = Walk("waiting")
      /\ rows' = [f \in Logs |-> IF InfoOf(f) = {} THEN rows[f] ELSE RowFrom(Chosen(f))]
      /\ parsed' = [f \in Logs |-> IF InfoOf(f) = {} THEN parsed[f] ELSE Chosen(f).size]
      /\ behind' = {f \in Logs : logs[f] # <<>> /\ \A i \in InfoOf(f) : i.size # Len(logs[f])}
  BY DEF RegisterAll
<1>3. scan.found \subseteq Info /\ \A i \in scan.found : InfoIsTrue(i)
  BY <1>1 DEF DiscoveryTypeOK, ScanIsTrue, Infos
<1>4. ASSUME NEW f \in Logs, InfoOf(f) # {}
      PROVE  /\ Chosen(f) \in Info /\ Chosen(f).file = f /\ InfoIsTrue(Chosen(f))
             /\ \A i \in InfoOf(f) : i = Chosen(f)
  <2>1. Chosen(f) \in InfoOf(f)
    <3> HIDE DEF InfoOf
    <3> QED BY <1>4
  <2> QED BY <1>1, <1>3, <2>1 DEF ScanIsTrue
<1> HIDE DEF Chosen
<1>5. ASSUME NEW f \in Logs, InfoOf(f) # {}
      PROVE  /\ rows'[f] \in Row /\ rows'[f].count = 1
             /\ rows'[f].started = Chosen(f).started /\ rows'[f].last = Chosen(f).last
             /\ parsed'[f] = Chosen(f).size /\ parsed'[f] \in Nat
  <2>1. rows'[f] = RowFrom(Chosen(f)) /\ parsed'[f] = Chosen(f).size
    <3> HIDE DEF InfoOf
    <3> QED BY <1>2, <1>5
  <2>2. Chosen(f) \in Info
    BY <1>4, <1>5
  <2> QED BY <2>1, <2>2 DEF RowFrom, Info, Row
<1>6. ASSUME NEW f \in Logs, InfoOf(f) = {}
      PROVE  rows'[f] = rows[f] /\ parsed'[f] = parsed[f] /\ rows[f].count = 0
  BY <1>1, <1>2, <1>6 DEF StartsQuiet, DiscoveryTypeOK, Row
<1>7. DiscoveryTypeOK'
  <2>1. rows' \in [Logs -> Row] /\ parsed' \in [Logs -> Nat]
    BY <1>1, <1>2, <1>5, <1>6 DEF DiscoveryTypeOK
  <2> QED BY <1>1, <1>2, <2>1, WalkIsTrue DEF DiscoveryTypeOK
<1>8. TimesGrow'
  BY <1>1, <1>2, SameFiles
<1>9. ScanIsTrue'
  BY <1>1, <1>2, WalkIsTrue
<1>10. WatchIsTrue'
  BY <1>1, <1>2 DEF WatchIsTrue, StartsQuiet
<1>11. StartsQuiet'
  <2>1. \A f \in Logs : rows'[f].count = 0 => InfoOf(f) = {}
    BY <1>5
  <2> QED BY <1>1, <1>2, <2>1 DEF StartsQuiet, Walk
<1>12. ASSUME NEW f \in Logs
       PROVE  RowIsTrue(f)'
  <2>1. CASE InfoOf(f) = {}
    BY <1>2, <1>6, <2>1 DEF DiscoveryInv, RowIsTrue
  <2>2. CASE InfoOf(f) # {}
    <3>1. PICK i \in Info : i = Chosen(f)
      BY <1>4, <2>2
    <3>2. /\ i.file = f /\ InfoIsTrue(i) /\ \A j \in InfoOf(f) : j = i
          /\ rows'[f].count = 1 /\ rows'[f].started = i.started /\ rows'[f].last = i.last
          /\ parsed'[f] = i.size
      BY <1>4, <1>5, <2>2, <3>1
    <3>3. i.started <= i.last \/ (i.last = 0 /\ IsFirst(f, i.started))
      BY <1>1, <3>2, FoundStartsBeforeItEnds
    <3>4. i.size \in Nat /\ i.size <= Len(logs[f]) /\ i.started <= clock /\ i.last <= clock
      BY <3>2 DEF InfoIsTrue, Info
    <3>5. \A k \in Ending(logs[f]) : k <= i.size => TimeOf(f, k) <= i.last
      BY <3>2 DEF InfoIsTrue
    <3>6. f \notin behind' => \A k \in Ending(logs[f]) : k <= i.size
      <4>1. f \notin behind' => logs[f] = <<>> \/ i.size = Len(logs[f])
        BY <1>2, <3>2
      <4>2. Ending(logs[f]) \subseteq 1 .. Len(logs[f])
        BY <1>1 DEF Ending, DiscoveryTypeOK
      <4>3. logs[f] = <<>> => Ending(logs[f]) = {}
        BY DEF Ending
      <4> QED BY <4>1, <4>2, <4>3
    <3> QED BY <1>2, <3>2, <3>3, <3>4, <3>5, <3>6 DEF RowIsTrue, IsFirst, TimeOf, LinesOf
  <2> QED BY <2>1, <2>2
<1> QED BY <1>7, <1>8, <1>9, <1>10, <1>11, <1>12 DEF DiscoveryInv

LEMMA ListenStep ==
    ASSUME DiscoveryInv, Listen
    PROVE  DiscoveryInv'
<1>1. UNCHANGED <<logs, clock, scan, watch, logEvents, parsed, rows, behind>>
  BY DEF Listen
<1>2. DiscoveryTypeOK' /\ StartsQuiet'
  BY <1>1 DEF DiscoveryInv, Listen, DiscoveryTypeOK, StartsQuiet
<1> QED BY <1>1, <1>2, SameFiles, SameRow, SameWatch, SameScan DEF DiscoveryInv

LEMMA StartRescanStep ==
    ASSUME DiscoveryInv, StartRescan
    PROVE  DiscoveryInv'
<1>1. UNCHANGED <<logs, clock, phase, watch, logEvents, parsed, rows, behind>> /\ scan' = Walk("walking")
  BY DEF StartRescan
<1>2. DiscoveryTypeOK' /\ StartsQuiet'
  BY <1>1, WalkIsTrue DEF DiscoveryInv, DiscoveryTypeOK, StartsQuiet
<1>3. ScanIsTrue'
  BY <1>1, WalkIsTrue DEF DiscoveryInv
<1> QED BY <1>1, <1>2, <1>3, SameFiles, SameRow, SameWatch DEF DiscoveryInv

-----------------------------------------------------------------------------
(* The watcher loop.                                                       *)
LEMMA TakeLogEventStep ==
    ASSUME DiscoveryInv, NEW f \in Logs, TakeLogEvent(f)
    PROVE  DiscoveryInv'
<1>1. DiscoveryTypeOK /\ TimesGrow /\ ScanIsTrue /\ WatchIsTrue /\ StartsQuiet
  BY DEF DiscoveryInv
<1>2. /\ UNCHANGED <<logs, clock, phase, scan, parsed, rows, behind>>
      /\ watch.at = "idle" /\ logEvents' = logEvents \ {f} /\ f \in logEvents
      /\ watch' = [at |-> "register", file |-> f, exists |-> rows[f].count > 0] \/ watch' = watch
  BY DEF TakeLogEvent
<1>3. PICK b \in BOOLEAN : b <=> rows[f].count > 0
  OBVIOUS
<1>4. watch' = [at |-> "register", file |-> f, exists |-> b] \/ watch' = watch
  <2>1. (rows[f].count > 0) = b
    BY <1>3
  <2> QED BY <1>2, <2>1
<1>5. DiscoveryTypeOK'
  <2>1. watch' \in [at : {"register"}, file : Logs, exists : BOOLEAN] \/ watch' = watch
    BY <1>4
  <2> QED BY <1>1, <1>2, <2>1 DEF DiscoveryTypeOK
<1>6. WatchIsTrue'
  BY <1>2, <1>3, <1>4 DEF WatchIsTrue
<1>7. StartsQuiet'
  BY <1>1, <1>2 DEF StartsQuiet
<1>8. \A g \in Logs : Pending(g) = 0
  BY <1>2 DEF Pending
<1> QED BY <1>1, <1>2, <1>5, <1>6, <1>7, <1>8, SameFiles, SameRow, SameScan DEF DiscoveryInv

LEMMA LoseLogEventStep ==
    ASSUME DiscoveryInv, NEW f \in Logs, LoseLogEvent(f)
    PROVE  DiscoveryInv'
<1>1. UNCHANGED <<logs, clock, phase, scan, watch, parsed, rows, behind>> /\ logEvents' = logEvents \ {f}
  BY DEF LoseLogEvent
<1>2. DiscoveryTypeOK' /\ StartsQuiet'
  BY <1>1 DEF DiscoveryInv, DiscoveryTypeOK, StartsQuiet
<1> QED BY <1>1, <1>2, SameFiles, SameRow, SameWatch, SameScan DEF DiscoveryInv

(* The other rows stay, and the one that changes holds for every line.     *)
LEMMA RegisterWatchedStep ==
    ASSUME DiscoveryInv, RegisterWatched
    PROVE  DiscoveryInv'
<1>1. DiscoveryTypeOK /\ TimesGrow /\ ScanIsTrue /\ WatchIsTrue /\ StartsQuiet
  BY DEF DiscoveryInv
<1>2. PICK f \in Logs : watch.file = f
  BY <1>1 DEF RegisterWatched, DiscoveryTypeOK
<1>3. /\ UNCHANGED <<logs, clock, phase, scan, logEvents, parsed, behind>>
      /\ watch.at = "register" /\ watch' = [at |-> "parse", file |-> f]
      /\ rows' = IF watch.exists THEN rows ELSE [rows EXCEPT ![f] = ListWatched(f)]
  BY <1>2 DEF RegisterWatched
<1>4. rows[f] \in Row /\ clock \in Nat /\ watch.exists \in BOOLEAN
  BY <1>1, <1>3 DEF DiscoveryTypeOK
<1>5. CASE watch.exists \/ rows[f].count > 0
  <2>1. rows' = rows /\ rows[f].count > 0
    <3>1. rows[f].count > 0
      BY <1>1, <1>2, <1>3, <1>5 DEF WatchIsTrue
    <3>2. [rows EXCEPT ![f] = ListWatched(f)] = rows
      BY <1>1, <3>1 DEF ListWatched, DiscoveryTypeOK
    <3> QED BY <1>3, <3>1, <3>2
  <2>2. DiscoveryTypeOK'
    BY <1>1, <1>3, <2>1 DEF DiscoveryTypeOK
  <2>3. WatchIsTrue' /\ StartsQuiet'
    BY <1>1, <1>2, <1>3, <2>1 DEF WatchIsTrue, StartsQuiet
  <2>4. \A g \in Logs : Pending(g) = 0
    BY <1>3 DEF Pending
  <2> QED BY <1>1, <1>3, <2>1, <2>2, <2>3, <2>4, SameFiles, SameRow, SameScan DEF DiscoveryInv
<1>6. CASE ~ watch.exists /\ ~ (rows[f].count > 0)
  <2>1. rows[f].count = 0
    BY <1>4, <1>6 DEF Row
  <2>2. PICK started \in 0 .. clock : NewRow(f) = [count |-> 1, last |-> clock, started |-> started]
    <3>1. FirstTimestamp(logs[f]) \in 0 .. clock
      BY <1>1, FirstTimestampIsFirst
    <3> QED BY <1>4, <2>1, <3>1 DEF NewRow
  <2>3. rows' = [rows EXCEPT ![f] = [count |-> 1, last |-> clock, started |-> started]]
    BY <1>3, <1>6, <2>2 DEF ListWatched
  <2>4. /\ rows' \in [Logs -> Row]
        /\ rows'[f].count = 1 /\ rows'[f].last = clock /\ rows'[f].started = started
        /\ \A g \in Logs \ {f} : rows'[g] = rows[g]
    BY <1>1, <1>4, <2>3 DEF DiscoveryTypeOK, Row
  <2>5. DiscoveryTypeOK'
    BY <1>1, <1>3, <2>4 DEF DiscoveryTypeOK
  <2>6. \A g \in Logs : \A k \in LinesOf(g) : TimeOf(g, k) <= clock
    BY <1>1 DEF TimesGrow
  <2>7. ScanIsTrue'
    <3>1. Infos' = Infos /\ \A i \in Infos' : InfoIsTrue(i)'
      BY <1>1, <1>3, SameFiles DEF ScanIsTrue, Infos
    <3>2. ASSUME scan.at = "settle", ~ scan.exists, rows'[scan.info.file].count > 0
          PROVE  \A k \in LinesOf(scan.info.file) : k <= scan.info.size =>
                     TimeOf(scan.info.file, k) <= rows'[scan.info.file].last
      <4>1. PICK i \in Info : i = scan.info /\ i.file \in Logs
        BY <1>1, <3>2 DEF DiscoveryTypeOK, Info
      <4>2. CASE i.file = f
        BY <2>4, <2>6, <4>1, <4>2
      <4>3. CASE i.file # f
        BY <1>1, <2>4, <3>2, <4>1, <4>3 DEF ScanIsTrue
      <4> QED BY <4>2, <4>3
    <3>3. scan.at = "settle" /\ scan.exists => rows'[scan.info.file].count > 0
      <4> SUFFICES ASSUME scan.at = "settle", scan.exists
                   PROVE  rows'[scan.info.file].count > 0
        OBVIOUS
      <4>1. PICK i \in Info : i = scan.info /\ i.file \in Logs
        BY <1>1 DEF DiscoveryTypeOK, Info
      <4>2. rows[i.file].count > 0
        BY <1>1, <4>1 DEF ScanIsTrue
      <4> QED BY <2>4, <4>1, <4>2
    <3> QED BY <1>1, <1>3, <3>1, <3>2, <3>3 DEF ScanIsTrue, LinesOf, TimeOf
  <2>8. WatchIsTrue'
    BY <1>3, <2>4 DEF WatchIsTrue
  <2>9. StartsQuiet'
    BY <1>1, <1>3, <2>4 DEF StartsQuiet
  <2>10. ASSUME NEW g \in Logs
         PROVE  RowIsTrue(g)'
    <3>1. CASE g = f
      <4>1. \A k \in Ending(logs[f]) : TimeOf(f, k) <= clock
        BY <2>6 DEF Ending, LinesOf
      <4>2. started <= clock /\ clock <= clock /\ parsed[f] <= Len(logs[f])
        BY <1>4 DEF DiscoveryInv, RowIsTrue
      <4> QED BY <1>3, <2>4, <3>1, <4>1, <4>2 DEF RowIsTrue, TimeOf
    <3>2. CASE g # f
      <4>1. Pending(g) = 0
        BY <1>3 DEF Pending
      <4> QED BY <1>1, <1>3, <2>4, <3>2, <4>1, SameRow DEF DiscoveryInv
    <3> QED BY <3>1, <3>2
  <2> QED BY <1>1, <1>3, <2>5, <2>7, <2>8, <2>9, <2>10, SameFiles DEF DiscoveryInv
<1> QED BY <1>4, <1>5, <1>6

(* The lines that are new are read, the others are in the row already.     *)
LEMMA ParseWatchedStep ==
    ASSUME DiscoveryInv, ParseWatched
    PROVE  DiscoveryInv'
<1>1. DiscoveryTypeOK /\ TimesGrow /\ ScanIsTrue /\ WatchIsTrue /\ StartsQuiet
  BY DEF DiscoveryInv
<1>2. PICK f \in Logs : watch.file = f
  BY <1>1 DEF ParseWatched, DiscoveryTypeOK
<1> DEFINE S == {logs[f][i].time : i \in {i \in DOMAIN logs[f] : i > parsed[f]}}
<1>15. PICK latest : latest = LargestOf(S)
  OBVIOUS
<1>16. PICK n \in Nat : n = Len(logs[f])
  BY <1>1 DEF DiscoveryTypeOK
<1>3. n = Len(logs[f]) /\ latest = LargestOf(S)
  BY <1>15, <1>16
<1>4. /\ UNCHANGED <<logs, clock, phase, scan, logEvents, rows, behind>>
      /\ watch.at = "parse" /\ watch' = [at |-> "touch", file |-> f, upto |-> n, latest |-> latest]
      /\ parsed' = [parsed EXCEPT ![f] = n]
  BY <1>2, <1>3 DEF ParseWatched
<1>5. /\ clock \in Nat /\ parsed[f] \in Nat /\ logs[f] \in Seq(Line) /\ DOMAIN logs[f] = 1 .. n
      /\ \A k \in DOMAIN logs[f] : logs[f][k] \in Line
  BY <1>1, <1>3 DEF DiscoveryTypeOK
<1>6. \A k \in DOMAIN logs[f] : logs[f][k].time \in 0 .. clock
  BY <1>1, <1>5 DEF TimesGrow, LinesOf, TimeOf, Line
<1>7. /\ latest \in 0 .. clock
      /\ S # {} => latest \in S
      /\ S = {} => latest = 0
      /\ \A x \in S : x <= latest
  <2>1. S \in SUBSET (0 .. clock)
    BY <1>6
  <2> HIDE DEF S
  <2>2. S = {} => LargestOf(S) = 0
    BY DEF LargestOf
  <2> QED BY <1>3, <1>5, <2>1, <2>2, LargestIsLargest
<1>8. Occurs(f, latest)
  BY <1>7 DEF Occurs, LinesOf, TimeOf
<1>9. \A k \in Ending(logs[f]) : TimeOf(f, k) <= latest \/ TimeOf(f, k) <= rows[f].last
  <2> SUFFICES ASSUME NEW k \in Ending(logs[f])
               PROVE  TimeOf(f, k) <= latest \/ TimeOf(f, k) <= rows[f].last
    OBVIOUS
  <2>1. k \in DOMAIN logs[f] /\ k \in Nat /\ TimeOf(f, k) \in Nat
    BY <1>5, <1>6 DEF Ending, TimeOf
  <2>2. CASE k > parsed[f]
    BY <1>7, <2>1, <2>2 DEF TimeOf
  <2>3. CASE k <= parsed[f]
    <3>1. rows[f].count > 0
      BY <1>1, <1>2, <1>4 DEF WatchIsTrue
    <3>2. Pending(f) = 0 /\ rows[f].last \in Nat
      BY <1>1, <1>4 DEF Pending, DiscoveryTypeOK, Row
    <3>3. TimeOf(f, k) <= rows[f].last \/ TimeOf(f, k) <= Pending(f)
      BY <2>3, <3>1 DEF DiscoveryInv, RowIsTrue
    <3> QED BY <2>1, <3>2, <3>3
  <2> QED BY <1>5, <2>1, <2>2, <2>3
<1> HIDE DEF S
<1>10. /\ watch' \in [at : {"touch"}, file : Logs, upto : Nat, latest : Nat]
       /\ watch'.at = "touch" /\ watch'.file = f /\ watch'.upto = n /\ watch'.latest = latest
  BY <1>4, <1>5, <1>7
<1>11. DiscoveryTypeOK'
  BY <1>1, <1>4, <1>10 DEF DiscoveryTypeOK
<1>12. WatchIsTrue'
  <2>1. rows[f].count > 0
    BY <1>1, <1>2, <1>4 DEF WatchIsTrue
  <2>2. Occurs(f, latest)' /\ \A k \in Ending(logs[f]) : TimeOf(f, k)' = TimeOf(f, k)
    BY <1>4, <1>8, SameFiles
  <2> QED BY <1>3, <1>4, <1>5, <1>7, <1>9, <1>10, <2>1, <2>2 DEF WatchIsTrue, Occurs, TimeOf, LinesOf
<1>13. StartsQuiet'
  BY <1>1, <1>4 DEF StartsQuiet
<1>14. ASSUME NEW g \in Logs
       PROVE  RowIsTrue(g)'
  <2>1. CASE g = f
    <3>1. Pending(f)' = latest /\ parsed'[f] = n /\ n <= Len(logs[f])
      BY <1>1, <1>3, <1>4, <1>10 DEF Pending, DiscoveryTypeOK
    <3>2. \A k \in Ending(logs[f]) : TimeOf(f, k) <= rows[f].last \/ TimeOf(f, k) <= Pending(f)'
      BY <1>9, <3>1
    <3>3. RowIsTrue(f)
      BY DEF DiscoveryInv
    <3>4. IsFirst(f, rows[f].started) => IsFirst(f, rows[f].started)'
      BY <1>4 DEF IsFirst, TimeOf, LinesOf
    <3>5. \A k \in Ending(logs[f]) : TimeOf(f, k)' = TimeOf(f, k)
      BY <1>4 DEF TimeOf
    <3> QED BY <1>4, <2>1, <3>1, <3>2, <3>3, <3>4, <3>5 DEF RowIsTrue
  <2>2. CASE g # f
    <3>1. Pending(g) = 0 /\ parsed'[g] = parsed[g]
      BY <1>1, <1>4, <2>2 DEF Pending, DiscoveryTypeOK
    <3> QED BY <1>1, <1>4, <3>1, SameRow DEF DiscoveryInv
  <2> QED BY <2>1, <2>2
<1> QED BY <1>1, <1>4, <1>11, <1>12, <1>13, <1>14, SameFiles, SameScan DEF DiscoveryInv

-----------------------------------------------------------------------------
(* The last activity of a listed session moves on, and never back.         *)
LEMMA LastActivityMoves ==
    ASSUME DiscoveryTypeOK, NEW f \in Logs, NEW time \in Nat,
           rows' = UpdateLastActivityAt(f, time)
    PROVE  /\ rows' \in [Logs -> Row]
           /\ \A g \in Logs : g # f => rows'[g] = rows[g]
           /\ rows'[f].count = rows[f].count /\ rows'[f].started = rows[f].started
           /\ rows[f].last <= rows'[f].last /\ time <= rows'[f].last
           /\ rows'[f].last = time \/ rows'[f].last = rows[f].last
<1>1. rows \in [Logs -> Row] /\ rows[f] \in Row
  BY DEF DiscoveryTypeOK
<1>2. PICK last \in Nat : last = rows[f].last
  BY <1>1 DEF Row
<1>3. PICK new \in Nat : new = IF time > last THEN time ELSE last
  BY <1>2
<1>4. rows' = [rows EXCEPT ![f] = [rows[f] EXCEPT !.last = new]]
  BY <1>2, <1>3 DEF UpdateLastActivityAt
<1>5. last <= new /\ time <= new /\ (new = time \/ new = last)
  BY <1>2, <1>3
<1>6. [rows[f] EXCEPT !.last = new] \in Row
  BY <1>1, <1>3 DEF Row
<1>7. /\ [rows[f] EXCEPT !.last = new].last = new
      /\ [rows[f] EXCEPT !.last = new].count = rows[f].count
      /\ [rows[f] EXCEPT !.last = new].started = rows[f].started
  BY <1>1 DEF Row
<1>8. /\ rows' \in [Logs -> Row]
      /\ \A g \in Logs : g # f => rows'[g] = rows[g]
      /\ rows'[f] = [rows[f] EXCEPT !.last = new]
  BY <1>1, <1>4, <1>6
<1> QED BY <1>2, <1>5, <1>7, <1>8

(* A finding that is true of the file, applied to its row.                 *)
LEMMA MovedRowIsTrue ==
    ASSUME DiscoveryTypeOK, UNCHANGED <<logs, clock, parsed>>,
           NEW f \in Logs, RowIsTrue(f), NEW time \in Nat, NEW upto \in Nat,
           rows' = UpdateLastActivityAt(f, time), behind' = CaughtUp(f, upto),
           time <= clock, Occurs(f, time),
           \A k \in Ending(logs[f]) : k <= upto => TimeOf(f, k) <= time \/ TimeOf(f, k) <= rows[f].last,
           UNCHANGED watch \/ Pending(f) <= time
    PROVE  RowIsTrue(f)'
<1>1. /\ rows'[f].count = rows[f].count /\ rows'[f].started = rows[f].started
      /\ rows[f].last <= rows'[f].last /\ time <= rows'[f].last
      /\ rows'[f].last = time \/ rows'[f].last = rows[f].last
      /\ rows'[f] \in Row
  BY LastActivityMoves
<1>2. PICK old \in Row, new \in Row : old = rows[f] /\ new = rows'[f]
  BY <1>1 DEF DiscoveryTypeOK
<1>3. /\ old.last \in Nat /\ new.last \in Nat /\ old.started \in Nat /\ clock \in Nat
      /\ old.last <= new.last /\ time <= new.last /\ new.started = old.started
      /\ new.last = time \/ new.last = old.last
  BY <1>1, <1>2 DEF Row, DiscoveryTypeOK
<1>4. \A k \in Ending(logs[f]) : k \in LinesOf(f) /\ k \in 1 .. Len(logs[f]) /\ TimeOf(f, k) \in Nat
  <2>1. logs[f] \in Seq(Line) /\ Ending(logs[f]) \subseteq DOMAIN logs[f]
    BY DEF DiscoveryTypeOK, Ending
  <2>2. \A k \in DOMAIN logs[f] : logs[f][k] \in Line
    BY <2>1
  <2> QED BY <2>1, <2>2 DEF TimeOf, Line, LinesOf
<1>5. parsed[f] <= Len(logs[f])
  BY DEF RowIsTrue
<1>6. ASSUME old.count > 0
      PROVE  /\ new.count = 1
             /\ new.started <= clock /\ new.last <= clock
             /\ new.started <= new.last \/ (new.last = 0 /\ IsFirst(f, new.started))
             /\ \A k \in Ending(logs[f]) :
                   /\ k <= parsed[f] => TimeOf(f, k) <= new.last \/ TimeOf(f, k) <= Pending(f)'
                   /\ f \notin behind' => TimeOf(f, k) <= new.last
  <2>1. /\ old.count = 1 /\ old.started <= clock /\ old.last <= clock
        /\ old.started <= old.last \/ (old.last = 0 /\ IsFirst(f, old.started))
        /\ \A k \in Ending(logs[f]) :
              /\ k <= parsed[f] => TimeOf(f, k) <= old.last \/ TimeOf(f, k) <= Pending(f)
              /\ f \notin behind => TimeOf(f, k) <= old.last
    BY <1>2, <1>6 DEF RowIsTrue
  <2>2. new.count = 1 /\ new.started <= clock /\ new.last <= clock
    BY <1>1, <1>2, <1>3, <2>1
  <2>3. new.started <= new.last \/ (new.last = 0 /\ IsFirst(f, new.started))
    <3>1. CASE old.started <= old.last
      BY <1>3, <3>1
    <3>2. CASE old.last = 0 /\ IsFirst(f, old.started)
      <4>1. IsFirst(f, new.started)
        BY <1>3, <3>2
      <4>2. CASE new.last = 0
        BY <4>1, <4>2
      <4>3. CASE new.last # 0
        <5>1. new.last = time /\ time # 0
          BY <1>3, <3>2, <4>3
        <5>2. PICK k \in LinesOf(f) : TimeOf(f, k) = time
          BY <5>1 DEF Occurs
        <5>3. new.started <= time
          BY <4>1, <5>1, <5>2 DEF IsFirst
        <5> QED BY <5>1, <5>3
      <4> QED BY <4>2, <4>3
    <3> QED BY <2>1, <3>1, <3>2
  <2>4. ASSUME NEW k \in Ending(logs[f])
        PROVE  /\ k <= parsed[f] => TimeOf(f, k) <= new.last \/ TimeOf(f, k) <= Pending(f)'
               /\ f \notin behind' => TimeOf(f, k) <= new.last
    <3>1. TimeOf(f, k) \in Nat /\ k \in 1 .. Len(logs[f])
      BY <1>4
    <3>2. TimeOf(f, k) <= old.last => TimeOf(f, k) <= new.last
      BY <1>3, <3>1
    <3>3. TimeOf(f, k) <= time => TimeOf(f, k) <= new.last
      BY <1>3, <3>1
    <3>4. ASSUME TimeOf(f, k) <= Pending(f)
          PROVE  TimeOf(f, k) <= new.last \/ TimeOf(f, k) <= Pending(f)'
      <4>1. CASE UNCHANGED watch
        BY <3>4, <4>1 DEF Pending
      <4>2. CASE Pending(f) <= time
        <5>1. Pending(f) \in Nat
          BY DEF Pending, DiscoveryTypeOK
        <5> QED BY <1>3, <3>1, <3>4, <4>2, <5>1
      <4> QED BY <4>1, <4>2
    <3>5. ASSUME f \notin behind'
          PROVE  TimeOf(f, k) <= new.last
      <4>1. f \notin behind \/ upto = Len(logs[f])
        BY <3>5 DEF CaughtUp
      <4>2. f \notin behind => TimeOf(f, k) <= new.last
        BY <2>1, <3>2
      <4>3. upto = Len(logs[f]) => TimeOf(f, k) <= time \/ TimeOf(f, k) <= old.last
        BY <1>2, <3>1
      <4> QED BY <3>2, <3>3, <4>1, <4>2, <4>3
    <3> QED BY <2>1, <3>2, <3>4, <3>5
  <2> QED BY <2>2, <2>3, <2>4
<1> QED BY <1>1, <1>2, <1>5, <1>6 DEF RowIsTrue, IsFirst, TimeOf, LinesOf

(* What the watcher loop read, applied whenever it gets the lock.          *)
LEMMA TouchWatchedStep ==
    ASSUME DiscoveryInv, TouchWatched
    PROVE  DiscoveryInv'
<1>1. DiscoveryTypeOK /\ TimesGrow /\ ScanIsTrue /\ WatchIsTrue /\ StartsQuiet
  BY DEF DiscoveryInv
<1>2. PICK f \in Logs, upto \in Nat, latest \in Nat :
          watch.file = f /\ watch.upto = upto /\ watch.latest = latest
  BY <1>1 DEF TouchWatched, DiscoveryTypeOK
<1>3. /\ UNCHANGED <<logs, clock, phase, scan, logEvents, parsed>>
      /\ watch.at = "touch" /\ watch' = [at |-> "idle"]
      /\ rows' = UpdateLastActivityAt(f, latest) /\ behind' = CaughtUp(f, upto)
  BY <1>2 DEF TouchWatched
<1>4. /\ rows' \in [Logs -> Row]
      /\ \A g \in Logs : g # f => rows'[g] = rows[g]
      /\ rows'[f].count = rows[f].count
      /\ rows[f].last <= rows'[f].last
  BY <1>1, <1>3, LastActivityMoves
<1>5. behind' \subseteq behind /\ \A g \in Logs : g # f /\ g \in behind => g \in behind'
  BY <1>3 DEF CaughtUp
<1>6. DiscoveryTypeOK'
  BY <1>1, <1>3, <1>4, <1>5 DEF DiscoveryTypeOK
<1>7. ScanIsTrue'
  <2>1. Infos' = Infos /\ \A i \in Infos' : InfoIsTrue(i)'
    BY <1>1, <1>3, SameFiles DEF ScanIsTrue, Infos
  <2>2. ASSUME scan.at = "settle", ~ scan.exists, rows'[scan.info.file].count > 0
        PROVE  \A k \in LinesOf(scan.info.file) : k <= scan.info.size =>
                   TimeOf(scan.info.file, k) <= rows'[scan.info.file].last
    <3>1. PICK i \in Info : i = scan.info /\ i.file \in Logs
      BY <1>1, <2>2 DEF DiscoveryTypeOK, Info
    <3>2. rows[i.file].count > 0 /\ rows[i.file].last <= rows'[i.file].last
          /\ rows[i.file].last \in Nat /\ rows'[i.file].last \in Nat
      <4>1. PICK old \in Row, new \in Row : old = rows[i.file] /\ new = rows'[i.file]
        BY <1>1, <1>4, <3>1 DEF DiscoveryTypeOK
      <4>2. old.count \in Nat /\ old.last \in Nat /\ new.last \in Nat
        BY DEF Row
      <4>3. new.count = old.count /\ old.last <= new.last
        BY <1>4, <3>1, <4>1, <4>2
      <4> QED BY <2>2, <3>1, <4>1, <4>2, <4>3
    <3>3. \A k \in LinesOf(i.file) : TimeOf(i.file, k) \in Nat
      <4>1. logs[i.file] \in Seq(Line)
        BY <1>1, <3>1 DEF DiscoveryTypeOK
      <4>2. \A k \in DOMAIN logs[i.file] : logs[i.file][k] \in Line
        BY <4>1
      <4> QED BY <4>2 DEF LinesOf, TimeOf, Line
    <3>4. \A k \in LinesOf(i.file) : k <= i.size => TimeOf(i.file, k) <= rows[i.file].last
      BY <1>1, <2>2, <3>1, <3>2 DEF ScanIsTrue
    <3>5. \A k \in LinesOf(i.file) : k <= i.size => TimeOf(i.file, k) <= rows'[i.file].last
      BY <3>2, <3>3, <3>4
    <3> QED BY <3>1, <3>5
  <2>3. scan.at = "settle" /\ scan.exists => rows'[scan.info.file].count > 0
    <3> SUFFICES ASSUME scan.at = "settle", scan.exists
                 PROVE  rows'[scan.info.file].count > 0
      OBVIOUS
    <3>1. PICK i \in Info : i = scan.info /\ i.file \in Logs
      BY <1>1 DEF DiscoveryTypeOK, Info
    <3>2. rows'[i.file].count = rows[i.file].count
      BY <1>4, <3>1
    <3>3. rows[i.file].count > 0
      BY <1>1, <3>1 DEF ScanIsTrue
    <3> QED BY <3>1, <3>2, <3>3
  <2> QED BY <1>1, <1>3, <2>1, <2>2, <2>3 DEF ScanIsTrue, LinesOf, TimeOf
<1>8. WatchIsTrue'
  BY <1>3 DEF WatchIsTrue
<1>9. StartsQuiet'
  <2>1. phase = "running"
    BY <1>1, <1>3 DEF StartsQuiet
  <2>2. logs[f] # <<>> \/ logs[f] = <<>>
    OBVIOUS
  <2>3. rows[f].count > 0
    BY <1>1, <1>2, <1>3 DEF WatchIsTrue
  <2>4. rows'[f].count # 0
    BY <1>1, <1>4, <2>3 DEF DiscoveryTypeOK, Row
  <2> QED BY <1>1, <1>3, <1>4, <1>5, <2>1, <2>4 DEF StartsQuiet
<1>10. ASSUME NEW g \in Logs
       PROVE  RowIsTrue(g)'
  <2>1. CASE g = f
    <3>1. /\ latest <= clock /\ Occurs(f, latest) /\ Pending(f) = latest
          /\ \A k \in Ending(logs[f]) : k <= upto => TimeOf(f, k) <= latest \/ TimeOf(f, k) <= rows[f].last
      BY <1>1, <1>2, <1>3 DEF WatchIsTrue, Pending
    <3>2. Pending(f) <= latest /\ RowIsTrue(f)
      BY <3>1 DEF DiscoveryInv
    <3> QED BY <1>1, <1>3, <2>1, <3>1, <3>2, MovedRowIsTrue
  <2>2. CASE g # f
    <3>1. Pending(g) = 0
      BY <1>2, <1>3, <2>2 DEF Pending
    <3> QED BY <1>1, <1>3, <1>4, <1>5, <2>2, <3>1, SameRow DEF DiscoveryInv
  <2> QED BY <2>1, <2>2
<1> QED BY <1>3, <1>1, <1>6, <1>7, <1>8, <1>9, <1>10, SameFiles DEF DiscoveryInv

-----------------------------------------------------------------------------
(* The rescan.                                                             *)
LEMMA LookAtStep ==
    ASSUME DiscoveryInv, NEW info \in scan.found, LookAt(info)
    PROVE  DiscoveryInv'
<1>1. DiscoveryTypeOK /\ TimesGrow /\ ScanIsTrue /\ WatchIsTrue /\ StartsQuiet
  BY DEF DiscoveryInv
<1>2. info \in Info /\ scan.found \subseteq Info
  BY <1>1 DEF LookAt, DiscoveryTypeOK
<1>3. PICK b \in BOOLEAN : b <=> rows[info.file].count > 0
  OBVIOUS
<1>4. /\ UNCHANGED <<logs, clock, phase, watch, logEvents, parsed, rows, behind>>
      /\ phase = "running" /\ scan.at = "walking" /\ scan.left = {}
      /\ scan' = [at |-> "settle", left |-> {}, found |-> scan.found \ {info},
                  info |-> info, exists |-> b]
  <2>1. (rows[info.file].count > 0) = b
    BY <1>3
  <2> QED BY <2>1 DEF LookAt
<1>5. /\ scan'.at = "settle" /\ scan'.left = {} /\ scan'.found = scan.found \ {info}
      /\ scan'.info = info /\ scan'.exists = b
      /\ scan' \in [at : {"settle"}, left : {{}}, found : SUBSET Info, info : Info, exists : BOOLEAN]
  BY <1>2, <1>4
<1>6. DiscoveryTypeOK'
  BY <1>1, <1>4, <1>5 DEF DiscoveryTypeOK
<1>7. ScanIsTrue'
  <2>1. Infos' = Infos
    BY <1>4, <1>5 DEF Infos
  <2>2. \A i \in Infos' : InfoIsTrue(i)'
    BY <1>1, <1>4, <2>1, SameFiles DEF ScanIsTrue
  <2>3. \A i, j \in scan'.found : i.file = j.file => i = j
    BY <1>1, <1>5 DEF ScanIsTrue
  <2> QED BY <1>3, <1>4, <1>5, <2>2, <2>3 DEF ScanIsTrue
<1>8. StartsQuiet'
  BY <1>1, <1>4 DEF StartsQuiet
<1> QED BY <1>1, <1>4, <1>6, <1>7, <1>8, SameFiles, SameRow, SameWatch DEF DiscoveryInv

(* What the walk found, applied whenever the rescan gets the lock.         *)
LEMMA SettleInfoStep ==
    ASSUME DiscoveryInv, SettleInfo
    PROVE  DiscoveryInv'
<1>1. DiscoveryTypeOK /\ TimesGrow /\ ScanIsTrue /\ WatchIsTrue /\ StartsQuiet
  BY DEF DiscoveryInv
<1>2. scan.at = "settle" /\ scan \in [at : {"settle"}, left : {{}}, found : SUBSET Info, info : Info, exists : BOOLEAN]
  BY <1>1 DEF SettleInfo, DiscoveryTypeOK
<1>3. PICK i \in Info, f \in Logs : i = scan.info /\ f = i.file
  BY <1>2 DEF Info
<1>4. /\ UNCHANGED <<logs, clock, phase, watch, logEvents>>
      /\ scan' = [at |-> "walking", left |-> {}, found |-> scan.found]
      /\ rows' = Settled(i, scan.exists)
      /\ parsed' = IF scan.exists THEN parsed ELSE [parsed EXCEPT ![f] = i.size]
      /\ behind' = IF scan.exists \/ rows[f].count = 0 THEN CaughtUp(f, i.size) ELSE behind
  BY <1>3 DEF SettleInfo
<1>5. /\ InfoIsTrue(i) /\ i.size \in Nat /\ i.last \in Nat /\ i.started \in Nat /\ clock \in Nat
      /\ i.size <= Len(logs[f]) /\ i.started <= clock /\ i.last <= clock
      /\ IsFirst(f, i.started) /\ Occurs(f, i.last)
      /\ \A k \in Ending(logs[f]) : k <= i.size => TimeOf(f, k) <= i.last
  BY <1>1, <1>2, <1>3 DEF ScanIsTrue, Infos, InfoIsTrue, Info, DiscoveryTypeOK
<1>6. /\ scan'.at = "walking" /\ scan'.left = {} /\ scan'.found = scan.found
      /\ scan' \in [at : {"walking", "waiting"}, left : SUBSET Folders, found : SUBSET Info]
  BY <1>2, <1>4
<1>7. ScanIsTrue'
  <2>1. \A j \in Infos' : InfoIsTrue(j)'
    BY <1>1, <1>4, <1>6, SameFiles DEF ScanIsTrue, Infos
  <2> QED BY <1>1, <1>6, <2>1 DEF ScanIsTrue
<1>8. behind' \subseteq behind /\ \A g \in Logs : g # f /\ g \in behind => g \in behind'
  BY <1>4 DEF CaughtUp
<1>9. parsed' \in [Logs -> Nat] /\ \A g \in Logs : g # f => parsed'[g] = parsed[g]
  BY <1>1, <1>4, <1>5 DEF DiscoveryTypeOK
<1>10. PICK row \in Row : row = rows[f] /\ row.count \in Nat /\ row.last \in Nat
  BY <1>1 DEF DiscoveryTypeOK, Row
<1>11. phase = "running" /\ TimesGrow'
  BY <1>1, <1>2, <1>4, SameFiles DEF StartsQuiet
\* What is left of a case: the rows have their type, only the row of f moves,
\* and that one moves on.
<1>12. ASSUME rows' \in [Logs -> Row],
              \A g \in Logs : g # f => rows'[g] = rows[g],
              rows[f].count > 0 => rows'[f].count > 0 /\ rows[f].last <= rows'[f].last,
              RowIsTrue(f)',
              rows'[f].count = 0 => f \in behind' \/ logs[f] = <<>>
       PROVE  DiscoveryInv'
  <2>1. DiscoveryTypeOK'
    BY <1>1, <1>4, <1>6, <1>8, <1>9, <1>12 DEF DiscoveryTypeOK
  <2>2. StartsQuiet'
    BY <1>1, <1>4, <1>8, <1>11, <1>12 DEF StartsQuiet
  <2>3. ASSUME NEW g \in Logs, rows[g].count > 0
        PROVE  rows'[g].count > 0 /\ rows[g].last <= rows'[g].last
    <3>1. PICK r \in Row : r = rows[g] /\ r.last \in Nat
      BY <1>1 DEF DiscoveryTypeOK, Row
    <3>2. r.last <= r.last
      BY <3>1
    <3> QED BY <1>12, <2>3, <3>1, <3>2
  <2>4. WatchIsTrue'
    <3>1. watch.at # "idle" => watch.file \in Logs
      BY <1>1 DEF DiscoveryTypeOK
    <3>2. /\ watch.at \in {"parse", "touch"} => rows'[watch.file].count > 0
          /\ watch.at = "register" /\ watch.exists => rows'[watch.file].count > 0
      BY <1>1, <2>3, <3>1 DEF WatchIsTrue
    <3>3. ASSUME watch.at = "touch"
          PROVE  \A k \in Ending(logs[watch.file]) : k <= watch.upto =>
                     \/ TimeOf(watch.file, k) <= watch.latest
                     \/ TimeOf(watch.file, k) <= rows'[watch.file].last
      <4>1. PICK g \in Logs : g = watch.file
        BY <3>1, <3>3
      <4>2. PICK old \in Nat, new \in Nat : old = rows[g].last /\ new = rows'[g].last
        BY <1>1, <1>12 DEF DiscoveryTypeOK, Row
      <4>3. old <= new
        BY <1>1, <2>3, <3>3, <4>1, <4>2 DEF WatchIsTrue
      <4>4. \A k \in Ending(logs[g]) : TimeOf(g, k) \in Nat
        <5>1. logs[g] \in Seq(Line) /\ Ending(logs[g]) \subseteq DOMAIN logs[g]
          BY <1>1 DEF DiscoveryTypeOK, Ending
        <5>2. \A k \in DOMAIN logs[g] : logs[g][k] \in Line
          BY <5>1
        <5> QED BY <5>1, <5>2 DEF TimeOf, Line
      <4>5. \A k \in Ending(logs[g]) : k <= watch.upto => TimeOf(g, k) <= watch.latest \/ TimeOf(g, k) <= old
        BY <1>1, <3>3, <4>1, <4>2 DEF WatchIsTrue
      <4>6. \A k \in Ending(logs[g]) : k <= watch.upto => TimeOf(g, k) <= watch.latest \/ TimeOf(g, k) <= new
        BY <4>2, <4>3, <4>4, <4>5
      <4> QED BY <4>1, <4>2, <4>6
    <3> QED BY <1>1, <1>4, <3>2, <3>3 DEF WatchIsTrue, Occurs, TimeOf, LinesOf
  <2>5. \A g \in Logs : g # f => RowIsTrue(g)'
    BY <1>1, <1>4, <1>8, <1>9, <1>12, SameRow DEF DiscoveryInv
  <2> QED BY <1>7, <1>11, <1>12, <2>1, <2>2, <2>4, <2>5 DEF DiscoveryInv
<1>13. CASE scan.exists
  <2>1. rows' = UpdateLastActivityAt(f, i.last) /\ parsed' = parsed /\ behind' = CaughtUp(f, i.size)
    BY <1>3, <1>4, <1>13 DEF Settled
  <2>2. /\ rows' \in [Logs -> Row]
        /\ \A g \in Logs : g # f => rows'[g] = rows[g]
        /\ rows'[f].count = rows[f].count
        /\ rows[f].last <= rows'[f].last
    BY <1>1, <1>5, <2>1, LastActivityMoves
  <2>3. RowIsTrue(f)'
    BY <1>1, <1>4, <1>5, <2>1, MovedRowIsTrue DEF DiscoveryInv
  <2>4. rows'[f].count = 0 => f \in behind' \/ logs[f] = <<>>
    <3>1. rows[f].count # 0
      BY <1>1, <1>2, <1>3, <1>10, <1>13 DEF ScanIsTrue
    <3> QED BY <2>2, <3>1
  <2> QED BY <1>12, <2>2, <2>3, <2>4
<1>14. CASE ~ scan.exists /\ row.count > 0
  <2>1. rows' = rows /\ parsed' = [parsed EXCEPT ![f] = i.size] /\ behind' = behind
    BY <1>3, <1>4, <1>10, <1>14 DEF Settled, ListFound
  <2>2. \A k \in LinesOf(f) : k <= i.size => TimeOf(f, k) <= row.last
    BY <1>1, <1>2, <1>3, <1>10, <1>14 DEF ScanIsTrue
  <2>3. RowIsTrue(f)'
    <3>1. parsed'[f] = i.size
      BY <1>1, <2>1 DEF DiscoveryTypeOK
    <3>2. RowIsTrue(f) /\ Ending(logs[f]) \subseteq LinesOf(f)
      BY DEF DiscoveryInv, Ending, LinesOf
    <3>3. IsFirst(f, row.started) => IsFirst(f, row.started)'
      BY <1>4 DEF IsFirst, TimeOf, LinesOf
    <3>4. \A k \in Ending(logs[f]) : TimeOf(f, k)' = TimeOf(f, k)
      BY <1>4 DEF TimeOf
    <3> QED BY <1>4, <1>5, <1>10, <2>1, <2>2, <3>1, <3>2, <3>3, <3>4 DEF RowIsTrue
  <2> QED BY <1>1, <1>10, <1>12, <1>14, <2>1, <2>3 DEF DiscoveryTypeOK, StartsQuiet
<1>15. CASE ~ scan.exists /\ row.count = 0
  <2>1. rows' = [rows EXCEPT ![f] = RowFrom(i)] /\ parsed' = [parsed EXCEPT ![f] = i.size]
        /\ behind' = CaughtUp(f, i.size)
    BY <1>3, <1>4, <1>10, <1>15 DEF Settled, ListFound
  <2>2. /\ rows' \in [Logs -> Row] /\ RowFrom(i) \in Row
        /\ \A g \in Logs : g # f => rows'[g] = rows[g]
        /\ rows'[f].count = 1 /\ rows'[f].started = i.started /\ rows'[f].last = i.last
        /\ parsed'[f] = i.size
    <3>1. RowFrom(i) \in Row /\ RowFrom(i).count = 1 /\ RowFrom(i).started = i.started /\ RowFrom(i).last = i.last
      BY <1>5 DEF RowFrom, Row
    <3> QED BY <1>1, <2>1, <3>1 DEF DiscoveryTypeOK
  <2>3. RowIsTrue(f)'
    <3>1. i.started <= i.last \/ (i.last = 0 /\ IsFirst(f, i.started))
      BY <1>1, <1>3, <1>5, FoundStartsBeforeItEnds
    <3>2. f \notin behind' => \A k \in Ending(logs[f]) : k <= i.size
      <4>1. f \in behind \/ logs[f] = <<>>
        BY <1>1, <1>10, <1>11, <1>15 DEF StartsQuiet
      <4>2. f \notin behind' => logs[f] = <<>> \/ i.size = Len(logs[f])
        BY <2>1, <4>1 DEF CaughtUp
      <4>3. Ending(logs[f]) \subseteq 1 .. Len(logs[f])
        BY <1>1 DEF Ending, DiscoveryTypeOK
      <4>4. logs[f] = <<>> => Ending(logs[f]) = {}
        BY DEF Ending
      <4> QED BY <4>2, <4>3, <4>4
    <3> QED BY <1>4, <1>5, <2>2, <3>1, <3>2 DEF RowIsTrue, IsFirst, TimeOf, LinesOf
  <2> QED BY <1>10, <1>12, <1>15, <2>2, <2>3
<1> QED BY <1>2, <1>10, <1>13, <1>14, <1>15

-----------------------------------------------------------------------------
LEMMA InitDiscoveryInv == DiscoveryInit => DiscoveryInv
<1> SUFFICES ASSUME DiscoveryInit PROVE DiscoveryInv
  OBVIOUS
<1>1. PICK old \in SUBSET Logs :
          logs = [f \in Logs |-> IF f \in old THEN <<[time |-> 1, size |-> "small"]>> ELSE <<>>]
  BY DEF DiscoveryInit
<1>2. /\ clock = 1 /\ phase = "startup" /\ scan = Walk("walking") /\ watch = [at |-> "idle"]
      /\ logEvents = {} /\ behind = {}
      /\ parsed = [f \in Logs |-> 0] /\ rows = [f \in Logs |-> NoRow]
  BY DEF DiscoveryInit
<1>3. <<[time |-> 1, size |-> "small"]>> \in Seq(Line) /\ <<>> \in Seq(Line)
  BY DEF Line
<1>4. logs \in [Logs -> Seq(Line)]
  BY <1>1, <1>3
<1>5. \A f \in Logs : rows[f] = NoRow /\ rows[f] \in Row /\ rows[f].count = 0 /\ parsed[f] = 0
  BY <1>2 DEF NoRow, Row
<1>6. DiscoveryTypeOK
  <2>1. scan \in [at : {"walking", "waiting"}, left : SUBSET Folders, found : SUBSET Info]
    BY <1>2 DEF Walk
  <2>2. rows \in [Logs -> Row] /\ parsed \in [Logs -> Nat]
    BY <1>2, <1>5
  <2>3. watch \in [at : {"idle"}]
    BY <1>2
  <2> QED BY <1>2, <1>4, <2>1, <2>2, <2>3 DEF DiscoveryTypeOK
<1>7. TimesGrow
  <2>1. \A f \in Logs : \A k \in LinesOf(f) : k = 1 /\ TimeOf(f, k) = 1
    BY <1>1 DEF LinesOf, TimeOf
  <2> QED BY <1>2, <2>1 DEF TimesGrow
<1>8. ScanIsTrue
  BY <1>2 DEF ScanIsTrue, Infos, Walk
<1>9. WatchIsTrue /\ StartsQuiet
  BY <1>2, <1>5 DEF WatchIsTrue, StartsQuiet, Walk
<1>10. \A f \in Logs : RowIsTrue(f)
  <2>1. \A f \in Logs : Len(logs[f]) \in Nat
    BY <1>4
  <2> QED BY <1>5, <2>1 DEF RowIsTrue
<1> QED BY <1>6, <1>7, <1>8, <1>9, <1>10 DEF DiscoveryInv

LEMMA NextDiscoveryInv == DiscoveryInv /\ [DiscoveryNext]_discoveryVars => DiscoveryInv'
<1> SUFFICES ASSUME DiscoveryInv, [DiscoveryNext]_discoveryVars
             PROVE  DiscoveryInv'
  OBVIOUS
<1>1. ASSUME NEW d \in Folders, ScanFolder(d) PROVE DiscoveryInv'
  BY <1>1, ScanFolderStep
<1>2. CASE RegisterAll
  BY <1>2, RegisterAllStep
<1>3. CASE Listen
  BY <1>3, ListenStep
<1>4. CASE StartRescan
  BY <1>4, StartRescanStep
<1>5. ASSUME NEW info \in scan.found, LookAt(info) PROVE DiscoveryInv'
  BY <1>5, LookAtStep
<1>6. CASE SettleInfo
  BY <1>6, SettleInfoStep
<1>7. ASSUME NEW f \in Logs, AppendLine(f) PROVE DiscoveryInv'
  BY <1>7, AppendLineStep
<1>8. ASSUME NEW f \in Logs, TakeLogEvent(f) PROVE DiscoveryInv'
  BY <1>8, TakeLogEventStep
<1>9. ASSUME NEW f \in Logs, LoseLogEvent(f) PROVE DiscoveryInv'
  BY <1>9, LoseLogEventStep
<1>10. CASE RegisterWatched
  BY <1>10, RegisterWatchedStep
<1>11. CASE ParseWatched
  BY <1>11, ParseWatchedStep
<1>12. CASE TouchWatched
  BY <1>12, TouchWatchedStep
<1>13. CASE UNCHANGED discoveryVars
  <2>1. UNCHANGED <<logs, clock, phase, scan, watch, logEvents, parsed, rows, behind>>
    BY <1>13 DEF discoveryVars
  <2>2. DiscoveryTypeOK' /\ StartsQuiet'
    BY <2>1 DEF DiscoveryInv, DiscoveryTypeOK, StartsQuiet
  <2> QED BY <2>1, <2>2, SameFiles, SameRow, SameWatch, SameScan DEF DiscoveryInv
<1> QED BY <1>1, <1>2, <1>3, <1>4, <1>5, <1>6, <1>7, <1>8, <1>9, <1>10, <1>11, <1>12, <1>13
        DEF DiscoveryNext, Scanning

(* What was read and not yet applied stays true of its file, and so does a *)
(* row: the invariant the theorem below rests on.                          *)
THEOREM FindingsStayTrue == DiscoverySpec => []DiscoveryInv
<1> QED BY InitDiscoveryInv, NextDiscoveryInv, PTL DEF DiscoverySpec

(* A session has at most one row, however the watcher loop and the rescan  *)
(* interleave, and its times are true of its file, whoever comes last with *)
(* an older finding (main.rs:1258-1306, scanner.rs:415-516, world.rs:244). *)
THEOREM ListedSessionsAreTrue == DiscoverySpec => []RowsAreTrue
<1>1. DiscoveryInv => RegisteredOnce
  <2> SUFFICES ASSUME DiscoveryInv, NEW f \in Logs PROVE rows[f].count <= 1
    BY DEF RegisteredOnce
  <2>1. rows[f].count \in Nat
    BY DEF DiscoveryInv, DiscoveryTypeOK, Row
  <2> QED BY <2>1 DEF DiscoveryInv, RowIsTrue
<1>2. DiscoveryInv => ActivityIsTrue
  <2> SUFFICES ASSUME DiscoveryInv, NEW f \in Logs, rows[f].count > 0
               PROVE  /\ rows[f].started # 0 /\ rows[f].last # 0 => rows[f].started <= rows[f].last
                      /\ rows[f].last <= clock
                      /\ f \notin behind => rows[f].last >= LastTimestamp(logs[f])
    BY DEF ActivityIsTrue
  <2>1. DiscoveryTypeOK /\ TimesGrow /\ RowIsTrue(f)
    BY DEF DiscoveryInv
  <2>2. PICK last \in Nat, time \in Nat : last = rows[f].last /\ time = LastTimestamp(logs[f])
    <3>1. rows[f].last \in Nat
      BY <2>1 DEF DiscoveryTypeOK, Row
    <3>2. LastTimestamp(logs[f]) \in 0 .. clock
      BY <2>1, LastTimestampIsLast
    <3>3. LastTimestamp(logs[f]) \in Nat
      BY <3>2
    <3> QED BY <3>1, <3>3
  <2>3. f \notin behind => time <= last
    <3>1. time = 0 \/ \E k \in Ending(logs[f]) : TimeOf(f, k) = time
      BY <2>1, <2>2, LastTimestampIsLast
    <3> QED BY <2>1, <2>2, <3>1 DEF RowIsTrue
  <2> QED BY <2>1, <2>2, <2>3 DEF RowIsTrue
<1>3. DiscoveryInv => RowsAreTrue
  BY <1>1, <1>2 DEF RowsAreTrue
<1> QED BY <1>3, FindingsStayTrue, PTL

-----------------------------------------------------------------------------
(***************************************************************************)
(* SessionLinking.  NothingForeign speaks about the maps a file ends up in.*)
(* It is true because whatever a task has read and not yet written still   *)
(* joins what belongs together: what is said of a session's directory and  *)
(* CLI is settled when it is spawned and never changes, so that a stale    *)
(* entry is a late one but not a wrong one.  LinkingInv says so of the two *)
(* maps by which a file is linked, of the persisted entries and of each    *)
(* task.                                                                   *)
(***************************************************************************)

Tasks == [pc : {"byDir", "byCli", "alias", "unmap", "unpend", "path", "store", "exists", "spawn"},
          file : Files, mid : Managed \cup {None}, eff : Ids, known : BOOLEAN]
Creates == [pc : {"world", "map", "pend", "persist"}, sid : Managed, dir : Dirs, cli : Clis]
Deletes == [pc : {"path", "file", "forget"}, sid : Ids, file : Files \cup {None}]

Typed ==
    /\ files \subseteq Files /\ found \subseteq Files
    /\ DOMAIN home \subseteq Managed
    /\ watcher \in {Idle} \cup Tasks /\ rescan \in {Idle} \cup Tasks
    /\ create \in {Idle} \cup Creates /\ delete \in {Idle} \cup Deletes
    /\ \A s \in DOMAIN paths : paths[s] \in Files
    /\ \A f \in DOMAIN alias : alias[f] \in Ids

(* What names a directory or a CLI names one of its own sessions.          *)
MapsAreOwn ==
    /\ \A d \in DOMAIN msp : msp[d] \in DOMAIN home /\ home[msp[d]].dir = d
    /\ \A c \in DOMAIN pending : pending[c] \in DOMAIN home /\ home[pending[c]].cli = c
    /\ \A e \in saved :
          /\ e.sid \in DOMAIN home /\ home[e.sid].dir = e.dir
          /\ e.plan \in {None, PlanOf[e.dir]}
    /\ \A s \in DOMAIN plans : s \in Managed => s \in DOMAIN home

(* What a linking task carries; before it links, its file is not one that  *)
(* startup registered.                                                     *)
TaskIsOwn(t) ==
    t.pc # "idle" =>
        /\ Belongs(t.file, t.eff)
        /\ t.pc = "byCli" => CliOf[t.file] # "claude"
        /\ t.pc \in {"alias", "unmap", "unpend"} => t.mid # None /\ Belongs(t.file, t.mid)
        /\ t.pc \in {"byDir", "byCli", "alias"} => t.file \notin apart

CreateIsOwn ==
    create.pc # "idle" =>
        /\ create.sid \in DOMAIN home
        /\ home[create.sid].dir = create.dir /\ home[create.sid].cli = create.cli

LinkingInv ==
    /\ Typed /\ MapsAreOwn
    /\ TaskIsOwn(watcher) /\ TaskIsOwn(rescan) /\ CreateIsOwn
    /\ NothingForeign
    /\ apart \subseteq listed

-----------------------------------------------------------------------------
LEMMA InitLinkingInv == LinkingInit => LinkingInv
<1> SUFFICES ASSUME LinkingInit PROVE LinkingInv
  OBVIOUS
<1> USE LinkingAssumption DEF LinkingAssumption
<1>1. /\ DOMAIN alias = {} /\ DOMAIN msp = {} /\ DOMAIN pending = {} /\ DOMAIN plans = {}
      /\ DOMAIN home = {} /\ DOMAIN paths = Old /\ \A f \in Old : paths[f] = f
  BY DEF LinkingInit, Empty
<1>2. Typed
  BY <1>1 DEF LinkingInit, Typed
<1>3. MapsAreOwn
  BY <1>1 DEF LinkingInit, MapsAreOwn
<1>4. TaskIsOwn(watcher) /\ TaskIsOwn(rescan) /\ CreateIsOwn
  BY DEF LinkingInit, TaskIsOwn, CreateIsOwn, Idle
<1>5. NothingForeign
  BY <1>1 DEF LinkingInit, NothingForeign, Belongs, Idle
<1> QED BY <1>2, <1>3, <1>4, <1>5 DEF LinkingInit, LinkingInv

-----------------------------------------------------------------------------
(* The steps the two linking tasks share.                                  *)
LEMMA ClassifyIsOwn ==
    ASSUME LinkingInv, NEW f \in Files
    PROVE  Classify(f) \in Tasks /\ TaskIsOwn(Classify(f))
<1> USE LinkingAssumption DEF LinkingAssumption, Ids
<1>1. Belongs(f, f) /\ f \in Ids
  BY DEF Belongs
<1>2. CASE f \in DOMAIN alias
  <2>1. alias[f] \in Ids /\ Belongs(f, alias[f])
    BY <1>2 DEF LinkingInv, Typed, NothingForeign
  <2>2. Classify(f) = Task("path", f, None, alias[f])
    BY <1>2 DEF Classify
  <2> QED BY <2>1, <2>2 DEF Task, Tasks, TaskIsOwn
<1>3. CASE f \notin DOMAIN alias /\ f \in listed
  <2>1. Classify(f) = Task("path", f, None, f)
    BY <1>3 DEF Classify
  <2> QED BY <1>1, <2>1 DEF Task, Tasks, TaskIsOwn
<1>4. CASE f \notin DOMAIN alias /\ f \notin listed
  <2>1. Classify(f) = Task("byDir", f, None, f) /\ f \notin apart
    BY <1>4 DEF Classify, LinkingInv
  <2> QED BY <1>1, <2>1 DEF Task, Tasks, TaskIsOwn
<1> QED BY <1>2, <1>3, <1>4

LEMMA ByDirIsOwn ==
    ASSUME LinkingInv, NEW t \in Tasks, t.pc = "byDir", TaskIsOwn(t)
    PROVE  ByDir(t) \in Tasks /\ TaskIsOwn(ByDir(t))
<1> DEFINE mid == IF DirOf[t.file] \in DOMAIN msp THEN msp[DirOf[t.file]] ELSE None
<1>1. mid # None => mid \in Managed /\ Belongs(t.file, mid)
  BY DEF LinkingInv, Typed, MapsAreOwn, Belongs
<1>2. CASE mid = None /\ CliOf[t.file] # "claude"
  <2>1. ByDir(t) = [t EXCEPT !.pc = "byCli"]
    BY <1>2 DEF ByDir
  <2> QED BY <1>2, <2>1 DEF Tasks, TaskIsOwn
<1>3. CASE mid = None /\ CliOf[t.file] = "claude"
  <2>1. ByDir(t) = [t EXCEPT !.mid = None, !.pc = "path"]
    BY <1>3 DEF ByDir
  <2> QED BY <2>1 DEF Tasks, TaskIsOwn
<1>4. CASE mid # None
  <2>1. ByDir(t) = [t EXCEPT !.mid = mid, !.pc = "alias"]
    BY <1>4 DEF ByDir
  <2> HIDE DEF mid
  <2> QED BY <1>1, <1>4, <2>1 DEF Tasks, TaskIsOwn
<1> QED BY <1>2, <1>3, <1>4

LEMMA ByCliIsOwn ==
    ASSUME LinkingInv, NEW t \in Tasks, t.pc = "byCli", TaskIsOwn(t)
    PROVE  ByCli(t) \in Tasks /\ TaskIsOwn(ByCli(t))
<1>1. t.file \in Files
  BY DEF Tasks
<1>2. CASE CliOf[t.file] \in DOMAIN pending
  <2>1. PICK mid \in Managed : mid = pending[CliOf[t.file]]
    BY <1>2 DEF LinkingInv, Typed, MapsAreOwn
  <2>2. mid # None /\ Belongs(t.file, mid)
    BY <1>1, <1>2, <2>1, LinkingAssumption DEF LinkingAssumption, LinkingInv, MapsAreOwn, Belongs, TaskIsOwn
  <2>3. ByCli(t) = [t EXCEPT !.mid = mid, !.pc = "alias"]
    BY <1>2, <2>1 DEF ByCli
  <2> QED BY <2>2, <2>3 DEF Tasks, TaskIsOwn
<1>3. CASE CliOf[t.file] \notin DOMAIN pending
  <2>1. ByCli(t) = [t EXCEPT !.pc = "path"]
    BY <1>3 DEF ByCli
  <2> QED BY <2>1 DEF Tasks, TaskIsOwn
<1> QED BY <1>2, <1>3

(* What a step of a linking task must keep: the maps it writes and the     *)
(* task's own record.                                                      *)
LEMMA TaskStep ==
    ASSUME LinkingInv, NEW w \in {Idle} \cup Tasks, NEW r \in {Idle} \cup Tasks,
           TaskIsOwn(w), TaskIsOwn(r), watcher' = w, rescan' = r,
           UNCHANGED <<files, home, create, delete, plans, saved, apart>>,
           listed \subseteq listed', found' \subseteq Files,
           \A d \in DOMAIN msp' : d \in DOMAIN msp /\ msp'[d] = msp[d],
           \A c \in DOMAIN pending' : c \in DOMAIN pending /\ pending'[c] = pending[c],
           \A f \in DOMAIN alias' : alias'[f] \in Ids /\ Belongs(f, alias'[f]),
           apart \cap DOMAIN alias' = {},
           \A s \in DOMAIN paths' : paths'[s] \in Files /\ Belongs(paths'[s], s)
    PROVE  LinkingInv'
<1>1. /\ Typed /\ MapsAreOwn /\ CreateIsOwn /\ NothingForeign /\ apart \subseteq listed
  BY DEF LinkingInv
<1>2. Typed'
  BY <1>1 DEF Typed
<1>3. MapsAreOwn'
  BY <1>1 DEF MapsAreOwn
<1>4. TaskIsOwn(watcher)' /\ TaskIsOwn(rescan)'
  BY DEF TaskIsOwn, Belongs
<1>5. CreateIsOwn'
  BY <1>1 DEF CreateIsOwn
<1>6. NothingForeign'
  BY <1>1 DEF NothingForeign, Belongs
<1>7. apart' \subseteq listed'
  BY <1>1
<1> QED BY <1>2, <1>3, <1>4, <1>5, <1>6, <1>7 DEF LinkingInv

(* What the tasks read of the maps, for the steps that leave them alone.   *)
LEMMA MapsNow ==
    ASSUME LinkingInv
    PROVE  /\ \A f \in DOMAIN alias : alias[f] \in Ids /\ Belongs(f, alias[f])
           /\ apart \cap DOMAIN alias = {}
           /\ \A s \in DOMAIN paths : paths[s] \in Files /\ Belongs(paths[s], s)
           /\ found \subseteq Files
           /\ watcher \in {Idle} \cup Tasks /\ TaskIsOwn(watcher)
           /\ rescan \in {Idle} \cup Tasks /\ TaskIsOwn(rescan)
           /\ watcher.pc # "idle" => watcher \in Tasks
           /\ rescan.pc # "idle" => rescan \in Tasks
           /\ TaskIsOwn(Idle)
BY DEF LinkingInv, Typed, NothingForeign, TaskIsOwn, Idle

LEMMA AliasIsOwn ==
    ASSUME LinkingInv, NEW t \in Tasks, TaskIsOwn(t), t.pc = "alias", AddAlias(t)
    PROVE  /\ \A f \in DOMAIN alias' : alias'[f] \in Ids /\ Belongs(f, alias'[f])
           /\ apart \cap DOMAIN alias' = {}
           /\ [t EXCEPT !.pc = "unmap", !.eff = t.mid] \in Tasks
           /\ TaskIsOwn([t EXCEPT !.pc = "unmap", !.eff = t.mid])
<1>1. t.mid \in Ids /\ Belongs(t.file, t.mid) /\ t.file \notin apart
  BY DEF Tasks, TaskIsOwn, Ids
<1>2. /\ DOMAIN alias' = DOMAIN alias \cup {t.file} /\ alias'[t.file] = t.mid
      /\ \A x \in DOMAIN alias : x # t.file => alias'[x] = alias[x]
  BY DEF AddAlias, Put
<1>3. /\ \A f \in DOMAIN alias' : alias'[f] \in Ids /\ Belongs(f, alias'[f])
      /\ apart \cap DOMAIN alias' = {}
  BY <1>1, <1>2, MapsNow
<1>4. [t EXCEPT !.pc = "unmap", !.eff = t.mid] \in Tasks
  BY <1>1 DEF Tasks
<1>5. TaskIsOwn([t EXCEPT !.pc = "unmap", !.eff = t.mid])
  BY <1>1 DEF Tasks, TaskIsOwn
<1> QED BY <1>3, <1>4, <1>5

(* A task that only moves on, or ends.                                     *)
LEMMA MovesOn ==
    ASSUME NEW t \in Tasks, TaskIsOwn(t),
           NEW pc \in {"unpend", "path", "store", "exists", "spawn"},
           pc = "unpend" => t.pc = "unmap", NEW b \in BOOLEAN
    PROVE  /\ [t EXCEPT !.pc = pc] \in Tasks /\ TaskIsOwn([t EXCEPT !.pc = pc])
           /\ [t EXCEPT !.pc = pc, !.known = b] \in Tasks
           /\ TaskIsOwn([t EXCEPT !.pc = pc, !.known = b])
<1>1. /\ [t EXCEPT !.pc = pc] \in Tasks /\ TaskIsOwn([t EXCEPT !.pc = pc])
  BY DEF Tasks, TaskIsOwn
<1>2. /\ [t EXCEPT !.pc = pc, !.known = b] \in Tasks
      /\ TaskIsOwn([t EXCEPT !.pc = pc, !.known = b])
  BY DEF Tasks, TaskIsOwn
<1> QED BY <1>1, <1>2

(* The one-shot removals only remove.                                      *)
LEMMA UnmappedIs ==
    ASSUME NEW t
    PROVE  /\ \A d \in DOMAIN Unmapped(t) : d \in DOMAIN msp /\ Unmapped(t)[d] = msp[d]
           /\ \A c \in DOMAIN Unpended(t) : c \in DOMAIN pending /\ Unpended(t)[c] = pending[c]
<1>1. \A d \in DOMAIN Unmapped(t) : d \in DOMAIN msp /\ Unmapped(t)[d] = msp[d]
  BY DEF Unmapped, Drop, Restrict
<1>2. \A c \in DOMAIN Unpended(t) : c \in DOMAIN pending /\ Unpended(t)[c] = pending[c]
  <2>1. CASE CliOf[t.file] \in DOMAIN pending /\ pending[CliOf[t.file]] = t.mid
    BY <2>1 DEF Unpended, Drop, Restrict
  <2>2. CASE ~ (CliOf[t.file] \in DOMAIN pending /\ pending[CliOf[t.file]] = t.mid)
    BY <2>2 DEF Unpended
  <2> QED BY <2>1, <2>2
<1> QED BY <1>1, <1>2

LEMMA PathIsOwn ==
    ASSUME LinkingInv, NEW t \in Tasks, TaskIsOwn(t), paths' = Put(paths, t.eff, t.file)
    PROVE  \A s \in DOMAIN paths' : paths'[s] \in Files /\ Belongs(paths'[s], s)
<1>1. t.file \in Files /\ Belongs(t.file, t.eff)
  BY DEF Tasks, TaskIsOwn
<1>2. /\ DOMAIN paths' = DOMAIN paths \cup {t.eff} /\ paths'[t.eff] = t.file
      /\ \A x \in DOMAIN paths : x # t.eff => paths'[x] = paths[x]
  BY DEF Put
<1> QED BY <1>1, <1>2, MapsNow

LEMMA WatcherKeeps ==
    ASSUME LinkingInv, WatcherStep
    PROVE  LinkingInv'
<1> USE MapsNow
<1>1. ASSUME NEW f \in Files, WatcherTakes(f) PROVE LinkingInv'
  <2>1. Classify(f) \in Tasks /\ TaskIsOwn(Classify(f))
    BY ClassifyIsOwn
  <2> QED BY <1>1, <2>1, TaskStep DEF WatcherTakes
<1>2. CASE WatcherLooksUp
  <2>1. \E w \in Tasks : TaskIsOwn(w) /\ watcher' = w
    BY <1>2, ByDirIsOwn, ByCliIsOwn DEF WatcherLooksUp
  <2> QED BY <1>2, <2>1, TaskStep DEF WatcherLooksUp
<1>3. CASE WatcherLinks
  <2>1. watcher \in Tasks /\ watcher.pc = "alias" /\ AddAlias(watcher)
        /\ watcher' = [watcher EXCEPT !.pc = "unmap", !.eff = watcher.mid]
        /\ UNCHANGED <<files, listed, paths, msp, pending, plans, saved, home, rescan, create, delete,
                       found, apart>>
    BY <1>3 DEF WatcherLinks
  <2> QED BY <2>1, AliasIsOwn, TaskStep
<1>4. CASE WatcherUnmaps
  <2>1. \E w \in Tasks : TaskIsOwn(w) /\ watcher' = w
    BY <1>4, MovesOn DEF WatcherUnmaps
  <2>2. /\ \A d \in DOMAIN msp' : d \in DOMAIN msp /\ msp'[d] = msp[d]
        /\ \A c \in DOMAIN pending' : c \in DOMAIN pending /\ pending'[c] = pending[c]
    BY <1>4, UnmappedIs DEF WatcherUnmaps
  <2>3. UNCHANGED <<files, listed, alias, paths, plans, saved, home, rescan, create, delete, found, apart>>
    BY <1>4 DEF WatcherUnmaps
  <2> QED BY <2>1, <2>2, <2>3, TaskStep
<1>5. CASE WatcherStoresPath
  <2>1. \E w \in {Idle} \cup Tasks : TaskIsOwn(w) /\ watcher' = w
    <3>1. CASE watcher.pc = "path"
      <4>1. watcher' = [watcher EXCEPT !.pc = "store", !.known = watcher.eff \in listed]
        BY <1>5, <3>1 DEF WatcherStoresPath
      <4>2. (watcher.eff \in listed) \in BOOLEAN
        OBVIOUS
      <4> QED BY <3>1, <4>1, <4>2, MovesOn
    <3>2. CASE watcher.pc = "store"
      BY <1>5, <3>2, MovesOn DEF WatcherStoresPath
    <3> QED BY <1>5, <3>1, <3>2 DEF WatcherStoresPath
  <2>2. \A s \in DOMAIN paths' : paths'[s] \in Files /\ Belongs(paths'[s], s)
    BY <1>5, PathIsOwn DEF WatcherStoresPath
  <2>3. UNCHANGED <<files, listed, alias, msp, pending, plans, saved, home, rescan, create, delete, found, apart>>
    BY <1>5 DEF WatcherStoresPath
  <2> QED BY <2>1, <2>2, <2>3, TaskStep
<1>6. CASE WatcherLists
  BY <1>6, TaskStep DEF WatcherLists
<1> QED BY <1>1, <1>2, <1>3, <1>4, <1>5, <1>6 DEF WatcherStep

LEMMA RescanKeeps ==
    ASSUME LinkingInv, RescanStep
    PROVE  LinkingInv'
<1> USE MapsNow
<1>1. CASE RescanScans
  <2>1. found' \subseteq Files
    BY <1>1 DEF RescanScans, LinkingInv, Typed
  <2> QED BY <1>1, <2>1, TaskStep DEF RescanScans
<1>2. ASSUME NEW f \in Files, RescanTakes(f) PROVE LinkingInv'
  <2>1. Classify(f) \in Tasks /\ TaskIsOwn(Classify(f))
    BY ClassifyIsOwn
  <2> QED BY <1>2, <2>1, TaskStep DEF RescanTakes
<1>3. CASE RescanLooksUp
  <2>1. \E r \in Tasks : TaskIsOwn(r) /\ rescan' = r
    BY <1>3, ByDirIsOwn, ByCliIsOwn DEF RescanLooksUp
  <2> QED BY <1>3, <2>1, TaskStep DEF RescanLooksUp
<1>4. CASE RescanLinks
  <2>1. rescan \in Tasks /\ rescan.pc = "alias"
        /\ UNCHANGED <<files, listed, paths, msp, pending, plans, saved, home, watcher, create, delete,
                       found, apart>>
    BY <1>4 DEF RescanLinks
  <2>2. CASE AddAlias(rescan) /\ rescan' = [rescan EXCEPT !.pc = "unmap", !.eff = rescan.mid]
    BY <2>1, <2>2, AliasIsOwn, TaskStep
  <2>3. CASE rescan' = [rescan EXCEPT !.pc = "path", !.eff = rescan.mid] /\ UNCHANGED alias
    <3>1. rescan' \in Tasks /\ \E r \in Tasks : TaskIsOwn(r) /\ rescan' = r
      BY <2>1, <2>3 DEF Tasks, TaskIsOwn, Ids
    <3> QED BY <2>1, <2>3, <3>1, TaskStep
  <2> QED BY <1>4, <2>2, <2>3 DEF RescanLinks
<1>5. CASE RescanUnmaps
  <2>1. \E r \in Tasks : TaskIsOwn(r) /\ rescan' = r
    BY <1>5, MovesOn DEF RescanUnmaps
  <2>2. /\ \A d \in DOMAIN msp' : d \in DOMAIN msp /\ msp'[d] = msp[d]
        /\ \A c \in DOMAIN pending' : c \in DOMAIN pending /\ pending'[c] = pending[c]
    BY <1>5, UnmappedIs DEF RescanUnmaps
  <2>3. UNCHANGED <<files, listed, alias, paths, plans, saved, home, watcher, create, delete, found, apart>>
    BY <1>5 DEF RescanUnmaps
  <2> QED BY <2>1, <2>2, <2>3, TaskStep
<1>6. CASE RescanStoresPath
  <2>1. \E r \in {Idle} \cup Tasks : TaskIsOwn(r) /\ rescan' = r
    BY <1>6, MovesOn DEF RescanStoresPath
  <2>2. \A s \in DOMAIN paths' : paths'[s] \in Files /\ Belongs(paths'[s], s)
    BY <1>6, PathIsOwn DEF RescanStoresPath
  <2>3. UNCHANGED <<files, listed, alias, msp, pending, plans, saved, home, watcher, create, delete, found, apart>>
    BY <1>6 DEF RescanStoresPath
  <2> QED BY <2>1, <2>2, <2>3, TaskStep
<1>7. CASE RescanLists
  BY <1>7, TaskStep DEF RescanLists
<1> QED BY <1>1, <1>2, <1>3, <1>4, <1>5, <1>6, <1>7 DEF RescanStep

-----------------------------------------------------------------------------
(* The requests.                                                           *)

(* A spawn gives a new session its directory and CLI; it settles nothing   *)
(* about any other.                                                        *)
LEMMA SpawnKeeps ==
    ASSUME LinkingInv, NEW m \in Managed, NEW q \in Requests, CreateSpawns(m, q[1], q[2])
    PROVE  LinkingInv'
<1> DEFINE d == q[1]  c == q[2]
<1>1. d \in Dirs /\ c \in Clis
  BY LinkingAssumption DEF LinkingAssumption
<1>2. /\ m \notin DOMAIN home
      /\ DOMAIN home' = DOMAIN home \cup {m} /\ home'[m] = [dir |-> d, cli |-> c]
      /\ \A x \in DOMAIN home : home'[x] = home[x]
      /\ create' = [pc |-> "world", sid |-> m, dir |-> d, cli |-> c]
      /\ UNCHANGED <<files, listed, alias, paths, msp, pending, plans, saved, watcher, rescan, delete,
                     found, apart>>
  BY DEF CreateSpawns, Put
<1> HIDE DEF d, c
<1>3. \A f, s : Belongs(f, s) => Belongs(f, s)'
  BY <1>2 DEF Belongs
<1>4. Typed'
  BY <1>1, <1>2 DEF LinkingInv, Typed, Creates
<1>5. MapsAreOwn'
  BY <1>2 DEF LinkingInv, MapsAreOwn
<1>6. TaskIsOwn(watcher)' /\ TaskIsOwn(rescan)'
  BY <1>2, <1>3 DEF LinkingInv, TaskIsOwn
<1>7. CreateIsOwn'
  BY <1>2 DEF CreateIsOwn
<1>8. NothingForeign'
  <2>1. \A s \in DOMAIN plans : s \in Managed => home'[s] = home[s]
    BY <1>2 DEF LinkingInv, MapsAreOwn
  <2> QED BY <1>2, <1>3, <2>1 DEF LinkingInv, NothingForeign
<1> QED BY <1>2, <1>4, <1>5, <1>6, <1>7, <1>8 DEF LinkingInv

LEMMA CreateKeeps ==
    ASSUME LinkingInv, CreateStep
    PROVE  LinkingInv'
<1>1. /\ Typed /\ MapsAreOwn /\ CreateIsOwn /\ NothingForeign /\ apart \subseteq listed
      /\ TaskIsOwn(watcher) /\ TaskIsOwn(rescan)
  BY DEF LinkingInv
<1>2. create.pc # "idle" => create \in Creates
  BY <1>1 DEF Typed, Idle
<1>3. UNCHANGED <<files, alias, paths, home, watcher, rescan, delete, found, apart>>
  BY DEF CreateStep, CreateLists, CreateMaps, CreatePends, CreatePersists
<1>4. \A f, s : Belongs(f, s) => Belongs(f, s)'
  BY <1>3 DEF Belongs
<1>5. TaskIsOwn(watcher)' /\ TaskIsOwn(rescan)'
  BY <1>1, <1>3, <1>4 DEF TaskIsOwn
<1>6. CASE CreateLists
  <2>1. /\ create \in Creates /\ create' = [create EXCEPT !.pc = "map"]
        /\ listed \subseteq listed' /\ UNCHANGED <<msp, pending, plans, saved>>
    BY <1>2, <1>6 DEF CreateLists
  <2>2. create' \in Creates /\ CreateIsOwn'
    BY <1>1, <1>3, <2>1 DEF CreateIsOwn, Creates
  <2>3. Typed' /\ MapsAreOwn'
    BY <1>1, <1>3, <2>1, <2>2 DEF Typed, MapsAreOwn
  <2>4. NothingForeign'
    BY <1>1, <1>3, <1>4, <2>1 DEF NothingForeign
  <2> QED BY <1>1, <1>3, <1>5, <2>1, <2>2, <2>3, <2>4 DEF LinkingInv
<1>7. CASE CreateMaps
  <2>1. /\ create \in Creates /\ create.pc = "map"
        /\ msp' = Put(msp, create.dir, create.sid)
        /\ UNCHANGED <<listed, pending, saved>>
    BY <1>2, <1>7 DEF CreateMaps
  <2>2. create' \in Creates /\ CreateIsOwn'
    <3>1. \E pc \in {"persist", "pend"} : create' = [create EXCEPT !.pc = pc]
      BY <1>7 DEF CreateMaps
    <3> QED BY <1>1, <1>3, <2>1, <3>1 DEF CreateIsOwn, Creates
  <2>3. \A s \in DOMAIN plans' :
            \/ s \in DOMAIN plans /\ plans'[s] = plans[s]
            \/ s = create.sid /\ plans'[s] = PlanOf[create.dir]
    BY <1>7 DEF CreateMaps, Put
  <2>4. create.sid \in Managed /\ create.sid \in DOMAIN home /\ home[create.sid].dir = create.dir
    BY <1>1, <2>1 DEF CreateIsOwn, Creates
  <2>5. Typed'
    BY <1>1, <1>3, <2>2 DEF Typed
  <2>6. MapsAreOwn'
    <3>1. \A d \in DOMAIN msp' : msp'[d] \in DOMAIN home /\ home[msp'[d]].dir = d
      BY <1>1, <2>1, <2>4 DEF MapsAreOwn, Put
    <3> QED BY <1>1, <1>3, <2>1, <2>3, <2>4, <3>1 DEF MapsAreOwn
  <2>7. NothingForeign'
    <3>1. \A s \in DOMAIN plans' :
              plans'[s] = PlanOf[IF s \in Managed THEN home[s].dir ELSE DirOf[s]]
      BY <1>1, <2>3, <2>4 DEF NothingForeign
    <3> QED BY <1>1, <1>3, <1>4, <3>1 DEF NothingForeign
  <2> QED BY <1>1, <1>3, <1>5, <2>1, <2>2, <2>5, <2>6, <2>7 DEF LinkingInv
<1>8. CASE CreatePends
  <2>1. /\ create \in Creates /\ create.pc = "pend" /\ create' = [create EXCEPT !.pc = "persist"]
        /\ pending' = Put(pending, create.cli, create.sid)
        /\ UNCHANGED <<listed, msp, plans, saved>>
    BY <1>2, <1>8 DEF CreatePends
  <2>2. create' \in Creates /\ CreateIsOwn'
    BY <1>1, <1>3, <2>1 DEF CreateIsOwn, Creates
  <2>3. MapsAreOwn'
    <3>1. create.sid \in DOMAIN home /\ home[create.sid].cli = create.cli
      BY <1>1, <2>1 DEF CreateIsOwn
    <3>2. \A c \in DOMAIN pending' : pending'[c] \in DOMAIN home /\ home[pending'[c]].cli = c
      BY <1>1, <2>1, <3>1 DEF MapsAreOwn, Put
    <3> QED BY <1>1, <1>3, <2>1, <3>2 DEF MapsAreOwn
  <2>4. Typed' /\ NothingForeign'
    BY <1>1, <1>3, <1>4, <2>1, <2>2 DEF Typed, NothingForeign
  <2> QED BY <1>1, <1>3, <1>5, <2>1, <2>2, <2>3, <2>4 DEF LinkingInv
<1>9. CASE CreatePersists
  <2>1. saved' = PersistEntries /\ create' = Idle /\ UNCHANGED <<listed, msp, pending, plans>>
    BY <1>9 DEF CreatePersists
  <2>2. MapsAreOwn'
    <3>1. ASSUME NEW e \in PersistEntries
          PROVE  /\ e.sid \in DOMAIN home /\ home[e.sid].dir = e.dir
                 /\ e.plan \in {None, PlanOf[e.dir]}
      <4>1. PICK d \in DOMAIN msp :
                e = [sid |-> msp[d], dir |-> d,
                     plan |-> IF msp[d] \in DOMAIN plans THEN plans[msp[d]] ELSE None]
        BY DEF PersistEntries
      <4>2. msp[d] \in DOMAIN home /\ home[msp[d]].dir = d /\ msp[d] \in Managed
        BY <1>1 DEF MapsAreOwn, Typed
      <4>3. msp[d] \in DOMAIN plans => plans[msp[d]] = PlanOf[d]
        BY <1>1, <4>2 DEF NothingForeign
      <4> QED BY <4>1, <4>2, <4>3
    <3> QED BY <1>1, <1>3, <2>1, <3>1 DEF MapsAreOwn
  <2>3. Typed' /\ CreateIsOwn'
    BY <1>1, <1>3, <2>1 DEF Typed, CreateIsOwn, Idle
  <2>4. NothingForeign'
    BY <1>1, <1>3, <1>4, <2>1 DEF NothingForeign
  <2> QED BY <1>1, <1>3, <1>5, <2>1, <2>2, <2>3, <2>4 DEF LinkingInv
<1> QED BY <1>6, <1>7, <1>8, <1>9 DEF CreateStep

(* A deletion forgets; the path it copies out is one the map holds.        *)
LEMMA DeleteKeeps ==
    ASSUME LinkingInv, DeleteStep \/ \E s \in Ids : DeleteUnlists(s)
    PROVE  LinkingInv'
<1>1. /\ Typed /\ MapsAreOwn /\ CreateIsOwn /\ NothingForeign /\ apart \subseteq listed
      /\ TaskIsOwn(watcher) /\ TaskIsOwn(rescan)
  BY DEF LinkingInv
<1>2. delete.pc # "idle" => delete \in Deletes
  BY <1>1 DEF Typed, Idle
<1>3. /\ UNCHANGED <<alias, msp, pending, plans, saved, home, watcher, rescan, create, found>>
      /\ files' \subseteq files
  BY DEF DeleteStep, DeleteUnlists, DeleteReadsPath, DeleteRemovesFile, DeleteForgetsPath
<1>4. \A f, s : Belongs(f, s) => Belongs(f, s)'
  BY <1>3 DEF Belongs
<1>5. apart' \subseteq apart /\ apart' \subseteq listed'
  BY <1>1 DEF DeleteStep, DeleteUnlists, DeleteReadsPath, DeleteRemovesFile, DeleteForgetsPath
<1>6. MapsAreOwn' /\ CreateIsOwn'
  BY <1>1, <1>3 DEF MapsAreOwn, CreateIsOwn
<1>7. TaskIsOwn(watcher)' /\ TaskIsOwn(rescan)'
  BY <1>1, <1>3, <1>4, <1>5 DEF TaskIsOwn
<1>8. \A s \in DOMAIN paths' : s \in DOMAIN paths /\ paths'[s] = paths[s]
  BY DEF DeleteStep, DeleteUnlists, DeleteReadsPath, DeleteRemovesFile, DeleteForgetsPath, Drop, Restrict
<1>9. /\ delete' \in {Idle} \cup Deletes
      /\ delete'.pc \in {"file", "forget"} => Belongs(delete'.file, delete'.sid)
  <2>1. ASSUME NEW s \in Ids, DeleteUnlists(s)
        PROVE  delete' \in Deletes /\ delete'.pc = "path"
    BY <2>1 DEF DeleteUnlists, Deletes
  <2>2. CASE DeleteReadsPath
    <3>1. delete \in Deletes /\ delete.pc = "path"
      BY <1>2, <2>2 DEF DeleteReadsPath
    <3>2. CASE delete.sid \in DOMAIN paths
      <4>1. PICK f \in Files : f = paths[delete.sid] /\ Belongs(f, delete.sid)
        BY <1>1, <3>2 DEF Typed, NothingForeign
      <4>2. delete' = [delete EXCEPT !.pc = "file", !.file = f]
        BY <2>2, <3>2, <4>1 DEF DeleteReadsPath
      <4>3. delete' \in Deletes /\ delete'.file = f /\ delete'.sid = delete.sid
        BY <3>1, <4>2 DEF Deletes
      <4> QED BY <4>1, <4>3
    <3>3. CASE delete.sid \notin DOMAIN paths
      BY <2>2, <3>3 DEF DeleteReadsPath, Idle
    <3> QED BY <3>2, <3>3
  <2>3. CASE DeleteRemovesFile
    <3>1. delete \in Deletes /\ delete.pc = "file" /\ delete' = [delete EXCEPT !.pc = "forget"]
      BY <1>2, <2>3 DEF DeleteRemovesFile
    <3>2. Belongs(delete.file, delete.sid)
      BY <1>1, <3>1 DEF NothingForeign
    <3>3. delete' \in Deletes /\ delete'.file = delete.file /\ delete'.sid = delete.sid
      BY <3>1 DEF Deletes
    <3> QED BY <3>2, <3>3
  <2>4. CASE DeleteForgetsPath
    BY <2>4 DEF DeleteForgetsPath, Idle
  <2> QED BY <2>1, <2>2, <2>3, <2>4 DEF DeleteStep
<1>10. Typed'
  BY <1>1, <1>3, <1>8, <1>9 DEF Typed
<1>11. NothingForeign'
  <2>1. \A s \in DOMAIN paths' : Belongs(paths'[s], s)
    BY <1>1, <1>8 DEF NothingForeign
  <2>2. (delete.pc \in {"file", "forget"} => Belongs(delete.file, delete.sid))'
    BY <1>3, <1>9 DEF Belongs
  <2>3. \A s \in DOMAIN paths' : Belongs(paths[s], s)'
    BY <1>3, <2>1 DEF Belongs
  <2>4. (\A f \in DOMAIN alias : Belongs(f, alias[f]))'
    BY <1>1, <1>3 DEF NothingForeign, Belongs
  <2>5. (\A s \in DOMAIN plans : plans[s] = PlanOf[IF s \in Managed THEN home[s].dir ELSE DirOf[s]])'
    BY <1>1, <1>3 DEF NothingForeign
  <2>6. (apart \cap DOMAIN alias = {})'
    BY <1>1, <1>3, <1>5 DEF NothingForeign
  <2> QED BY <2>2, <2>3, <2>4, <2>5, <2>6 DEF NothingForeign
<1> QED BY <1>5, <1>6, <1>7, <1>10, <1>11 DEF LinkingInv


-----------------------------------------------------------------------------
(* A restart reads back what a creation persisted: of the entries of one   *)
(* directory, or of one session, any will do, as all are its own.          *)
LEMMA RestoredIsOwn ==
    ASSUME LinkingInv
    PROVE  /\ \A d \in DOMAIN RestoredPaths(saved) :
                  /\ RestoredPaths(saved)[d] \in DOMAIN home
                  /\ home[RestoredPaths(saved)[d]].dir = d
           /\ \A s \in DOMAIN RestoredPlans(saved) :
                  /\ s \in DOMAIN home
                  /\ RestoredPlans(saved)[s] = PlanOf[home[s].dir]
<1>1. \A e \in saved : /\ e.sid \in DOMAIN home /\ home[e.sid].dir = e.dir
                       /\ e.plan \in {None, PlanOf[e.dir]}
  BY DEF LinkingInv, MapsAreOwn
<1>2. ASSUME NEW d \in DOMAIN RestoredPaths(saved)
      PROVE  /\ RestoredPaths(saved)[d] \in DOMAIN home
             /\ home[RestoredPaths(saved)[d]].dir = d
  <2>1. d \in {e.dir : e \in saved} /\ RestoredPaths(saved)[d] = (CHOOSE e \in saved : e.dir = d).sid
    BY DEF RestoredPaths
  <2>2. PICK e \in saved : e = CHOOSE x \in saved : x.dir = d
    BY <2>1
  <2>3. e.dir = d
    BY <2>1, <2>2
  <2> QED BY <1>1, <2>1, <2>2, <2>3
<1>3. ASSUME NEW s \in DOMAIN RestoredPlans(saved)
      PROVE  s \in DOMAIN home /\ RestoredPlans(saved)[s] = PlanOf[home[s].dir]
  <2> DEFINE bound == {e \in saved : e.plan # None}
  <2>1. s \in {e.sid : e \in bound} /\ RestoredPlans(saved)[s] = (CHOOSE e \in bound : e.sid = s).plan
    BY DEF RestoredPlans
  <2>2. PICK e \in bound : e = CHOOSE x \in bound : x.sid = s
    BY <2>1
  <2>3. e.sid = s /\ e \in saved /\ e.plan # None
    BY <2>1, <2>2
  <2> QED BY <1>1, <2>1, <2>2, <2>3
<1> QED BY <1>2, <1>3

LEMMA RestartKeeps ==
    ASSUME LinkingInv, Restart
    PROVE  LinkingInv'
<1> USE LinkingAssumption DEF LinkingAssumption
<1> DEFINE m == RestoredPaths(saved)  p == RestoredPlans(saved)
           b == RestoredBindings(saved, files)
<1>1. /\ files \subseteq Files /\ DOMAIN home \subseteq Managed /\ MapsAreOwn
  BY DEF LinkingInv, Typed
<1>2. /\ \A d \in DOMAIN m : m[d] \in DOMAIN home /\ home[m[d]].dir = d
      /\ \A s \in DOMAIN p : s \in DOMAIN home /\ p[s] = PlanOf[home[s].dir]
  BY RestoredIsOwn
<1>3. \A f \in DOMAIN b : f \in Files /\ b[f] = PlanOf[DirOf[f]]
  BY <1>1, <1>2 DEF RestoredBindings
<1>4. /\ listed' = files /\ apart' = files /\ msp' = m
      /\ plans' = [s \in DOMAIN p \cup DOMAIN b |-> IF s \in DOMAIN p THEN p[s] ELSE b[s]]
      /\ DOMAIN alias' = {} /\ DOMAIN pending' = {} /\ found' = {}
      /\ watcher' = Idle /\ rescan' = Idle /\ create' = Idle /\ delete' = Idle
      /\ DOMAIN paths' = files /\ \A f \in files : paths'[f] = f
      /\ UNCHANGED <<files, saved, home>>
  BY DEF Restart, Startup, Empty
<1> HIDE DEF m, p, b
<1>5. \A s \in DOMAIN plans' : \/ s \in DOMAIN p /\ plans'[s] = p[s]
                               \/ s \in DOMAIN b /\ plans'[s] = b[s]
  BY <1>4
<1>6. Typed'
  BY <1>1, <1>4 DEF Typed
<1>7. MapsAreOwn'
  <2>1. \A s \in DOMAIN plans' : s \in Managed => s \in DOMAIN home
    BY <1>2, <1>3, <1>5
  <2> QED BY <1>1, <1>2, <1>4, <2>1 DEF MapsAreOwn
<1>8. TaskIsOwn(watcher)' /\ TaskIsOwn(rescan)' /\ CreateIsOwn'
  BY <1>4 DEF TaskIsOwn, CreateIsOwn, Idle
<1>9. NothingForeign'
  <2>1. \A s \in DOMAIN plans' : plans'[s] = PlanOf[IF s \in Managed THEN home[s].dir ELSE DirOf[s]]
    BY <1>1, <1>2, <1>3, <1>5
  <2> QED BY <1>4, <2>1 DEF NothingForeign, Belongs, Idle
<1> QED BY <1>4, <1>6, <1>7, <1>8, <1>9 DEF LinkingInv

(* A CLI writes a file and the watcher may hear of it; nothing else moves. *)
LEMMA WriteKeeps ==
    ASSUME LinkingInv, \/ \E f \in Files : CliWrites(f)
                 \/ UNCHANGED linkingVars
    PROVE  LinkingInv'
<1>1. /\ files' \subseteq Files
      /\ UNCHANGED <<listed, alias, paths, msp, pending, plans, saved, home, watcher, rescan, create,
                     delete, found, apart>>
  BY DEF CliWrites, linkingVars, LinkingInv, Typed
<1>2. Typed' /\ MapsAreOwn'
  BY <1>1 DEF LinkingInv, Typed, MapsAreOwn
<1>3. TaskIsOwn(watcher)' /\ TaskIsOwn(rescan)' /\ CreateIsOwn'
  BY <1>1 DEF LinkingInv, TaskIsOwn, CreateIsOwn, Belongs
<1>4. NothingForeign'
  BY <1>1 DEF LinkingInv, NothingForeign, Belongs
<1> QED BY <1>1, <1>2, <1>3, <1>4 DEF LinkingInv

LEMMA NextLinkingInv == LinkingInv /\ [LinkingNext]_linkingVars => LinkingInv'
<1> SUFFICES ASSUME LinkingInv, [LinkingNext]_linkingVars PROVE LinkingInv'
  OBVIOUS
<1>1. CASE WatcherStep
  BY <1>1, WatcherKeeps
<1>2. CASE RescanStep
  BY <1>2, RescanKeeps
<1>3. CASE CreateStep
  BY <1>3, CreateKeeps
<1>4. CASE DeleteStep \/ \E s \in Ids : DeleteUnlists(s)
  BY <1>4, DeleteKeeps
<1>5. CASE \E m \in Managed, r \in Requests : CreateSpawns(m, r[1], r[2])
  BY <1>5, SpawnKeeps
<1>6. CASE Restart
  BY <1>6, RestartKeeps
<1>7. CASE (\E f \in Files : CliWrites(f)) \/ UNCHANGED linkingVars
  BY <1>7, WriteKeeps
<1> QED BY <1>1, <1>2, <1>3, <1>4, <1>5, <1>6, <1>7 DEF LinkingNext

(* No alias, no stored path and no path a deletion has copied out ever     *)
(* joins a session with a Claude file of another project or, as a Codex or *)
(* Gemini path names no project, a file of another CLI; no plan is joined  *)
(* with a session of another directory, nor is a session that startup      *)
(* registered linked to a managed one: whatever the watcher, the rescan,   *)
(* the requests and restarts interleave to                                 *)
(* (main.rs:1192-1256, 1679-1703, 2601-2618; ecs/world.rs aliases).        *)
THEOREM NothingForeignHolds == LinkingSpec => []NothingForeign
<1>1. LinkingInit => LinkingInv
  BY InitLinkingInv
<1>2. LinkingInv /\ [LinkingNext]_linkingVars => LinkingInv'
  BY NextLinkingInv
<1>3. LinkingInv => NothingForeign
  BY DEF LinkingInv
<1> QED BY <1>1, <1>2, <1>3, PTL DEF LinkingSpec

-----------------------------------------------------------------------------
(***************************************************************************)
(* SessionLifecycle.  What was sent on to the users is counted by where the*)
(* producer is in what it has read, and what is in the terminal by how far *)
(* each message's writes have come.  The end of a session is announced by  *)
(* whoever has read everything that was printed before.                    *)
(***************************************************************************)

\* An event is a pair; of a session's end and its rest only the name matters.
Events == {<<"closed">>, <<"idle">>} \cup ({"output"} \X Nat)
Typings == Messages \X (Nat \cup {"return"})
Pieces == Chunks \cup Lines
Producers ==
    [pc : {"attach", "poll", "emit"}] \cup [pc : {"announce"}, why : {"hangup", "error"}]
        \cup [pc : {"ended"}, why : {"hangup", "error", "shutdown"}]
        \cup [pc : {"select"}, told : BOOLEAN]
        \cup [pc : {"apply", "output"}, file : Seq(Pieces), start : Nat]

LifecycleTypeOK ==
    /\ sent \in Seq(Events) /\ typed \in Seq(Typings) /\ printed \in Seq(Pieces)
    /\ read \in Nat /\ from \in Nat /\ shutdown \in BOOLEAN
    /\ kind \in {"managed", "observed"} /\ cuts \subseteq Nat /\ truncated \in BOOLEAN
    /\ producer \in Producers
    /\ progress \in [Messages -> [writes : Nat, answer : {"none", "ok", "error"}]]

LEMMA OutputsGrow ==
    ASSUME NEW s \in Seq(Events), NEW e \in Events
    PROVE  /\ OutputsOf(s) \in Seq(Nat)
           /\ e[1] # "output" => OutputsOf(Append(s, e)) = OutputsOf(s)
           /\ e[1] = "output" => OutputsOf(Append(s, e)) = Append(OutputsOf(s), e[2])
<1>1. PICK f : f = [x \in Events |-> IF x[1] = "output" THEN <<x[2]>> ELSE <<>>]
  OBVIOUS
<1>2. f \in [Events -> Seq(Nat)]
  BY <1>1 DEF Events
<1>3. PICK t \in Seq(Events) : t = Append(s, e)
  BY AppendProperties
<1>4. OutputsOf(s) = Gathered(f, s) /\ OutputsOf(t) = Gathered(f, t)
  <2>1. \A z \in Seq(Events) : \A i \in DOMAIN z : z[i] \in Events
    OBVIOUS
  <2>2. ASSUME NEW z \in Seq(Events)
        PROVE  [i \in DOMAIN z |-> IF z[i][1] = "output" THEN <<z[i][2]>> ELSE <<>>] = [i \in DOMAIN z |-> f[z[i]]]
    BY <1>1, <2>1
  <2> QED BY <2>2 DEF OutputsOf, Gathered
<1>5. Gathered(f, s) \in Seq(Nat) /\ Gathered(f, t) = Gathered(f, s) \o f[e]
  <2>1. Gatherer(f, Events, Nat)
    BY <1>2 DEF Gatherer
  <2> QED BY <1>3, <2>1, GatheredMore
<1>6. PICK o \in Seq(Nat) : o = OutputsOf(s) /\ OutputsOf(t) = o \o f[e]
  BY <1>4, <1>5
<1>7. CASE e[1] # "output"
  <2>1. f[e] = <<>> /\ o \o <<>> = o
    BY <1>1, <1>7, ConcatEmptySeq
  <2> QED BY <1>3, <1>6, <1>7, <2>1
<1>8. CASE e[1] = "output"
  <2>1. f[e] = <<e[2]>> /\ e[2] \in Nat
    BY <1>1, <1>8 DEF Events
  <2>2. Append(o, e[2]) = o \o <<e[2]>>
    BY <2>1, AppendIsConcat
  <2> QED BY <1>3, <1>6, <1>8, <2>1, <2>2
<1> QED BY <1>7, <1>8

LEMMA WritesGrow ==
    ASSUME NEW m, NEW s \in Seq(Typings), NEW w \in Typings
    PROVE  /\ WritesOf(m, s) \in Seq(Typings)
           /\ w[1] # m => WritesOf(m, Append(s, w)) = WritesOf(m, s)
           /\ w[1] = m => WritesOf(m, Append(s, w)) = Append(WritesOf(m, s), w)
<1>1. PICK f : f = [x \in Typings |-> IF x[1] = m THEN <<x>> ELSE <<>>]
  OBVIOUS
<1>2. f \in [Typings -> Seq(Typings)]
  BY <1>1
<1>3. PICK t \in Seq(Typings) : t = Append(s, w)
  BY AppendProperties
<1>4. WritesOf(m, s) = Gathered(f, s) /\ WritesOf(m, t) = Gathered(f, t)
  <2>1. \A z \in Seq(Typings) : \A i \in DOMAIN z : z[i] \in Typings
    OBVIOUS
  <2>2. ASSUME NEW z \in Seq(Typings)
        PROVE  [i \in DOMAIN z |-> IF z[i][1] = m THEN <<z[i]>> ELSE <<>>] = [i \in DOMAIN z |-> f[z[i]]]
    BY <1>1, <2>1
  <2> QED BY <2>2 DEF WritesOf, Gathered
<1>5. Gathered(f, s) \in Seq(Typings) /\ Gathered(f, t) = Gathered(f, s) \o f[w]
  <2>1. Gatherer(f, Typings, Typings)
    BY <1>2 DEF Gatherer
  <2>2. Gathered(f, s) \in Seq(Typings) /\ Gathered(f, Append(s, w)) = Gathered(f, s) \o f[w]
    BY <2>1, GatheredMore
  <2> QED BY <1>3, <2>2
<1>6. PICK o \in Seq(Typings) : o = WritesOf(m, s) /\ WritesOf(m, t) = o \o f[w]
  BY <1>4, <1>5
<1>7. CASE w[1] # m
  <2>1. f[w] = <<>> /\ o \o <<>> = o
    BY <1>1, <1>7, ConcatEmptySeq
  <2> QED BY <1>3, <1>6, <1>7, <2>1
<1>8. CASE w[1] = m
  <2>1. f[w] = <<w>>
    BY <1>1, <1>8
  <2>2. Append(o, w) = o \o <<w>>
    BY AppendIsConcat
  <2> QED BY <1>3, <1>6, <1>8, <2>1, <2>2
<1> QED BY <1>7, <1>8

-----------------------------------------------------------------------------
\* How many of the chunks taken have been sent on.
InHand == IF producer.pc = "emit" THEN 1 ELSE 0
Told == read - InHand
Numerals(n) == [i \in 1 .. n |-> i]

\* The reader's place, and what it knows of what is printed.
ProducerInv ==
    /\ kind = "managed" =>
           /\ producer.pc \in {"poll", "emit", "announce", "ended"}
           /\ InHand <= read /\ read <= Len(printed)
           /\ Outputs = Numerals(Told)
    /\ kind = "observed" => producer.pc \in {"attach", "select", "apply", "output", "ended"}
    /\ producer.pc \in {"announce", "ended"} /\ producer.why = "hangup" =>
          kind = "managed" /\ process = "gone" /\ read = Len(printed)

\* The tail task's.  The lines in its hand are those of the file, which only grew; a
\* line of which something is due was not cut, because the last cut is where the pass
\* began.
Passed == IF producer.pc = "output" THEN read - 1 ELSE read
InPass ==
    /\ Len(producer.file) <= Len(printed)
    /\ \A i \in 1 .. Len(producer.file) : producer.file[i] = printed[i]
    /\ producer.start <= read /\ read <= Len(producer.file)
    /\ producer.start \in cuts /\ \A c \in cuts : c <= producer.start
Sorted(s) == \A i, j \in DOMAIN s : i < j => s[i] < s[j]
TailPlace ==
    /\ from <= read /\ read <= Len(printed)
    /\ producer.pc = "attach" => read = 0 /\ cuts = {}
    /\ \A c \in cuts : c <= read
    /\ producer.pc \in {"apply", "output"} => InPass
    /\ producer.pc = "output" => read \in Due(read)
TailTold == Sorted(Outputs) /\ Range(Outputs) = Due(Passed)
TailInv == kind = "observed" /\ ~truncated => TailPlace /\ TailTold

\* What of m is in the terminal.
Numbered(m, n) == [i \in 1 .. n |-> <<m, i>>]
TypedInv(m) ==
    /\ progress[m].answer # "ok" => WritesOf(m, typed) = Numbered(m, progress[m].writes)
    /\ progress[m].answer = "ok" =>
          WritesOf(m, typed) = Numbered(m, Writes[m]) \o << <<m, "return">> >>

LifecycleInv ==
    /\ LifecycleTypeOK
    /\ ProducerInv
    /\ TailInv
    /\ \A m \in Messages : TypedInv(m)

LEMMA InvIsWhole == LifecycleInv => NothingIsCutShort
<1> SUFFICES ASSUME LifecycleInv PROVE NothingIsCutShort
  OBVIOUS
<1>1. ManagedIsWhole
  <2> SUFFICES ASSUME kind = "managed" PROVE ManagedIsWhole
    BY DEF ManagedIsWhole
  <2>1. PICK r \in Nat, h \in Nat : r = read /\ h = InHand /\ h <= r
    BY DEF LifecycleInv, LifecycleTypeOK, ProducerInv, InHand
  <2>2. PICK n \in Nat : n = Told /\ n = r - h
    BY <2>1 DEF Told
  <2>3. Len(Outputs) = n /\ Outputs = [i \in 1 .. n |-> i]
    BY <2>2 DEF LifecycleInv, ProducerInv, Numerals
  <2>4. producer.pc = "ended" /\ producer.why = "hangup" => Len(Outputs) = Len(printed)
    <3> SUFFICES ASSUME producer.pc = "ended", producer.why = "hangup" PROVE Len(Outputs) = Len(printed)
      OBVIOUS
    <3>1. read = Len(printed) /\ InHand = 0
      BY DEF LifecycleInv, ProducerInv, InHand
    <3> QED BY <2>1, <2>2, <2>3, <3>1
  <2> QED BY <2>3, <2>4 DEF ManagedIsWhole
<1>2. ObservedIsWhole
  <2> SUFFICES ASSUME kind = "observed", ~truncated PROVE ObservedIsWhole
    BY DEF ObservedIsWhole
  <2>1. Sorted(Outputs) /\ Range(Outputs) = Due(Passed)
    BY DEF LifecycleInv, TailInv, TailTold
  <2>2. producer.pc \in {"select", "ended"} => Passed = read
    BY DEF Passed
  <2> QED BY <2>1, <2>2 DEF ObservedIsWhole, Sorted
<1>3. \A m \in Messages : TypedInv(m)
  BY DEF LifecycleInv
<1> QED BY <1>1, <1>2, <1>3 DEF NothingIsCutShort, TypedInv, Numbered

LEMMA InitLifecycleInv == LifecycleInit => LifecycleInv
<1> SUFFICES ASSUME LifecycleInit PROVE LifecycleInv
  OBVIOUS
<1>1. LifecycleTypeOK
  <2>1. sent \in Seq(Events) /\ typed \in Seq(Typings) /\ printed \in Seq(Pieces)
    BY NoneIsSeq DEF LifecycleInit
  <2>2. producer \in Producers
    BY DEF LifecycleInit, Producers
  <2>3. progress \in [Messages -> [writes : Nat, answer : {"none", "ok", "error"}]]
    BY DEF LifecycleInit
  <2> QED BY <2>1, <2>2, <2>3 DEF LifecycleInit, LifecycleTypeOK
<1>2. Outputs = <<>>
  <2>1. [i \in DOMAIN <<>> |-> IF <<>>[i][1] = "output" THEN << <<>>[i][2] >> ELSE <<>>] = <<>>
    OBVIOUS
  <2> QED BY <2>1, FlattenNothing DEF OutputsOf, LifecycleInit, Outputs
<1>3. ProducerInv
  <2>1. Numerals(0) = <<>>
    BY DEF Numerals
  <2>2. InHand = 0 /\ Told = 0
    <3>1. InHand = 0 /\ read = 0
      BY DEF LifecycleInit, InHand
    <3> QED BY <3>1 DEF Told
  <2> QED BY <1>1, <1>2, <2>1, <2>2 DEF LifecycleInit, LifecycleTypeOK, ProducerInv
<1>5. TailInv
  <2> SUFFICES ASSUME kind = "observed" PROVE TailPlace /\ TailTold
    BY DEF TailInv
  <2>1. producer.pc = "attach" /\ read = 0 /\ from = 0 /\ cuts = {}
    BY DEF LifecycleInit
  <2>2. TailPlace
    BY <1>1, <2>1, LenProperties DEF TailPlace, LifecycleTypeOK
  <2>3. Passed = 0 /\ Due(0) = {}
    BY <2>1 DEF Passed, Due
  <2>4. Sorted(<<>>) /\ Range(<<>>) = {}
    BY NothingTwice DEF Sorted
  <2> QED BY <1>2, <2>2, <2>3, <2>4 DEF TailTold
<1>4. ASSUME NEW m \in Messages PROVE TypedInv(m)
  <2>1. WritesOf(m, <<>>) = <<>>
    <3>1. [i \in DOMAIN <<>> |-> IF <<>>[i][1] = m THEN << <<>>[i] >> ELSE <<>>] = <<>>
      OBVIOUS
    <3> QED BY <3>1, FlattenNothing DEF WritesOf
  <2>2. Numbered(m, 0) = <<>>
    BY DEF Numbered
  <2> QED BY <2>1, <2>2 DEF LifecycleInit, TypedInv
<1> QED BY <1>1, <1>3, <1>4, <1>5 DEF LifecycleInv

\* A step that emits nothing, or an event that is no output, leaves the outputs alone.
Silent == sent' = sent \/ \E e \in Events : e[1] # "output" /\ sent' = Append(sent, e)

LEMMA SilentStep == ASSUME sent \in Seq(Events), Silent PROVE Outputs' = Outputs /\ sent' \in Seq(Events)
<1>1. CASE sent' = sent
  BY <1>1 DEF Outputs
<1>2. CASE \E e \in Events : e[1] # "output" /\ sent' = Append(sent, e)
  <2>1. PICK e \in Events : e[1] # "output" /\ sent' = Append(sent, e)
    BY <1>2
  <2>2. OutputsOf(Append(sent, e)) = OutputsOf(sent)
    BY <2>1, OutputsGrow
  <2>3. Append(sent, e) \in Seq(Events)
    BY AppendProperties
  <2> QED BY <2>1, <2>2, <2>3 DEF Outputs
<1> QED BY <1>1, <1>2 DEF Silent

LEMMA ClosedEvent == <<"closed">> \in Events /\ <<"closed">>[1] # "output"
BY DEF Events
LEMMA IdleEvent == <<"idle">> \in Events /\ <<"idle">>[1] # "output"
BY DEF Events

\* Nothing was typed, and no message was answered.
LEMMA TypedStays ==
    ASSUME \A m \in Messages : TypedInv(m), typed' = typed, progress' = progress
    PROVE  \A m \in Messages : TypedInv(m)'
BY DEF TypedInv

\* Detector, close() and the CLI: the producer does not move.
Aside ==
    /\ UNCHANGED <<kind, read, tailing, producer, typed, progress>>
    /\ Silent
    /\ process' \in {process, "gone"} /\ shutdown' \in {shutdown, TRUE}
    /\ \/ printed' = printed
       \/ process = "running" /\ \E c \in Pieces : printed' = Append(printed, c)

LEMMA AsideSteps ==
    ASSUME \/ Prints \/ Exits \/ Detector \/ Close \/ UNCHANGED lifecycleVars
    PROVE  Aside
<1>1. CASE Prints
  <2>1. NextPiece(printed) \subseteq Pieces
    BY LifecycleAssumption DEF NextPiece, Pieces, Lines
  <2> QED BY <1>1, <2>1 DEF Prints, Aside, Silent
<1>2. CASE Exits
  BY <1>2 DEF Exits, Aside, Silent
<1>3. CASE Detector
  <2>1. CASE DetectorAnnounces
    <3>1. Silent
      BY <2>1, IdleEvent DEF DetectorAnnounces, Emit, Silent
    <3> QED BY <2>1, <3>1 DEF DetectorAnnounces, Aside
  <2>2. CASE DetectorStarts \/ DetectorReceives \/ DetectorTimesOut \/ DetectorSets
    BY <2>2 DEF DetectorStarts, DetectorReceives, DetectorTimesOut, DetectorSets, Aside, Silent
  <2> QED BY <1>3, <2>1, <2>2 DEF Detector
<1>4. CASE Close
  <2>1. CASE CloseAnnounces
    <3>1. Silent
      BY <2>1, ClosedEvent DEF CloseAnnounces, Emit, Silent
    <3> QED BY <2>1, <3>1 DEF CloseAnnounces, Aside
  <2>2. CASE CloseStarts \/ CloseTypesEof \/ CloseSets
    BY <2>2 DEF CloseStarts, CloseTypesEof, CloseSets, Aside, Silent
  <2> QED BY <1>4, <2>1, <2>2 DEF Close
<1>5. CASE UNCHANGED lifecycleVars
  BY <1>5 DEF lifecycleVars, Aside, Silent
<1> QED BY <1>1, <1>2, <1>3, <1>4, <1>5

\* What was printed stays, and perhaps more is.
LEMMA PrintedGrows ==
    ASSUME LifecycleInv, Aside
    PROVE  /\ printed' \in Seq(Pieces) /\ Len(printed) <= Len(printed')
           /\ \A i \in 1 .. Len(printed) : printed'[i] = printed[i]
<1>1. printed \in Seq(Pieces)
  BY DEF LifecycleInv, LifecycleTypeOK
<1>2. CASE printed' = printed
  BY <1>1, <1>2
<1>3. CASE \E c \in Pieces : printed' = Append(printed, c)
  <2>1. PICK c \in Pieces : printed' = Append(printed, c)
    BY <1>3
  <2>2. PICK t \in Seq(Pieces) : t = Append(printed, c)
    BY <1>1, AppendProperties
  <2>3. Len(t) = Len(printed) + 1 /\ \A i \in 1 .. Len(printed) : t[i] = printed[i]
    BY <1>1, <2>2, AppendProperties
  <2>4. Len(printed) \in Nat
    BY <1>1
  <2> QED BY <2>1, <2>2, <2>3, <2>4
<1> QED BY <1>2, <1>3 DEF Aside

\* What is due up to a line depends on the lines up to it and on the cuts before it.
LEMMA DueStays ==
    ASSUME NEW u \in Nat, from \in Nat, from' = from,
           \A i \in 1 .. u : printed'[i] = printed[i],
           \A i \in 1 .. u : i - 1 \in cuts' <=> i - 1 \in cuts
    PROVE  Due(u)' = Due(u)
<1>1. \A i \in from + 1 .. u : i \in 1 .. u
  OBVIOUS
<1>2. \A i \in from + 1 .. u : IsSent(printed'[i], i - 1 \notin cuts') <=> IsSent(printed[i], i - 1 \notin cuts)
  <2> SUFFICES ASSUME NEW i \in from + 1 .. u
               PROVE IsSent(printed'[i], i - 1 \notin cuts') <=> IsSent(printed[i], i - 1 \notin cuts)
    OBVIOUS
  <2>1. printed'[i] = printed[i] /\ (i - 1 \in cuts' <=> i - 1 \in cuts)
    BY <1>1
  <2> QED BY <2>1 DEF IsSent
<1> QED BY <1>2 DEF Due

LEMMA AsideKeeps == LifecycleInv /\ Aside => LifecycleInv'
<1> SUFFICES ASSUME LifecycleInv, Aside PROVE LifecycleInv'
  OBVIOUS
<1>1. sent' \in Seq(Events) /\ Outputs' = Outputs
  BY SilentStep DEF Aside, LifecycleInv, LifecycleTypeOK
<1>2. /\ printed' \in Seq(Pieces) /\ Len(printed) <= Len(printed')
      /\ \A i \in 1 .. Len(printed) : printed'[i] = printed[i]
  BY PrintedGrows
<1>3. LifecycleTypeOK'
  BY <1>1, <1>2 DEF Aside, tailing, LifecycleInv, LifecycleTypeOK
<1>4. InHand' = InHand /\ Told' = Told /\ Passed' = Passed
  BY DEF Aside, InHand, Told, Passed
<1>5. ProducerInv'
  <2>1. producer.pc \in {"announce", "ended"} /\ producer.why = "hangup" =>
           process' = "gone" /\ printed' = printed
    BY DEF Aside, LifecycleInv, ProducerInv
  <2>2. PICK k \in Nat, n \in Nat, r \in Nat : k = Len(printed) /\ n = Len(printed') /\ r = read
    BY <1>2 DEF LifecycleInv, LifecycleTypeOK
  <2>3. Numerals(Told)' = Numerals(Told)
    BY <1>4 DEF Numerals
  <2> QED BY <1>1, <1>2, <1>4, <2>1, <2>2, <2>3 DEF Aside, LifecycleInv, ProducerInv
<1>6. TailInv'
  <2> SUFFICES ASSUME kind = "observed", ~truncated PROVE (TailPlace /\ TailTold)'
    BY DEF TailInv, Aside, tailing
  <2>0. TailPlace /\ TailTold /\ UNCHANGED <<kind, read, from, cuts, truncated, producer>>
    BY DEF LifecycleInv, TailInv, Aside, tailing
  <2>1. PICK k \in Nat, n \in Nat, r \in Nat : k = Len(printed) /\ n = Len(printed') /\ r = read /\ k <= n /\ r <= k
    BY <1>2, <2>0 DEF LifecycleInv, LifecycleTypeOK, TailPlace
  <2>2. ASSUME NEW u \in Nat, u <= k PROVE Due(u)' = Due(u)
    <3>1. \A i \in 1 .. u : i \in 1 .. k
      BY <2>2
    <3>2. \A i \in 1 .. u : printed'[i] = printed[i]
      BY <1>2, <2>1, <3>1
    <3>3. from \in Nat
      BY DEF LifecycleInv, LifecycleTypeOK
    <3> QED BY <2>0, <3>2, <3>3, DueStays
  <2>3. producer.pc \in {"apply", "output"} => InPass'
    <3> SUFFICES ASSUME producer.pc \in {"apply", "output"} PROVE InPass'
      OBVIOUS
    <3>1. InPass /\ producer.file \in Seq(Pieces)
      BY <2>0 DEF TailPlace, LifecycleInv, LifecycleTypeOK, Producers
    <3>2. PICK l \in Nat : l = Len(producer.file) /\ l <= k
      BY <2>1, <3>1 DEF InPass
    <3>3. \A i \in 1 .. l : i \in 1 .. k
      BY <3>2
    <3> QED BY <1>2, <2>0, <2>1, <3>1, <3>2, <3>3 DEF InPass
  <2>4. producer.pc = "output" => read \in Due(read)'
    BY <2>0, <2>1, <2>2 DEF TailPlace
  <2>5. Due(Passed)' = Due(Passed)
    <3>1. (Passed \in Nat /\ Passed <= k) \/ (Due(Passed) = {} /\ Due(Passed)' = {})
      <4>1. CASE producer.pc = "output"
        <5>1. r \in from + 1 .. r
          BY <2>0, <2>1, <4>1 DEF TailPlace, Due
        <5>2. from \in Nat
          BY DEF LifecycleInv, LifecycleTypeOK
        <5>3. r - 1 \in Nat
          BY <5>1, <5>2
        <5> QED BY <2>1, <4>1, <5>3 DEF Passed
      <4>2. CASE producer.pc # "output"
        BY <2>1, <4>2 DEF Passed
      <4> QED BY <4>1, <4>2
    <3>2. PICK u : u = Passed /\ u = Passed'
      BY <1>4
    <3>3. CASE u \in Nat /\ u <= k
      <4>1. Due(u)' = Due(u)
        BY <2>2, <3>3
      <4> QED BY <3>2, <4>1 DEF Due
    <3>4. CASE Due(Passed) = {} /\ Due(Passed)' = {}
      BY <3>4
    <3> QED BY <3>1, <3>2, <3>3, <3>4
  <2>6. TailPlace'
    BY <2>0, <2>1, <2>3, <2>4 DEF TailPlace
  <2>7. TailTold'
    BY <1>1, <2>0, <2>5 DEF TailTold, Sorted
  <2> QED BY <2>6, <2>7
<1>7. \A m \in Messages : TypedInv(m)'
  BY TypedStays DEF Aside, LifecycleInv
<1> QED BY <1>3, <1>5, <1>6, <1>7 DEF LifecycleInv

\* Of a file that is cut back nothing is claimed any more.
LEMMA TruncatesKeeps == LifecycleInv /\ Truncates => LifecycleInv'
<1> SUFFICES ASSUME LifecycleInv, Truncates PROVE LifecycleInv'
  OBVIOUS
<1>1. kind = "observed" /\ truncated' /\ UNCHANGED <<kind, sent, read, from, cuts, producer, shutdown, typed, progress>>
  BY DEF Truncates
<1>2. printed' \in Seq(Pieces)
  <2>1. PICK n \in 0 .. Len(printed) - 1 : printed' = SubSeq(printed, 1, n)
    BY DEF Truncates
  <2>2. printed \in Seq(Pieces)
    BY DEF LifecycleInv, LifecycleTypeOK
  <2> QED BY <2>1, <2>2
<1>3. LifecycleTypeOK'
  BY <1>1, <1>2 DEF LifecycleInv, LifecycleTypeOK, Truncates
<1>4. ProducerInv'
  BY <1>1 DEF LifecycleInv, ProducerInv
<1>5. TailInv'
  BY <1>1 DEF TailInv
<1>6. \A m \in Messages : TypedInv(m)'
  BY <1>1, TypedStays DEF LifecycleInv
<1> QED BY <1>3, <1>4, <1>5, <1>6 DEF LifecycleInv

\* The reader's steps do one of two things to the outputs.
LEMMA OutputsStay ==
    ASSUME LifecycleInv, kind = "managed", Silent, Told' = Told
    PROVE  sent' \in Seq(Events) /\ Outputs' = Numerals(Told')
<1>1. sent' \in Seq(Events) /\ Outputs' = Outputs
  BY SilentStep DEF LifecycleInv, LifecycleTypeOK
<1> QED BY <1>1 DEF LifecycleInv, ProducerInv

LEMMA NextCounted == ASSUME NEW n \in Nat PROVE Append(Numerals(n), n + 1) = Numerals(n + 1)
<1>1. PICK v : v = Numerals(n)
  OBVIOUS
<1>2. v \in Seq(Nat) /\ Len(v) = n
  <2>1. v = [i \in 1 .. n |-> v[i]] /\ \A i \in 1 .. n : v[i] \in Nat
    BY <1>1 DEF Numerals
  <2> QED BY <2>1, MadeSeq
<1>3. PICK w \in Seq(Nat) : w = Append(v, n + 1)
  <2>1. Append(v, n + 1) \in Seq(Nat)
    BY <1>2, AppendProperties
  <2> QED BY <2>1
<1>4. Len(w) = n + 1 /\ w[n + 1] = n + 1 /\ \A i \in 1 .. n : w[i] = v[i]
  BY <1>2, <1>3, AppendProperties
<1>5. w = [i \in 1 .. n + 1 |-> w[i]]
  BY <1>4
<1>6. \A i \in 1 .. n + 1 : w[i] = i
  <2>1. \A i \in 1 .. n + 1 : i \in 1 .. n \/ i = n + 1
    OBVIOUS
  <2>2. \A i \in 1 .. n : v[i] = i
    BY <1>1 DEF Numerals
  <2> QED BY <1>4, <2>1, <2>2
<1>7. w = Numerals(n + 1)
  BY <1>5, <1>6 DEF Numerals
<1> QED BY <1>1, <1>3, <1>7

\* One output more.
LEMMA OutputSent ==
    ASSUME LifecycleInv, sent' = Append(sent, <<"output", read>>)
    PROVE  sent' \in Seq(Events) /\ Outputs \in Seq(Nat) /\ Outputs' = Append(Outputs, read)
<1>1. PICK r \in Nat : r = read
  BY DEF LifecycleInv, LifecycleTypeOK
<1>2. sent \in Seq(Events) /\ <<"output", r>> \in Events
  BY <1>1 DEF LifecycleInv, LifecycleTypeOK, Events
<1>3. OutputsOf(sent) \in Seq(Nat) /\ OutputsOf(Append(sent, <<"output", r>>)) = Append(OutputsOf(sent), r)
  <2>1. PICK e \in Events : e = <<"output", r>>
    BY <1>2
  <2>2. e[1] = "output" /\ e[2] = r
    BY <2>1
  <2> QED BY <1>2, <2>1, <2>2, OutputsGrow
<1>4. Append(sent, <<"output", r>>) \in Seq(Events)
  BY <1>2, AppendProperties
<1> QED BY <1>1, <1>3, <1>4 DEF Outputs

LEMMA OutputsAdvance ==
    ASSUME LifecycleInv, kind = "managed", sent' = Append(sent, <<"output", read>>), read' = read,
           InHand = 1, InHand' = 0
    PROVE  sent' \in Seq(Events) /\ Outputs' = Numerals(Told')
<1>1. PICK r \in Nat : r = read /\ 1 <= r
  BY DEF LifecycleInv, LifecycleTypeOK, ProducerInv
<1>2. PICK n \in Nat : n = Told /\ r = n + 1
  <2>1. r - 1 \in Nat /\ r = (r - 1) + 1
    BY <1>1
  <2> QED BY <1>1, <2>1 DEF Told
<1>3. Told' = n + 1
  BY <1>1, <1>2 DEF Told
<1>4. Append(Numerals(n), r) = Numerals(n + 1)
  BY <1>2, NextCounted
<1> QED BY <1>1, <1>2, <1>3, <1>4, OutputSent DEF LifecycleInv, ProducerInv

LEMMA ProducerMoves ==
    ASSUME LifecycleInv, UNCHANGED <<kind, printed, truncated, shutdown, typed, progress>>,
           read' \in Nat, from' \in Nat, cuts' \subseteq Nat, producer' \in Producers,
           sent' \in Seq(Events), ProducerInv', TailInv'
    PROVE  LifecycleInv'
<1>1. LifecycleTypeOK'
  BY DEF LifecycleInv, LifecycleTypeOK
<1>2. \A m \in Messages : TypedInv(m)'
  BY TypedStays DEF LifecycleInv
<1> QED BY <1>1, <1>2 DEF LifecycleInv

LEMMA Places == ASSUME LifecycleInv PROVE read \in Nat /\ from \in Nat /\ Len(printed) \in Nat
<1>1. printed \in Seq(Pieces) /\ read \in Nat /\ from \in Nat
  BY DEF LifecycleInv, LifecycleTypeOK
<1> QED BY <1>1, LenProperties

LEMMA ReaderKeeps == LifecycleInv /\ Reader => LifecycleInv'
<1> SUFFICES ASSUME LifecycleInv, Reader PROVE LifecycleInv'
  OBVIOUS
<1>1. PICK r \in Nat, n \in Nat : r = read /\ n = Len(printed)
  BY Places
<1>2. UNCHANGED <<kind, printed, from, cuts, truncated, shutdown, typed, progress>> /\ kind = "managed"
  BY DEF Reader, ReaderReads, ReaderEmits, ReaderEnds, ReaderAnnounces, tailing
<1>3. InHand <= r /\ r <= n
  BY <1>1, <1>2 DEF LifecycleInv, ProducerInv
<1>t. TailInv' /\ from' \in Nat /\ cuts' \subseteq Nat
  BY <1>2 DEF TailInv, LifecycleInv, LifecycleTypeOK
<1>4. CASE ReaderReads
  <2>1. read' = r + 1 /\ r < n /\ InHand = 0 /\ InHand' = 1
    BY <1>1, <1>4 DEF ReaderReads, InHand
  <2>2. Told' = Told
    BY <1>1, <1>2, <2>1 DEF Told
  <2>3. Silent
    BY <1>4 DEF ReaderReads, Silent
  <2>4. producer' \in Producers
    BY <1>4 DEF ReaderReads, Producers
  <2>o. sent' \in Seq(Events) /\ Outputs' = Numerals(Told')
    BY <1>2, <2>2, <2>3, OutputsStay
  <2>5. ProducerInv'
    BY <2>o, <1>1, <1>2, <1>3, <1>4, <2>1 DEF ReaderReads, ProducerInv
  <2> QED BY <1>1, <1>2, <1>t, <2>1, <2>4, <2>5, <2>o, ProducerMoves
<1>5. CASE ReaderEmits
  <2>1. read' = r /\ InHand = 1 /\ InHand' = 0
    BY <1>1, <1>5 DEF ReaderEmits, InHand
  <2>2. producer' \in Producers
    BY <1>5 DEF ReaderEmits, Producers
  <2>3. sent' \in Seq(Events) /\ Outputs' = Numerals(Told')
    BY <1>1, <1>2, <1>5, <2>1, OutputsAdvance DEF ReaderEmits, Emit
  <2>4. ProducerInv'
    BY <1>1, <1>2, <1>3, <1>5, <2>1, <2>3 DEF ReaderEmits, ProducerInv
  <2> QED BY <1>1, <1>2, <1>t, <2>1, <2>2, <2>3, <2>4, ProducerMoves
<1>6. CASE ReaderEnds
  <2>1. read' = r /\ InHand = 0 /\ InHand' = 0
    BY <1>1, <1>6 DEF ReaderEnds, InHand
  <2>2. Told' = Told
    BY <1>1, <1>2, <2>1 DEF Told
  <2>3. Silent
    BY <1>6 DEF ReaderEnds, Silent
  <2>4. producer' \in Producers
    BY <1>6 DEF ReaderEnds, Producers
  <2>o. sent' \in Seq(Events) /\ Outputs' = Numerals(Told')
    BY <1>2, <2>2, <2>3, OutputsStay
  <2>5. ProducerInv'
    BY <2>o, <1>1, <1>2, <1>3, <1>6, <2>1 DEF ReaderEnds, ProducerInv
  <2> QED BY <1>1, <1>2, <1>t, <2>1, <2>4, <2>5, <2>o, ProducerMoves
<1>7. CASE ReaderAnnounces
  <2>0. producer' = [pc |-> "ended", why |-> producer.why] /\ producer.why \in {"hangup", "error"}
    BY <1>7 DEF ReaderAnnounces, LifecycleInv, LifecycleTypeOK, Producers
  <2>1. read' = r /\ InHand = 0 /\ InHand' = 0
    BY <1>1, <1>7, <2>0 DEF ReaderAnnounces, InHand
  <2>2. Told' = Told
    BY <1>1, <1>2, <2>1 DEF Told
  <2>3. Silent
    BY <1>7, ClosedEvent DEF ReaderAnnounces, Silent, Emit
  <2>4. producer' \in Producers
    BY <2>0 DEF Producers
  <2>o. sent' \in Seq(Events) /\ Outputs' = Numerals(Told')
    BY <1>2, <2>2, <2>3, OutputsStay
  <2>5. ProducerInv'
    BY <2>o, <1>1, <1>2, <1>3, <1>7, <2>0, <2>1 DEF ReaderAnnounces, LifecycleInv, ProducerInv
  <2> QED BY <1>1, <1>2, <1>t, <2>1, <2>4, <2>5, <2>o, ProducerMoves
<1> QED BY <1>4, <1>5, <1>6, <1>7 DEF Reader

LEMMA SelectIsProducer == ASSUME shutdown \in BOOLEAN PROVE Select \in Producers
BY DEF Select, Producers

\* The line that comes next in a pass is due if its text is sent, and only then.
LEMMA NextDue ==
    ASSUME LifecycleInv, TailPlace, producer.pc = "apply", NEW r \in Nat, r = read, r < Len(producer.file)
    PROVE  /\ r + 1 <= Len(printed)
           /\ IsSent(producer.file[r + 1], r > producer.start) => Due(r + 1) = Due(r) \cup {r + 1}
           /\ ~IsSent(producer.file[r + 1], r > producer.start) => Due(r + 1) = Due(r)
<1>1. InPass /\ from \in Nat /\ from <= r
  BY DEF TailPlace, LifecycleInv, LifecycleTypeOK
<1>2. producer.file \in Seq(Pieces) /\ producer.start \in Nat /\ cuts \subseteq Nat /\ Len(printed) \in Nat
  BY DEF LifecycleInv, LifecycleTypeOK, Producers
<1>3. PICK k \in Nat, b \in Nat : k = Len(producer.file) /\ b = producer.start
  BY <1>2
<1>4. producer.file[r + 1] = printed[r + 1] /\ r + 1 <= k
  <2>1. r + 1 \in 1 .. k
    BY <1>3
  <2> QED BY <1>1, <1>3, <2>1 DEF InPass
<1>5. (r > b) <=> r \notin cuts
  <2>1. b <= r /\ b \in cuts /\ \A c \in cuts : c <= b
    BY <1>1, <1>3 DEF InPass
  <2> QED BY <1>2, <1>3, <2>1
<1>6. (r + 1) - 1 = r
  OBVIOUS
<1>7. IsSent(printed[r + 1], (r + 1) - 1 \notin cuts) <=> IsSent(producer.file[r + 1], r > producer.start)
  BY <1>3, <1>4, <1>5, <1>6 DEF IsSent
<1>8. \A i : i \in from + 1 .. r + 1 <=> i \in from + 1 .. r \/ i = r + 1
  BY <1>1
<1>9. r + 1 <= Len(printed)
  BY <1>1, <1>2, <1>3, <1>4 DEF InPass
<1> QED BY <1>7, <1>8, <1>9 DEF Due

\* Steps of the tail task that do not emit output and do not read a line.
LEMMA TailToldStays ==
    ASSUME LifecycleInv, TailTold, Silent, UNCHANGED <<from, printed>>, Passed \in Nat, Passed' = Passed,
           \A i \in 1 .. Passed : i - 1 \in cuts' <=> i - 1 \in cuts
    PROVE  TailTold'
<1>1. Outputs' = Outputs
  BY SilentStep DEF LifecycleInv, LifecycleTypeOK
<1>2. PICK u \in Nat : u = Passed
  OBVIOUS
<1>3. Due(u)' = Due(u)
  <2>1. from \in Nat
    BY DEF LifecycleInv, LifecycleTypeOK
  <2> QED BY <1>2, <2>1, DueStays
<1>4. Due(Passed)' = Due(Passed)
  BY <1>2, <1>3 DEF Due
<1> QED BY <1>1, <1>4 DEF TailTold, Sorted

LEMMA TailKeeps == LifecycleInv /\ TailTask => LifecycleInv'
<1> SUFFICES ASSUME LifecycleInv, TailTask PROVE LifecycleInv'
  OBVIOUS
<1>1. PICK r \in Nat, f \in Nat, n \in Nat : r = read /\ f = from /\ n = Len(printed)
  BY Places
<1>2. UNCHANGED <<kind, printed, truncated, shutdown, typed, progress>> /\ kind = "observed"
  BY DEF TailTask, TailStarts, TailParses, TailFindsNothing, TailSetsState, TailEmits, TailReturns,
         TailStops, tailing
<1>3. ~truncated => TailPlace /\ TailTold
  BY <1>2 DEF LifecycleInv, TailInv
<1>4. Select \in Producers /\ Select.pc = "select"
  BY SelectIsProducer DEF Select, LifecycleInv, LifecycleTypeOK
<1>5. cuts \subseteq Nat /\ printed \in Seq(Pieces) /\ sent \in Seq(Events)
  BY DEF LifecycleInv, LifecycleTypeOK
<1>p. ASSUME producer'.pc \in {"select", "apply", "output"} PROVE ProducerInv'
  BY <1>2, <1>p DEF ProducerInv
<1>6. CASE TailStarts
  <2>1. UNCHANGED <<sent, cuts>> /\ read' = from' /\ from' \in {n, 0} /\ producer' = Select /\ producer.pc = "attach"
    BY <1>1, <1>6 DEF TailStarts
  <2>2. Silent
    BY <2>1 DEF Silent
  <2>3. TailInv'
    <3> SUFFICES ASSUME ~truncated PROVE (TailPlace /\ TailTold)'
      BY <1>2 DEF TailInv
    <3>1. r = 0 /\ f = 0 /\ cuts = {} /\ f <= r
      BY <1>1, <1>3, <2>1 DEF TailPlace
    <3>2. Outputs' = Outputs
      BY <2>2, <1>5, SilentStep
    <3>3. Due(Passed) = {} /\ Due(Passed)' = {}
      <4>1. Passed = 0 /\ Passed' = from'
        BY <1>1, <1>4, <2>1, <3>1 DEF Passed
      <4> QED BY <1>1, <2>1, <3>1, <4>1 DEF Due
    <3>4. TailTold'
      BY <1>3, <3>2, <3>3 DEF TailTold, Sorted
    <3>5. TailPlace'
      BY <1>1, <1>2, <1>4, <2>1, <3>1 DEF TailPlace
    <3> QED BY <3>4, <3>5
  <2>4. ProducerInv' /\ sent' \in Seq(Events)
    BY <1>4, <1>5, <1>p, <2>1
  <2> QED BY <1>1, <1>2, <1>4, <1>5, <2>1, <2>3, <2>4, ProducerMoves
<1>7. CASE TailParses
  <2>1. PICK b \in Nat : /\ b = (IF r > n THEN 0 ELSE r) /\ r # n
                         /\ producer' = [pc |-> "apply", file |-> printed, start |-> b]
                         /\ read' = b /\ cuts' = cuts \cup {b} /\ UNCHANGED <<sent, from>> /\ producer.pc = "select"
    BY <1>1, <1>7 DEF TailParses
  <2>2. Silent
    BY <2>1 DEF Silent
  <2>3. producer' \in Producers
    BY <1>5, <2>1 DEF Producers
  <2>4. TailInv'
    <3> SUFFICES ASSUME ~truncated PROVE (TailPlace /\ TailTold)'
      BY <1>2 DEF TailInv
    <3>1. f <= r /\ r <= n /\ b = r /\ \A c \in cuts : c <= r
      BY <1>1, <1>3, <2>1 DEF TailPlace
    <3>2. Passed = r /\ Passed' = r
      BY <1>1, <2>1, <3>1 DEF Passed
    <3>3. TailTold'
      <4>1. \A i \in 1 .. r : i - 1 # b
        BY <3>1
      <4> QED BY <1>2, <1>3, <2>1, <2>2, <3>2, <4>1, TailToldStays
    <3>4. TailPlace'
      BY <1>1, <1>2, <2>1, <3>1 DEF TailPlace, InPass
    <3> QED BY <3>3, <3>4
  <2>5. ProducerInv' /\ sent' \in Seq(Events)
    BY <1>5, <1>p, <2>1
  <2>6. cuts' \subseteq Nat
    BY <1>5, <2>1
  <2> QED BY <1>1, <1>2, <2>1, <2>3, <2>4, <2>5, <2>6, ProducerMoves
<1>8. CASE TailFindsNothing \/ TailReturns
  <2>1. UNCHANGED <<sent, read, from, cuts>> /\ producer' = Select /\ producer.pc \in {"select", "apply"}
    BY <1>8 DEF TailFindsNothing, TailReturns, tailing
  <2>2. Silent
    BY <2>1 DEF Silent
  <2>3. TailInv'
    <3> SUFFICES ASSUME ~truncated PROVE (TailPlace /\ TailTold)'
      BY <1>2 DEF TailInv
    <3>1. Passed = r /\ Passed' = r
      BY <1>1, <1>4, <2>1 DEF Passed
    <3>2. TailTold'
      BY <1>2, <1>3, <2>1, <2>2, <3>1, TailToldStays
    <3>3. TailPlace'
      BY <1>1, <1>2, <1>3, <1>4, <2>1 DEF TailPlace
    <3> QED BY <3>2, <3>3
  <2>4. ProducerInv' /\ sent' \in Seq(Events)
    BY <1>4, <1>5, <1>p, <2>1
  <2> QED BY <1>1, <1>2, <1>4, <1>5, <2>1, <2>3, <2>4, ProducerMoves
<1>9. CASE TailSetsState
  <2>1. /\ producer.pc = "apply" /\ r < Len(producer.file) /\ read' = r + 1 /\ UNCHANGED <<from, cuts>>
        /\ producer' = IF IsSent(producer.file[r + 1], r > producer.start) THEN [producer EXCEPT !.pc = "output"]
                       ELSE producer
    BY <1>1, <1>9 DEF TailSetsState, tailing
  <2>2. PICK g \in Seq(Pieces), b \in Nat : producer = [pc |-> "apply", file |-> g, start |-> b]
    BY <2>1 DEF LifecycleInv, LifecycleTypeOK, Producers
  <2>3. producer' \in {[pc |-> "apply", file |-> g, start |-> b], [pc |-> "output", file |-> g, start |-> b]}
    BY <2>1, <2>2
  <2>4. Silent
    BY <1>9, IdleEvent DEF TailSetsState, Silent
  <2>5. TailInv'
    <3> SUFFICES ASSUME ~truncated PROVE (TailPlace /\ TailTold)'
      BY <1>2 DEF TailInv
    <3>1. InPass /\ f <= r /\ r <= n /\ \A c \in cuts : c <= r
      BY <1>1, <1>3, <2>1 DEF TailPlace
    <3>2. /\ r + 1 <= n
          /\ IsSent(g[r + 1], r > b) => Due(r + 1) = Due(r) \cup {r + 1}
          /\ ~IsSent(g[r + 1], r > b) => Due(r + 1) = Due(r)
      BY <1>1, <1>3, <2>1, <2>2, NextDue
    <3>3. producer' = IF IsSent(g[r + 1], r > b) THEN [pc |-> "output", file |-> g, start |-> b]
                      ELSE [pc |-> "apply", file |-> g, start |-> b]
      BY <2>1, <2>2
    <3>4. InPass'
      <4>1. b <= r /\ r < Len(g) /\ Len(g) \in Nat
        BY <1>1, <2>1, <2>2, <3>1 DEF InPass
      <4> QED BY <1>1, <1>2, <2>1, <2>2, <2>3, <3>1, <4>1 DEF InPass
    <3>5. \A u \in Nat : Due(u)' = Due(u)
      BY <1>1, <1>2, <2>1, DueStays
    <3>6. TailPlace'
      <4>1. producer'.pc = "output" => r + 1 \in Due(r + 1)
        BY <3>2, <3>3
      <4>2. \A c \in cuts : c <= r + 1
        BY <1>5, <3>1
      <4>3. producer'.pc # "attach" /\ f <= r + 1
        BY <2>3, <3>1
      <4> QED BY <1>1, <1>2, <2>1, <3>2, <3>4, <3>5, <4>1, <4>2, <4>3 DEF TailPlace
    <3>7. TailTold'
      <4>1. Passed = r
        BY <1>1, <2>1 DEF Passed
      <4>2. PICK u \in Nat : u = Passed' /\ Due(u) = Due(r)
        BY <2>1, <3>2, <3>3 DEF Passed
      <4>3. Due(Passed)' = Due(Passed)
        BY <3>5, <4>1, <4>2 DEF Due
      <4>4. Outputs' = Outputs
        BY <1>5, <2>4, SilentStep
      <4> QED BY <1>3, <4>3, <4>4 DEF TailTold, Sorted
    <3> QED BY <3>6, <3>7
  <2>6. producer' \in Producers
    BY <2>3 DEF Producers
  <2>7. ProducerInv' /\ sent' \in Seq(Events)
    BY <1>5, <1>p, <2>3, <2>4, SilentStep
  <2> QED BY <1>1, <1>2, <1>5, <2>1, <2>5, <2>6, <2>7, ProducerMoves
<1>10. CASE TailEmits
  <2>1. producer.pc = "output" /\ producer' = [producer EXCEPT !.pc = "apply"] /\ UNCHANGED <<read, from, cuts>>
        /\ sent' = Append(sent, <<"output", read>>)
    BY <1>10 DEF TailEmits, Emit, tailing
  <2>2. PICK g \in Seq(Pieces), b \in Nat :
            producer = [pc |-> "output", file |-> g, start |-> b] /\ producer' = [pc |-> "apply", file |-> g, start |-> b]
    BY <2>1 DEF LifecycleInv, LifecycleTypeOK, Producers
  <2>3. sent' \in Seq(Events) /\ Outputs \in Seq(Nat) /\ Outputs' = Append(Outputs, r)
    BY <1>1, <2>1, OutputSent
  <2>4. TailInv'
    <3> SUFFICES ASSUME ~truncated PROVE (TailPlace /\ TailTold)'
      BY <1>2 DEF TailInv
    <3>1. TailPlace /\ TailTold /\ r \in Due(r)
      BY <1>1, <1>3, <2>1 DEF TailPlace
    <3>2. r >= 1 /\ Passed = r - 1 /\ Passed' = r
      BY <1>1, <2>1, <2>2, <3>1 DEF Due, Passed
    <3>3. Due(r) = Due(r - 1) \cup {r} /\ \A i \in Due(r - 1) : i < r
      <4>1. \A i : i \in f + 1 .. r <=> i \in f + 1 .. r - 1 \/ i = r
        BY <1>1, <3>1 DEF Due
      <4> QED BY <1>1, <3>1, <4>1 DEF Due
    <3>4. Due(r)' = Due(r)
      BY <1>1, <1>2, <2>1, DueStays
    <3>5. Range(Outputs') = Range(Outputs) \cup {r}
      BY <2>3, RangeOfAppend
    <3>6. Sorted(Outputs')
      <4>0. Append(Outputs, r) \in Seq(Nat) /\ Len(Outputs) \in Nat
        BY <2>3, AppendProperties
      <4>1. PICK w \in Seq(Nat), k \in Nat : w = Append(Outputs, r) /\ k = Len(Outputs)
        BY <4>0
      <4>2. Len(w) = k + 1 /\ w[k + 1] = r /\ \A i \in 1 .. k : w[i] = Outputs[i]
        BY <2>3, <4>1, AppendProperties
      <4>3. \A i \in 1 .. k : Outputs[i] < r
        <5>0. DOMAIN Outputs = 1 .. k
          BY <2>3, <4>1
        <5>1. \A i \in 1 .. k : Outputs[i] \in Range(Outputs)
          BY <5>0 DEF Range
        <5> QED BY <3>1, <3>2, <3>3, <5>1 DEF TailTold
      <4>4. Sorted(w)
        <5> SUFFICES ASSUME NEW i \in 1 .. k + 1, NEW j \in 1 .. k + 1, i < j PROVE w[i] < w[j]
          BY <4>1, <4>2 DEF Sorted
        <5>1. i \in 1 .. k
          OBVIOUS
        <5>2. CASE j = k + 1
          BY <4>2, <4>3, <5>1, <5>2
        <5>3. CASE j \in 1 .. k
          <6>1. DOMAIN Outputs = 1 .. k
            BY <2>3, <4>1
          <6>2. Outputs[i] < Outputs[j]
            BY <3>1, <5>1, <5>3, <6>1 DEF TailTold, Sorted
          <6> QED BY <4>2, <5>1, <5>3, <6>2
        <5> QED BY <5>2, <5>3
      <4> QED BY <2>3, <4>1, <4>4 DEF Sorted
    <3>7. TailTold'
      <4>1. Due(Passed)' = Due(r)
        BY <3>2, <3>4 DEF Due
      <4> QED BY <3>1, <3>2, <3>3, <3>5, <3>6, <4>1 DEF TailTold, Sorted
    <3>8. TailPlace'
      BY <1>1, <1>2, <2>1, <2>2, <3>1 DEF TailPlace, InPass
    <3> QED BY <3>7, <3>8
  <2>5. producer' \in Producers
    BY <2>2 DEF Producers
  <2>6. ProducerInv'
    BY <1>p, <2>2
  <2> QED BY <1>1, <1>2, <1>5, <2>1, <2>3, <2>4, <2>5, <2>6, ProducerMoves
<1>11. CASE TailStops
  <2>1. UNCHANGED <<sent, read, from, cuts>> /\ producer' = [pc |-> "ended", why |-> "shutdown"] /\ producer.pc = "select"
    BY <1>11 DEF TailStops, tailing
  <2>2. Silent
    BY <2>1 DEF Silent
  <2>3. TailInv'
    <3> SUFFICES ASSUME ~truncated PROVE (TailPlace /\ TailTold)'
      BY <1>2 DEF TailInv
    <3>1. Passed = r /\ Passed' = r
      BY <1>1, <2>1 DEF Passed
    <3>2. TailTold'
      BY <1>2, <1>3, <2>1, <2>2, <3>1, TailToldStays
    <3>3. TailPlace'
      BY <1>1, <1>2, <1>3, <2>1 DEF TailPlace
    <3> QED BY <3>2, <3>3
  <2>4. ProducerInv' /\ sent' \in Seq(Events)
    BY <1>2, <1>5, <2>1 DEF ProducerInv
  <2>5. producer' \in Producers
    BY <2>1 DEF Producers
  <2> QED BY <1>1, <1>2, <1>5, <2>1, <2>3, <2>4, <2>5, ProducerMoves
<1> QED BY <1>6, <1>7, <1>8, <1>9, <1>10, <1>11 DEF TailTask

-----------------------------------------------------------------------------
LEMMA NumberedMore ==
    ASSUME NEW m \in Messages, NEW n \in Nat
    PROVE  Numbered(m, n) \in Seq(Typings) /\ Append(Numbered(m, n), <<m, n + 1>>) = Numbered(m, n + 1)
<1>1. PICK v : v = Numbered(m, n)
  OBVIOUS
<1>2. v \in Seq(Typings) /\ Len(v) = n
  <2>1. v = [i \in 1 .. n |-> v[i]] /\ \A i \in 1 .. n : v[i] \in Typings
    BY <1>1 DEF Numbered, Typings
  <2> QED BY <2>1, MadeSeq
<1>3. PICK w \in Seq(Typings) : w = Append(v, <<m, n + 1>>)
  <2>1. <<m, n + 1>> \in Typings
    BY DEF Typings
  <2> QED BY <1>2, <2>1, AppendProperties
<1>4. Len(w) = n + 1 /\ w[n + 1] = <<m, n + 1>> /\ \A i \in 1 .. n : w[i] = v[i]
  <2>1. <<m, n + 1>> \in Typings
    BY DEF Typings
  <2> QED BY <1>2, <1>3, <2>1, AppendProperties
<1>5. w = [i \in 1 .. n + 1 |-> w[i]]
  BY <1>4
<1>6. \A i \in 1 .. n + 1 : w[i] = <<m, i>>
  <2>1. \A i \in 1 .. n + 1 : i \in 1 .. n \/ i = n + 1
    OBVIOUS
  <2>2. \A i \in 1 .. n : v[i] = <<m, i>>
    BY <1>1 DEF Numbered
  <2> QED BY <1>4, <2>1, <2>2
<1>7. w = Numbered(m, n + 1)
  BY <1>5, <1>6 DEF Numbered
<1> QED BY <1>1, <1>2, <1>3, <1>7

\* A message is typed on its own: what is in the terminal of another stays.
LEMMA OthersStay ==
    ASSUME LifecycleInv, NEW m \in Messages, NEW q \in Messages \ {m}, NEW w \in Typings, w[1] = m,
           typed' \in {typed, Append(typed, w)}, progress'[q] = progress[q]
    PROVE  TypedInv(q)'
<1>1. WritesOf(q, typed)' = WritesOf(q, typed)
  <2>1. WritesOf(q, Append(typed, w)) = WritesOf(q, typed)
    BY WritesGrow DEF LifecycleInv, LifecycleTypeOK
  <2> QED BY <2>1
<1> QED BY <1>1 DEF LifecycleInv, TypedInv

LEMMA SendKeeps == ASSUME NEW m \in Messages PROVE LifecycleInv /\ Send(m) => LifecycleInv'
<1> SUFFICES ASSUME LifecycleInv, Send(m) PROVE LifecycleInv'
  OBVIOUS
<1>1. UNCHANGED <<kind, sent, process, printed, read, from, cuts, truncated, producer, shutdown>>
  BY DEF Send, SendsText, SendsReturn, SendFails, Write, tailing
<1>2. PICK n \in Nat, a \in {"none", "ok", "error"} : progress[m] = [writes |-> n, answer |-> a]
  BY DEF LifecycleInv, LifecycleTypeOK
<1>3. a = "none" /\ WritesOf(m, typed) = Numbered(m, n)
  <2>1. a = "none"
    BY <1>2 DEF Send, SendsText, SendsReturn, SendFails
  <2>2. TypedInv(m)
    BY DEF LifecycleInv
  <2>3. progress[m].answer # "ok" /\ progress[m].writes = n
    BY <1>2, <2>1
  <2> QED BY <2>1, <2>2, <2>3 DEF TypedInv
<1>4. typed \in Seq(Typings) /\ <<m, n + 1>> \in Typings /\ <<m, "return">> \in Typings
  BY DEF LifecycleInv, LifecycleTypeOK, Typings
<1>5. \E w \in Typings : w[1] = m /\ typed' \in {typed, Append(typed, w)}
  <2>1. PICK w \in Typings : w = <<m, n + 1>> /\ w[1] = m
    BY <1>4
  <2>2. PICK x \in Typings : x = <<m, "return">> /\ x[1] = m
    BY <1>4
  <2>3. progress[m].writes + 1 = n + 1
    BY <1>2
  <2>4. typed' \in {typed, Append(typed, w), Append(typed, x)}
    BY <2>1, <2>2, <2>3 DEF Send, SendsText, SendsReturn, SendFails, Write
  <2> QED BY <2>1, <2>2, <2>4
<1>6. PICK k \in Nat, b \in {"none", "ok", "error"} :
          progress' = [progress EXCEPT ![m] = [writes |-> k, answer |-> b]]
  <2>1. [progress EXCEPT ![m].writes = @ + 1] = [progress EXCEPT ![m] = [writes |-> n + 1, answer |-> a]]
    <3>1. PICK j \in Nat : j = n + 1 /\ j = progress[m].writes + 1
      BY <1>2
    <3>2. [[writes |-> n, answer |-> a] EXCEPT !.writes = j] = [writes |-> j, answer |-> a]
      OBVIOUS
    <3>3. [progress EXCEPT ![m].writes = j] = [progress EXCEPT ![m] = [writes |-> j, answer |-> a]]
      BY <1>2, <3>2
    <3> QED BY <3>1, <3>3
  <2>2. \A b \in {"ok", "error"} :
           [progress EXCEPT ![m].answer = b] = [progress EXCEPT ![m] = [writes |-> n, answer |-> b]]
    <3>1. \A b \in {"ok", "error"} :
             [[writes |-> n, answer |-> a] EXCEPT !.answer = b] = [writes |-> n, answer |-> b]
      OBVIOUS
    <3> QED BY <1>2, <3>1
  <2>3. CASE SendsText(m)
    <3>1. n + 1 \in Nat
      OBVIOUS
    <3> QED BY <2>1, <2>3, <3>1 DEF SendsText
  <2>4. CASE SendsReturn(m)
    <3>1. progress' = [progress EXCEPT ![m] = [writes |-> n, answer |-> "ok"]]
      BY <2>2, <2>4 DEF SendsReturn
    <3> QED BY <3>1
  <2>5. CASE SendFails(m)
    <3>1. progress' = [progress EXCEPT ![m] = [writes |-> n, answer |-> "error"]]
      BY <2>2, <2>5 DEF SendFails
    <3> QED BY <3>1
  <2> QED BY <2>3, <2>4, <2>5 DEF Send
<1>7. /\ progress' \in [Messages -> [writes : Nat, answer : {"none", "ok", "error"}]]
      /\ progress'[m] = [writes |-> k, answer |-> b]
      /\ \A q \in Messages \ {m} : progress'[q] = progress[q]
  BY <1>6 DEF LifecycleInv, LifecycleTypeOK
<1>8. typed' \in Seq(Typings)
  BY <1>4, <1>5, AppendProperties
<1>9. LifecycleTypeOK'
  BY <1>1, <1>7, <1>8 DEF LifecycleInv, LifecycleTypeOK
<1>10. ProducerInv' /\ TailInv'
  <2>1. Outputs' = Outputs /\ Passed' = Passed /\ InHand' = InHand /\ Told' = Told
    BY <1>1 DEF Outputs, Passed, InHand, Told
  <2>2. Due(Passed)' = Due(Passed) /\ Due(read)' = Due(read) /\ Numerals(Told)' = Numerals(Told)
    BY <1>1, <2>1 DEF Due, Numerals
  <2>3. TailPlace => TailPlace'
    BY <1>1, <2>2 DEF TailPlace, InPass
  <2>4. TailTold => TailTold'
    BY <2>1, <2>2 DEF TailTold, Sorted
  <2> QED BY <1>1, <2>1, <2>2, <2>3, <2>4 DEF LifecycleInv, ProducerInv, TailInv
<1>11. \A q \in Messages \ {m} : TypedInv(q)'
  BY <1>5, <1>7, OthersStay
<1>12. TypedInv(m)'
  <2>1. CASE SendsText(m)
    <3>1. typed' = Append(typed, <<m, n + 1>>) /\ progress'[m].writes = n + 1 /\ progress'[m].answer = "none"
      BY <1>2, <1>3, <2>1 DEF SendsText, Write, LifecycleInv, LifecycleTypeOK
    <3>2. WritesOf(m, Append(typed, <<m, n + 1>>)) = Append(WritesOf(m, typed), <<m, n + 1>>)
      <4>1. PICK w \in Typings : w = <<m, n + 1>> /\ w[1] = m
        BY <1>4
      <4> QED BY <1>4, <4>1, WritesGrow
    <3>3. WritesOf(m, typed)' = Numbered(m, n + 1)
      BY <1>3, <3>1, <3>2, NumberedMore
    <3> QED BY <3>1, <3>3 DEF TypedInv
  <2>2. CASE SendsReturn(m)
    <3>1. typed' = Append(typed, <<m, "return">>) /\ progress'[m].answer = "ok" /\ n = Writes[m]
      BY <1>2, <2>2 DEF SendsReturn, Write, LifecycleInv, LifecycleTypeOK
    <3>2. WritesOf(m, Append(typed, <<m, "return">>)) = Append(WritesOf(m, typed), <<m, "return">>)
      <4>1. PICK w \in Typings : w = <<m, "return">> /\ w[1] = m
        BY <1>4
      <4> QED BY <1>4, <4>1, WritesGrow
    <3>3. Append(Numbered(m, n), <<m, "return">>) = Numbered(m, n) \o << <<m, "return">> >>
      BY <1>4, NumberedMore, AppendIsConcat
    <3> QED BY <1>3, <3>1, <3>2, <3>3 DEF TypedInv
  <2>3. CASE SendFails(m)
    <3>1. typed' = typed /\ progress'[m].writes = n /\ progress'[m].answer = "error"
      BY <1>2, <2>3 DEF SendFails, LifecycleInv, LifecycleTypeOK
    <3> QED BY <1>3, <3>1 DEF TypedInv
  <2> QED BY <2>1, <2>2, <2>3 DEF Send
<1> QED BY <1>9, <1>10, <1>11, <1>12 DEF LifecycleInv

LEMMA NextLifecycleInv == LifecycleInv /\ [LifecycleNext]_lifecycleVars => LifecycleInv'
<1> SUFFICES ASSUME LifecycleInv, [LifecycleNext]_lifecycleVars PROVE LifecycleInv'
  OBVIOUS
<1>1. CASE Prints \/ Exits \/ Detector \/ Close \/ UNCHANGED lifecycleVars
  BY <1>1, AsideSteps, AsideKeeps
<1>2. CASE Reader
  BY <1>2, ReaderKeeps
<1>5. CASE Truncates
  BY <1>5, TruncatesKeeps
<1>3. CASE TailTask
  BY <1>3, TailKeeps
<1>4. CASE \E m \in Messages : Send(m)
  BY <1>4, SendKeeps
<1> QED BY <1>1, <1>2, <1>3, <1>4, <1>5 DEF LifecycleNext

\* What passes between a CLI and the server's users arrives whole, whatever the number
\* of messages and their writes, the length of the output and the depth of the channel.
THEOREM ArrivesWhole == LifecycleSpec => []NothingIsCutShort
<1> USE InitLifecycleInv, NextLifecycleInv, InvIsWhole
<1> QED BY PTL DEF LifecycleSpec

-----------------------------------------------------------------------------
(***************************************************************************)
(* SessionStore.  StoreInv says of everything on its way to the list (the  *)
(* events of the connection and of the server's buffer, the rows of each   *)
(* fetch and of an older page) that the log has it, and relates the list,  *)
(* the uuids and the copies that wait for their echo: CountInv is the      *)
(* ledger behind NoMoreThanSent.                                           *)
(***************************************************************************)

Pos == Nat \ {0}
Real == Sessions \X Pos
Copies == {"opt"} \X Real
Uuids == Real \cup Copies
Phases == {"net", "body", "timer"}
Fetch == [s : Sessions, phase : Phases, rows : Seq(Real), total : Nat, more : BOOLEAN,
          aborted : BOOLEAN]
OlderPage == [s : Sessions, offset : Nat, phase : Phases, rows : Seq(Real), more : BOOLEAN]

StoreTypeOK ==
    /\ log \in [Sessions -> Seq({"user", "assistant"})]
    /\ file \in [Sessions -> Seq({"user", "assistant"})]
    /\ cache \in [Sessions -> Seq(Pos)] /\ remade \in SUBSET Sessions
    /\ asked \in [Sessions -> Nat] /\ sends \in [Sessions -> Nat]
    /\ others \in [Sessions -> Nat]
    /\ recent \in Seq(Real) /\ wire \in Seq(Real)
    /\ active \in Sessions \cup {Null}
    /\ shown \in Seq(Uuids) /\ seen \in SUBSET Uuids /\ optimistic \in Seq(Copies)
    /\ fetches \in Seq(Fetch) /\ (older # Null => older \in OlderPage)
    /\ total \in Nat /\ paged \in Sessions \cup {Null}
    /\ raced \in BOOLEAN /\ ahead \in BOOLEAN /\ stray \in BOOLEAN

\* Whatever the browser has of a message is in the log, and a copy is of a message sent.
Logged(u) == u[2] <= Len(log[u[1]])
Once(list, except) ==
    \A i, j \in DOMAIN list : list[i] = list[j] /\ list[i][1] \notin except => i = j
PageOf(batch, s, n, except) ==
    /\ \A i \in DOMAIN batch : batch[i][1] = s /\ batch[i][2] <= n
    /\ s \notin except => IsInjective(batch)
UsersIn(batch, s) == {u \in {s} \X (1 .. Len(batch)) : batch[u[2]] = "user"}
Users(s) == UsersIn(log[s], s)

SeenKnown == \A u \in seen : IF u[1] = "opt" THEN u[2][2] <= sends[u[2][1]] ELSE Logged(u)
EventsKnown ==
    /\ \A i \in DOMAIN wire : Logged(wire[i])
    /\ \A i \in DOMAIN recent : Logged(recent[i])
\* The cache is the log while no line of the session has two rows or two uuids.
LinesKnown ==
    \A s \in Sessions :
        /\ \A i \in DOMAIN cache[s] : cache[s][i] <= Len(log[s])
        /\ s \notin remade => cache[s] = [i \in 1 .. Len(log[s]) |-> i]
        /\ s \in Claude => log[s] = file[s]
PagesKnown ==
    /\ \A i \in DOMAIN fetches :
          /\ PageOf(fetches[i].rows, fetches[i].s, Len(log[fetches[i].s]), remade)
          /\ fetches[i].s \notin remade => fetches[i].total <= Len(log[fetches[i].s])
    /\ older # Null => PageOf(older.rows, older.s, Len(log[older.s]), remade)
    /\ paged # Null /\ paged \notin remade => total <= Len(log[paged])
Most(s) == sends[s] + others[s]
SendsKnown ==
    \A s \in Sessions : s \notin remade => Cardinality(Users(s)) + asked[s] <= Most(s)

ListInv == Once(shown, remade) /\ Range(shown) \subseteq seen

StrayInv ==
    ~stray => /\ \A u \in Range(shown) : u[1] \in {active, "opt"}
              /\ older # Null => older.s = active

\* A fetch that may still replace the list: there is one at most, and nothing of the
\* log is known yet.
Live(f, s) == f.s = s /\ (~f.aborted \/ f.phase = "timer")
FetchInv ==
    ~raced =>
        /\ \A i, j \in DOMAIN fetches :
              Live(fetches[i], active) /\ Live(fetches[j], active) => i = j
        /\ \A i \in DOMAIN fetches : Live(fetches[i], active) => \A u \in seen : u[1] = "opt"
        /\ ~stray /\ older # Null /\ active \notin remade => older.offset <= Len(log[active])

\* The copies shown, with the user messages that are shown or that a page up to n may
\* still bring, are no more than were sent: each copy whose echo came stands for a
\* message that is known and not shown.
Opts(show) == {u \in show : u[1] = "opt"}
Hidden(users, show, known) == {u \in users : u \in known /\ u \notin show}
Counted(users, show, known, n) == {u \in users : u \in show \/ (u[2] <= n /\ u \notin known)}
Counts(users, show, known, waiting, caps, most) ==
    /\ \A n \in caps : Cardinality(Opts(show) \cup Counted(users, show, known, n)) <= most
    /\ Cardinality(Opts(show) \ waiting) <= Cardinality(Hidden(users, show, known))
Caps ==
    {n \in Nat : \/ n = 0
                 \/ /\ older # Null
                    /\ n = older.offset
                 \/ /\ paged = active
                    /\ n = total}
CountInv ==
    active # Null /\ active \notin remade /\ ~raced /\ ~ahead /\ ~stray =>
        Counts(Users(active), Range(shown), seen, Range(optimistic), Caps, Most(active))

StoreInv ==
    /\ StoreTypeOK /\ LinesKnown
    /\ SeenKnown /\ EventsKnown /\ PagesKnown /\ SendsKnown
    /\ ListInv /\ StrayInv /\ FetchInv /\ NothingHidden /\ CountInv

-----------------------------------------------------------------------------
(* Counting what is shown. *)

LEMMA UsersFinite == ASSUME NEW S, NEW batch \in Seq(S), NEW s PROVE IsFiniteSet(UsersIn(batch, s))
<1>1. IsFiniteSet(1 .. Len(batch)) /\ IsFiniteSet({s})
  <2>1. 1 \in Int /\ Len(batch) \in Int
    OBVIOUS
  <2> QED BY <2>1, FS_Interval, FS_Singleton
<1>2. IsFiniteSet({s} \X (1 .. Len(batch)))
  BY <1>1, FS_Product
<1>3. UsersIn(batch, s) \in SUBSET ({s} \X (1 .. Len(batch)))
  BY DEF UsersIn
<1> QED BY <1>2, <1>3, FS_Subset

LEMMA UsersGrow ==
    ASSUME NEW S, NEW batch \in Seq(S), NEW x \in S, NEW s, NEW n \in Nat, n = Len(batch)
    PROVE  /\ x # "user" => UsersIn(Append(batch, x), s) = UsersIn(batch, s)
           /\ x = "user" => UsersIn(Append(batch, x), s) = UsersIn(batch, s) \cup {<<s, n + 1>>}
<1>1. PICK t \in Seq(S) : t = Append(batch, x)
  BY AppendProperties
<1>2. Len(t) = n + 1 /\ t[n + 1] = x /\ \A i \in 1 .. n : t[i] = batch[i]
  BY <1>1, AppendProperties
<1>3. \A i \in 1 .. n + 1 : i \in 1 .. n \/ i = n + 1
  OBVIOUS
<1>4. \A i \in 1 .. n : i \in 1 .. n + 1 /\ i # n + 1
  OBVIOUS
<1>5. n + 1 \in 1 .. n + 1
  OBVIOUS
<1>6. \A u : u \in UsersIn(t, s) <=>
              \E i \in 1 .. n + 1 : u = <<s, i>> /\ t[i] = "user"
  <2>1. \A u : u \in {s} \X (1 .. n + 1) <=> \E i \in 1 .. n + 1 : u = <<s, i>>
    OBVIOUS
  <2> QED BY <1>2, <2>1 DEF UsersIn
<1>7. \A u : u \in UsersIn(batch, s) <=>
              \E i \in 1 .. n : u = <<s, i>> /\ batch[i] = "user"
  <2>1. \A u : u \in {s} \X (1 .. n) <=> \E i \in 1 .. n : u = <<s, i>>
    OBVIOUS
  <2> QED BY <2>1 DEF UsersIn
<1>8. CASE x # "user"
  <2>1. \A u : u \in UsersIn(t, s) <=> u \in UsersIn(batch, s)
    BY <1>2, <1>3, <1>4, <1>6, <1>7, <1>8
  <2>2. UsersIn(t, s) = UsersIn(batch, s)
    BY <2>1
  <2> QED BY <1>1, <1>8, <2>2
<1>9. CASE x = "user"
  <2>1. \A u : u \in UsersIn(t, s) <=> u \in UsersIn(batch, s) \cup {<<s, n + 1>>}
    BY <1>2, <1>3, <1>4, <1>5, <1>6, <1>7, <1>9
  <2>2. UsersIn(t, s) = UsersIn(batch, s) \cup {<<s, n + 1>>}
    BY <2>1
  <2> QED BY <1>1, <1>9, <2>2
<1> QED BY <1>8, <1>9

Bounded(users, show) == IsFiniteSet(users) /\ IsFiniteSet(show)

LEMMA CountsFinite ==
    ASSUME NEW users, NEW show, NEW known, NEW waiting, Bounded(users, show)
    PROVE  /\ IsFiniteSet(Opts(show)) /\ IsFiniteSet(Opts(show) \ waiting)
           /\ IsFiniteSet(Hidden(users, show, known))
           /\ \A n : /\ IsFiniteSet(Counted(users, show, known, n))
                     /\ IsFiniteSet(Opts(show) \cup Counted(users, show, known, n))
<1>1. IsFiniteSet(Opts(show))
  <2>1. Opts(show) \in SUBSET show
    BY DEF Opts
  <2> QED BY <2>1, FS_Subset DEF Bounded
<1>2. IsFiniteSet(Opts(show) \ waiting)
  BY <1>1, FS_Difference
<1>3. IsFiniteSet(Hidden(users, show, known))
  <2>1. Hidden(users, show, known) \in SUBSET users
    BY DEF Hidden
  <2> QED BY <2>1, FS_Subset DEF Bounded
<1>4. ASSUME NEW n PROVE IsFiniteSet(Counted(users, show, known, n))
  <2>1. Counted(users, show, known, n) \in SUBSET users
    BY DEF Counted
  <2> QED BY <2>1, FS_Subset DEF Bounded
<1>5. ASSUME NEW n PROVE IsFiniteSet(Opts(show) \cup Counted(users, show, known, n))
  BY <1>1, <1>4, FS_Union
<1> QED BY <1>1, <1>2, <1>3, <1>4, <1>5

LEMMA FewerOf ==
    ASSUME NEW S, NEW T, IsFiniteSet(S), T \subseteq S
    PROVE  Cardinality(T) <= Cardinality(S) /\ Cardinality(T) \in Nat /\ Cardinality(S) \in Nat
<1>1. T \in SUBSET S
  OBVIOUS
<1>2. IsFiniteSet(T) /\ Cardinality(T) <= Cardinality(S)
  BY <1>1, FS_Subset
<1> QED BY <1>2, FS_CardinalityType

\* The counts stand when nothing more is shown or may come, and nothing less is hidden.
LEMMA StillCounts ==
    ASSUME NEW users, NEW show, NEW known, NEW waiting, NEW caps, NEW most \in Nat,
           NEW users2, NEW show2, NEW known2, NEW waiting2, NEW caps2, NEW most2 \in Nat,
           Bounded(users, show), Bounded(users2, show2),
           Counts(users, show, known, waiting, caps, most), most <= most2,
           Opts(show2) = Opts(show), Opts(show2) \ waiting2 \subseteq Opts(show) \ waiting,
           \A n \in caps2 : \E k \in caps :
               Counted(users2, show2, known2, n) \subseteq Counted(users, show, known, k),
           Hidden(users, show, known) \subseteq Hidden(users2, show2, known2)
    PROVE  Counts(users2, show2, known2, waiting2, caps2, most2)
<1>1. ASSUME NEW n \in caps2
      PROVE  Cardinality(Opts(show2) \cup Counted(users2, show2, known2, n)) <= most2
  <2>1. PICK k \in caps : Counted(users2, show2, known2, n) \subseteq Counted(users, show, known, k)
    OBVIOUS
  <2> DEFINE A == Opts(show2) \cup Counted(users2, show2, known2, n)
             B == Opts(show) \cup Counted(users, show, known, k)
  <2>2. IsFiniteSet(B)
    BY CountsFinite
  <2>3. A \subseteq B
    BY <2>1
  <2>4. Cardinality(B) <= most
    BY DEF Counts
  <2> HIDE DEF A, B
  <2>5. Cardinality(A) <= Cardinality(B) /\ Cardinality(A) \in Nat /\ Cardinality(B) \in Nat
    BY <2>2, <2>3, FewerOf
  <2>6. Cardinality(A) <= most2
    BY <2>4, <2>5
  <2> QED BY <2>6 DEF A
<1>2. Cardinality(Opts(show2) \ waiting2) <= Cardinality(Hidden(users2, show2, known2))
  <2>1. IsFiniteSet(Opts(show) \ waiting) /\ IsFiniteSet(Hidden(users2, show2, known2))
    BY CountsFinite
  <2>2. /\ Cardinality(Opts(show2) \ waiting2) <= Cardinality(Opts(show) \ waiting)
        /\ Cardinality(Opts(show2) \ waiting2) \in Nat /\ Cardinality(Opts(show) \ waiting) \in Nat
    BY <2>1, FewerOf
  <2>3. /\ Cardinality(Hidden(users, show, known)) <= Cardinality(Hidden(users2, show2, known2))
        /\ Cardinality(Hidden(users, show, known)) \in Nat
        /\ Cardinality(Hidden(users2, show2, known2)) \in Nat
    BY <2>1, FewerOf
  <2>4. Cardinality(Opts(show) \ waiting) <= Cardinality(Hidden(users, show, known))
    BY DEF Counts
  <2> QED BY <2>2, <2>3, <2>4
<1> QED BY <1>1, <1>2 DEF Counts

\* A list without copies.
LEMMA FreshCounts ==
    ASSUME NEW users, NEW show, NEW known, NEW waiting, NEW caps, NEW most \in Nat,
           Bounded(users, show), Opts(show) = {}, Cardinality(users) <= most
    PROVE  Counts(users, show, known, waiting, caps, most)
<1>1. ASSUME NEW n \in caps
      PROVE  Cardinality(Opts(show) \cup Counted(users, show, known, n)) <= most
  <2>1. PICK A : A = Opts(show) \cup Counted(users, show, known, n)
    OBVIOUS
  <2>2. A \subseteq users
    BY <2>1 DEF Counted
  <2>3. Cardinality(A) <= Cardinality(users) /\ Cardinality(A) \in Nat /\ Cardinality(users) \in Nat
    BY <2>2, FewerOf DEF Bounded
  <2>4. Cardinality(A) <= most
    BY <2>3
  <2> QED BY <2>1, <2>4
<1>2. Cardinality(Opts(show) \ waiting) <= Cardinality(Hidden(users, show, known))
  <2>1. Opts(show) \ waiting = {}
    OBVIOUS
  <2>2. Cardinality(Hidden(users, show, known)) \in Nat
    BY CountsFinite, FS_CardinalityType
  <2> QED BY <2>1, <2>2, FS_EmptySet
<1> QED BY <1>1, <1>2 DEF Counts

\* The user sends one more.
LEMMA OneMoreCopy ==
    ASSUME NEW users, NEW show, NEW known, NEW waiting, NEW caps, NEW most \in Nat, NEW c,
           Bounded(users, show), Counts(users, show, known, waiting, caps, most),
           c[1] = "opt", c \notin users
    PROVE  Counts(users, show \cup {c}, known \cup {c}, waiting \cup {c}, caps, most + 1)
<1>1. Opts(show \cup {c}) = Opts(show) \cup {c}
  BY DEF Opts
<1>2. \A n : Counted(users, show \cup {c}, known \cup {c}, n) = Counted(users, show, known, n)
  BY DEF Counted
<1>3. Hidden(users, show \cup {c}, known \cup {c}) = Hidden(users, show, known)
  BY DEF Hidden
<1>4. ASSUME NEW n \in caps
      PROVE  Cardinality(Opts(show \cup {c}) \cup Counted(users, show \cup {c}, known \cup {c}, n))
                 <= most + 1
  <2>1. PICK A : A = Opts(show) \cup Counted(users, show, known, n)
    OBVIOUS
  <2>2. Opts(show \cup {c}) \cup Counted(users, show \cup {c}, known \cup {c}, n) = A \cup {c}
    BY <1>1, <1>2, <2>1
  <2>3. IsFiniteSet(A) /\ Cardinality(A) <= most
    BY <2>1, CountsFinite DEF Counts
  <2>4. Cardinality(A) \in Nat
    BY <2>3, FS_CardinalityType
  <2>5. Cardinality(A \cup {c}) = IF c \in A THEN Cardinality(A) ELSE Cardinality(A) + 1
    BY <2>3, FS_AddElement
  <2>6. Cardinality(A \cup {c}) <= most + 1
    BY <2>3, <2>4, <2>5
  <2> QED BY <2>2, <2>6
<1>5. Cardinality(Opts(show \cup {c}) \ (waiting \cup {c}))
          <= Cardinality(Hidden(users, show \cup {c}, known \cup {c}))
  <2>1. Opts(show \cup {c}) \ (waiting \cup {c}) \subseteq Opts(show) \ waiting
    BY <1>1
  <2>2. IsFiniteSet(Opts(show) \ waiting) /\ IsFiniteSet(Hidden(users, show, known))
    BY CountsFinite
  <2>3. PICK A, B : A = Opts(show \cup {c}) \ (waiting \cup {c}) /\ B = Opts(show) \ waiting
    OBVIOUS
  <2>4. Cardinality(A) <= Cardinality(B) /\ Cardinality(A) \in Nat /\ Cardinality(B) \in Nat
    BY <2>1, <2>2, <2>3, FewerOf
  <2>5. Cardinality(Hidden(users, show, known)) \in Nat
    BY <2>2, FS_CardinalityType
  <2>6. Cardinality(B) <= Cardinality(Hidden(users, show, known))
    BY <2>3 DEF Counts
  <2> QED BY <1>3, <2>3, <2>4, <2>5, <2>6
<1> QED BY <1>4, <1>5 DEF Counts

\* The echo of a copy comes, and the oldest copy waits no longer.
LEMMA EchoTaken ==
    ASSUME NEW users, NEW show, NEW known, NEW waiting, NEW waiting2, NEW c,
           NEW caps, NEW most \in Nat, NEW u,
           Bounded(users, show), Counts(users, show, known, waiting, caps, most),
           u \in users, u \notin known, show \subseteq known, waiting \subseteq waiting2 \cup {c}
    PROVE  Counts(users, show, known \cup {u}, waiting2, caps, most)
<1>1. ASSUME NEW n \in caps
      PROVE  Cardinality(Opts(show) \cup Counted(users, show, known \cup {u}, n)) <= most
  <2>1. PICK A, B : /\ A = Opts(show) \cup Counted(users, show, known \cup {u}, n)
                    /\ B = Opts(show) \cup Counted(users, show, known, n)
    OBVIOUS
  <2>2. A \subseteq B
    BY <2>1 DEF Counted
  <2>3. IsFiniteSet(B) /\ Cardinality(B) <= most
    BY <2>1, CountsFinite DEF Counts
  <2>4. Cardinality(A) <= Cardinality(B) /\ Cardinality(A) \in Nat /\ Cardinality(B) \in Nat
    BY <2>2, <2>3, FewerOf
  <2>5. Cardinality(A) <= most
    BY <2>3, <2>4
  <2> QED BY <2>1, <2>5
<1>2. Cardinality(Opts(show) \ waiting2) <= Cardinality(Hidden(users, show, known \cup {u}))
  <2>1. PICK A, B, C : /\ A = Opts(show) \ waiting2 /\ B = Opts(show) \ waiting
                       /\ C = Hidden(users, show, known)
    OBVIOUS
  <2>2. IsFiniteSet(B) /\ IsFiniteSet(C) /\ Cardinality(B) <= Cardinality(C)
    BY <2>1, CountsFinite DEF Counts
  <2>3. A \subseteq B \cup {c}
    BY <2>1
  <2>4. IsFiniteSet(B \cup {c})
        /\ Cardinality(B \cup {c}) = IF c \in B THEN Cardinality(B) ELSE Cardinality(B) + 1
    BY <2>2, FS_AddElement
  <2>5. Cardinality(A) <= Cardinality(B \cup {c}) /\ Cardinality(A) \in Nat
    BY <2>3, <2>4, FewerOf
  <2>6. Hidden(users, show, known \cup {u}) = C \cup {u} /\ u \notin C
    BY <2>1 DEF Hidden
  <2>7. Cardinality(C \cup {u}) = Cardinality(C) + 1
    BY <2>2, <2>6, FS_AddElement
  <2>8. Cardinality(B) \in Nat /\ Cardinality(C) \in Nat
    BY <2>2, FS_CardinalityType
  <2>9. Cardinality(A) <= Cardinality(C) + 1
    BY <2>2, <2>4, <2>5, <2>8
  <2> QED BY <2>1, <2>6, <2>7, <2>9
<1> QED BY <1>1, <1>2 DEF Counts

\* A user message is shown because no copy waits: each copy shown stands for a message
\* that is hidden.
LEMMA EchoShown ==
    ASSUME NEW users, NEW show, NEW known, NEW caps, NEW most \in Nat, NEW u,
           Bounded(users, show), Counts(users, show, known, {}, caps, most),
           u \in users, u \notin known, u[1] # "opt", show \subseteq known,
           Cardinality(users) <= most
    PROVE  Counts(users, show \cup {u}, known \cup {u}, {}, caps, most)
<1>1. Opts(show \cup {u}) = Opts(show)
  BY DEF Opts
<1>2. Hidden(users, show \cup {u}, known \cup {u}) = Hidden(users, show, known)
  BY DEF Hidden
<1>3. ASSUME NEW n \in caps
      PROVE  Cardinality(Opts(show \cup {u}) \cup Counted(users, show \cup {u}, known \cup {u}, n))
                 <= most
  <2>1. PICK A, B, C : /\ A = Opts(show) /\ C = Hidden(users, show, known)
                       /\ B = Counted(users, show \cup {u}, known \cup {u}, n)
    OBVIOUS
  <2>2. IsFiniteSet(A) /\ IsFiniteSet(C)
    BY <2>1, CountsFinite
  <2>3. B \subseteq users /\ C \subseteq users /\ B \cap C = {}
    BY <2>1 DEF Counted, Hidden
  <2>4. IsFiniteSet(B)
    <3>1. B \in SUBSET users
      BY <2>3
    <3> QED BY <3>1, FS_Subset DEF Bounded
  <2>5. Cardinality(A) <= Cardinality(C)
    <3>1. Opts(show) \ {} = A
      BY <2>1
    <3> QED BY <2>1, <3>1 DEF Counts
  <2>6. Cardinality(A \cup B) = Cardinality(A) + Cardinality(B) - Cardinality(A \cap B)
    BY <2>2, <2>4, FS_Union
  <2>7. Cardinality(B \cup C) = Cardinality(B) + Cardinality(C) - Cardinality(B \cap C)
    BY <2>2, <2>4, FS_Union
  <2>8. Cardinality(B \cap C) = 0
    BY <2>3, FS_EmptySet
  <2>9. Cardinality(B \cup C) <= Cardinality(users) /\ Cardinality(users) \in Nat
    BY <2>3, FewerOf DEF Bounded
  <2>10. /\ Cardinality(A) \in Nat /\ Cardinality(B) \in Nat /\ Cardinality(C) \in Nat
         /\ Cardinality(A \cap B) \in Nat
    <3>1. IsFiniteSet(A \cap B)
      BY <2>2, FS_Intersection
    <3> QED BY <2>2, <2>4, <3>1, FS_CardinalityType
  <2>11. Cardinality(A \cup B) <= most
    BY <2>5, <2>6, <2>7, <2>8, <2>9, <2>10
  <2> QED BY <1>1, <2>1, <2>11
<1>4. Cardinality(Opts(show \cup {u}) \ {}) <= Cardinality(Hidden(users, show \cup {u}, known \cup {u}))
  BY <1>1, <1>2 DEF Counts
<1> QED BY <1>3, <1>4 DEF Counts

-----------------------------------------------------------------------------
(* What the actions are made of. *)

LEMMA UuidIs ==
    /\ \A u \in Copies : u[1] = "opt" /\ u[2] \in Real
    /\ \A u \in Real : u[1] \in Sessions /\ u[1] # "opt" /\ u[2] \in Pos /\ u = <<u[1], u[2]>>
    /\ \A u \in Uuids : (u[1] = "opt" <=> u \in Copies) /\ (u[1] # "opt" <=> u \in Real)
<1>1. \A u \in Copies : u[1] = "opt" /\ u[2] \in Real
  BY DEF Copies
<1>2. \A u \in Real : u[1] \in Sessions /\ u[2] \in Pos /\ u = <<u[1], u[2]>>
  BY DEF Real
<1>3. \A u \in Real : u[1] # "opt"
  BY <1>2, StoreAssumption
<1> QED BY <1>1, <1>2, <1>3 DEF Uuids

\* The server's pages are parts of the cache.
LEMMA PageIsKnown ==
    ASSUME StoreTypeOK, LinesKnown, NEW s \in Sessions, NEW offset \in Nat
    PROVE  /\ RowsBefore(s, offset).rows \in Seq(Real) /\ RowsBefore(s, offset).more \in BOOLEAN
           /\ PageOf(RowsBefore(s, offset).rows, s, Len(log[s]), remade)
<1>1. PICK n \in Nat, stored \in Seq(Pos) : stored = cache[s] /\ n = Len(stored)
  BY DEF StoreTypeOK
<1>2. PICK end \in Nat : /\ end = IF offset > n THEN 0 ELSE n - offset
                         /\ end <= n
  <2>1. CASE offset > n
    BY <2>1
  <2>2. CASE ~(offset > n)
    <3>1. n - offset \in Nat /\ n - offset <= n
      BY <2>2
    <3> QED BY <2>2, <3>1
  <2> QED BY <2>1, <2>2
<1>3. PICK start \in Nat : start = (IF Limit > end THEN 0 ELSE end - Limit) /\ start <= end
  <2>1. PICK limit \in Nat : limit = Limit
    BY StoreAssumption
  <2>2. CASE limit > end
    BY <2>1, <2>2
  <2>3. CASE ~(limit > end)
    <3>1. end - limit \in Nat /\ end - limit <= end
      BY <2>3
    <3> QED BY <2>1, <2>3, <3>1
  <2> QED BY <2>2, <2>3
<1>4. PICK batch : batch = [i \in 1 .. (end - start) |-> <<s, stored[start + i]>>]
  OBVIOUS
<1>5. RowsBefore(s, offset) = [rows |-> batch, more |-> start > 0]
  BY <1>1, <1>2, <1>3, <1>4 DEF RowsBefore
<1>6. \A i \in 1 .. (end - start) : batch[i] = <<s, stored[start + i]>>
  BY <1>4
<1>0. \A i \in 1 .. (end - start) : /\ start + i \in 1 .. n
                                    /\ stored[start + i] \in Pos /\ stored[start + i] <= Len(log[s])
  <2>1. \A i \in 1 .. (end - start) : start + i \in 1 .. n
    BY <1>2, <1>3
  <2>2. DOMAIN stored = 1 .. n /\ \A k \in 1 .. n : stored[k] \in Pos
    BY <1>1
  <2>3. \A k \in DOMAIN stored : stored[k] <= Len(log[s])
    BY <1>1 DEF LinesKnown
  <2> QED BY <2>1, <2>2, <2>3
<1>7. batch \in Seq(Real)
  <2>1. end - start \in Nat
    BY <1>3
  <2>2. ASSUME NEW i \in 1 .. (end - start) PROVE batch[i] \in Real
    <3>1. PICK k \in Pos : k = stored[start + i]
      BY <1>0
    <3>2. batch[i] = <<s, k>>
      BY <1>6, <3>1
    <3> QED BY <3>2 DEF Real
  <2>3. batch = [i \in 1 .. (end - start) |-> batch[i]]
    BY <1>4
  <2> QED BY <2>1, <2>2, <2>3, MadeSeq
<1>8. DOMAIN batch = 1 .. (end - start)
  BY <1>4
<1>9. ASSUME s \notin remade PROVE IsInjective(batch)
  <2>0. \A k \in 1 .. n : stored[k] = k
    <3>1. PICK m : m = Len(log[s])
      OBVIOUS
    <3>2. stored = [i \in 1 .. m |-> i]
      BY <1>1, <1>9, <3>1 DEF LinesKnown
    <3>3. DOMAIN stored = 1 .. n
      BY <1>1
    <3> QED BY <3>2, <3>3
  <2>1. ASSUME NEW i \in 1 .. (end - start), NEW j \in 1 .. (end - start), batch[i] = batch[j]
        PROVE  i = j
    <3>0. start + i \in 1 .. n /\ start + j \in 1 .. n
      BY <1>0
    <3>1. batch[i][2] = start + i /\ batch[j][2] = start + j
      <4>1. stored[start + i] = start + i /\ stored[start + j] = start + j
        BY <2>0, <3>0
      <4>2. batch[i] = <<s, stored[start + i]>> /\ batch[j] = <<s, stored[start + j]>>
        BY <1>6
      <4> QED BY <4>1, <4>2
    <3>2. start + i = start + j
      BY <2>1, <3>1
    <3> QED BY <3>2
  <2> QED BY <1>8, <2>1 DEF IsInjective
<1>10. ASSUME NEW i \in 1 .. (end - start) PROVE batch[i][1] = s /\ batch[i][2] <= Len(log[s])
  BY <1>0, <1>6
<1> QED BY <1>5, <1>7, <1>8, <1>9, <1>10 DEF PageOf

LEMMA PageInLongerLog ==
    ASSUME NEW batch \in Seq(Real), NEW s, NEW m \in Nat, NEW n \in Nat, m <= n,
           NEW except, NEW except2, except \subseteq except2, PageOf(batch, s, m, except)
    PROVE  PageOf(batch, s, n, except2)
<1>1. ASSUME NEW i \in DOMAIN batch PROVE batch[i][1] = s /\ batch[i][2] <= n
  <2>1. batch[i] \in Real
    OBVIOUS
  <2>2. batch[i][2] \in Nat /\ batch[i][2] <= m /\ batch[i][1] = s
    BY <2>1, UuidIs DEF PageOf, Pos
  <2> QED BY <2>2
<1> QED BY <1>1 DEF PageOf

LEMMA ElementsOfPage ==
    ASSUME NEW batch \in Seq(Real), NEW s, NEW n, NEW except, PageOf(batch, s, n, except)
    PROVE  \A u \in Range(batch) : u \in Real /\ u[1] = s /\ u[2] <= n
BY DEF PageOf, Range

LEMMA FetchFields ==
    ASSUME NEW f \in Fetch
    PROVE  /\ f.s \in Sessions /\ f.phase \in Phases /\ f.rows \in Seq(Real) /\ f.total \in Nat
           /\ f.aborted \in BOOLEAN
BY DEF Fetch

LEMMA ToTimer ==
    ASSUME NEW f \in Fetch, NEW g, g = [f EXCEPT !.phase = "timer"]
    PROVE  /\ g \in Fetch /\ g.s = f.s /\ g.rows = f.rows /\ g.total = f.total
           /\ g.aborted = f.aborted /\ g.phase = "timer"
BY DEF Fetch, Phases

LEMMA ToAborted ==
    ASSUME NEW f \in Fetch, NEW g, g = [f EXCEPT !.aborted = TRUE]
    PROVE  /\ g \in Fetch /\ g.s = f.s /\ g.rows = f.rows /\ g.total = f.total
           /\ g.aborted = TRUE /\ g.phase = f.phase
BY DEF Fetch

FetchBody(f, batch, n, more) ==
    [f EXCEPT !.phase = "body", !.rows = batch, !.total = n, !.more = more]

LEMMA ToBody ==
    ASSUME NEW f \in Fetch, NEW batch \in Seq(Real), NEW n \in Nat, NEW more \in BOOLEAN, NEW g,
           g = FetchBody(f, batch, n, more)
    PROVE  /\ g \in Fetch /\ g.s = f.s /\ g.rows = batch /\ g.total = n
           /\ g.aborted = f.aborted /\ g.phase = "body"
BY DEF FetchBody, Fetch, Phases

LEMMA OlderFields ==
    ASSUME NEW f \in OlderPage
    PROVE  f.s \in Sessions /\ f.offset \in Nat /\ f.rows \in Seq(Real)
BY DEF OlderPage

OlderBody(f, batch, more) == [f EXCEPT !.phase = "body", !.rows = batch, !.more = more]

LEMMA OlderToBody ==
    ASSUME NEW f \in OlderPage, NEW batch \in Seq(Real), NEW more \in BOOLEAN, NEW g,
           g = OlderBody(f, batch, more)
    PROVE  g \in OlderPage /\ g.s = f.s /\ g.offset = f.offset /\ g.rows = batch
BY DEF OlderBody, OlderPage, Phases

\* The log after one more message.
LEMMA LogGrows ==
    ASSUME NEW old \in [Sessions -> Seq({"user", "assistant"})], NEW new, NEW s \in Sessions,
           NEW role \in {"user", "assistant"}, NEW n \in Nat,
           n = Len(old[s]), new = [old EXCEPT ![s] = Append(@, role)]
    PROVE  /\ new \in [Sessions -> Seq({"user", "assistant"})]
           /\ Len(new[s]) = n + 1 /\ new[s] = Append(old[s], role) /\ new[s][n + 1] = role
           /\ \A r \in Sessions : r # s => new[r] = old[r]
           /\ \A r \in Sessions : Len(old[r]) \in Nat /\ Len(new[r]) \in Nat
                                    /\ Len(old[r]) <= Len(new[r])
           /\ \A r \in Sessions : \A k \in 1 .. Len(old[r]) : new[r][k] = old[r][k]
<1>1. PICK t \in Seq({"user", "assistant"}) : t = Append(old[s], role)
  BY AppendProperties
<1>2. Len(t) = n + 1 /\ t[n + 1] = role /\ \A k \in 1 .. n : t[k] = old[s][k]
  BY <1>1, AppendProperties
<1>3. new[s] = t /\ \A r \in Sessions : r # s => new[r] = old[r]
  BY <1>1
<1>4. new \in [Sessions -> Seq({"user", "assistant"})]
  BY <1>1
<1>5. ASSUME NEW r \in Sessions
      PROVE  /\ Len(old[r]) \in Nat /\ Len(new[r]) \in Nat /\ Len(old[r]) <= Len(new[r])
             /\ \A k \in 1 .. Len(old[r]) : new[r][k] = old[r][k]
  <2>1. CASE r = s
    BY <1>2, <1>3, <2>1
  <2>2. CASE r # s
    BY <1>3, <2>2
  <2> QED BY <2>1, <2>2
<1> QED BY <1>1, <1>2, <1>3, <1>4, <1>5

-----------------------------------------------------------------------------
(* Steps that leave the list and what is counted alone. *)

\* The fetches go on, or leave, and none comes to life.
GoOn(before, after, s) ==
    \E m : /\ \A j \in DOMAIN after :
                 /\ m[j] \in DOMAIN before
                 /\ Live(after[j], s) => Live(before[m[j]], s)
           /\ \A j, k \in DOMAIN after : m[j] = m[k] => j = k

ListStands ==
    /\ UNCHANGED <<kept, asked, others, sends, active, shown, seen, optimistic, raced, ahead,
                   stray, total, paged>>
    /\ recent' \in Seq(Real) /\ wire' \in Seq(Real) /\ EventsKnown'
    /\ fetches' \in Seq(Fetch) /\ GoOn(fetches, fetches', active)
    /\ older' # Null => /\ older # Null /\ older' \in OlderPage
                        /\ older'.s = older.s /\ older'.offset = older.offset
    /\ PagesKnown'

LEMMA SameGoOn == ASSUME NEW fs \in Seq(Fetch), NEW s PROVE GoOn(fs, fs, s)
<1>1. PICK m : m = [j \in DOMAIN fs |-> j]
  OBVIOUS
<1>2. /\ \A j \in DOMAIN fs : m[j] \in DOMAIN fs /\ (Live(fs[j], s) => Live(fs[m[j]], s))
      /\ \A j, k \in DOMAIN fs : m[j] = m[k] => j = k
  BY <1>1
<1> QED BY <1>2 DEF GoOn

LEMMA FewerGoOn ==
    ASSUME NEW fs \in Seq(Fetch), NEW i \in DOMAIN fs, NEW gs, gs = RemoveAt(fs, i), NEW s
    PROVE  gs \in Seq(Fetch) /\ GoOn(fs, gs, s) /\ \A j \in DOMAIN gs : \E k \in DOMAIN fs : gs[j] = fs[k]
<1>1. gs \in Seq(Fetch)
  BY WithoutOne
<1>2. PICK m : /\ \A j \in DOMAIN gs : m[j] \in DOMAIN fs /\ m[j] # i /\ gs[j] = fs[m[j]]
               /\ \A j, k \in DOMAIN gs : m[j] = m[k] => j = k
  <2>1. Others(gs, fs, i)
    BY WithoutOne
  <2> QED BY <2>1 DEF Others
<1>3. \A j \in DOMAIN gs : m[j] \in DOMAIN fs /\ (Live(gs[j], s) => Live(fs[m[j]], s))
  BY <1>2
<1> QED BY <1>1, <1>2, <1>3 DEF GoOn

LEMMA ChangedGoOn ==
    ASSUME NEW fs \in Seq(Fetch), NEW i \in DOMAIN fs, NEW g \in Fetch, NEW s,
           Live(g, s) => Live(fs[i], s),
           NEW gs, gs = [fs EXCEPT ![i] = g]
    PROVE  gs \in Seq(Fetch) /\ GoOn(fs, gs, s)
<1>1. gs \in Seq(Fetch) /\ DOMAIN gs = DOMAIN fs /\ gs[i] = g /\ \A j \in DOMAIN fs : j # i => gs[j] = fs[j]
  BY InPlace
<1>2. PICK m : m = [j \in DOMAIN fs |-> j]
  OBVIOUS
<1>3. \A j \in DOMAIN gs : m[j] \in DOMAIN fs /\ (Live(gs[j], s) => Live(fs[m[j]], s))
  BY <1>1, <1>2
<1>4. \A j, k \in DOMAIN gs : m[j] = m[k] => j = k
  BY <1>1, <1>2
<1> QED BY <1>1, <1>3, <1>4 DEF GoOn

LEMMA FetchAnsweredStands ==
    ASSUME StoreInv, NEW i \in DOMAIN fetches, FetchAnswered(i)
    PROVE  ListStands
<1>1. fetches \in Seq(Fetch) /\ fetches[i] \in Fetch /\ recent \in Seq(Real) /\ wire \in Seq(Real)
  BY DEF StoreInv, StoreTypeOK
<1>0. PICK f \in Fetch : f = fetches[i]
  BY <1>1
<1>2. PICK s \in Sessions : s = fetches[i].s
  BY <1>1, FetchFields
<1>3. PICK batch \in Seq(Real), more \in BOOLEAN :
            /\ batch = RowsBefore(s, 0).rows /\ more = RowsBefore(s, 0).more
            /\ PageOf(batch, s, Len(log[s]), remade)
  BY PageIsKnown DEF StoreInv
<1>4. PICK n \in Nat : n = Len(cache[s]) /\ (s \notin remade => n <= Len(log[s]))
  <2>1. PICK n \in Nat, m \in Nat : n = Len(cache[s]) /\ m = Len(log[s])
    BY DEF StoreInv, StoreTypeOK
  <2>2. s \notin remade => n = m
    <3>1. s \notin remade => cache[s] = [j \in 1 .. m |-> j]
      BY <2>1 DEF StoreInv, LinesKnown
    <3>2. Len([j \in 1 .. m |-> j]) = m
      OBVIOUS
    <3> QED BY <2>1, <3>1, <3>2
  <2> QED BY <2>1, <2>2
<1>5. PICK g : g = FetchBody(f, batch, n, more)
  OBVIOUS
<1>6. /\ fetches' = [fetches EXCEPT ![i] = g] /\ fetches[i].phase = "net"
      /\ UNCHANGED <<server, wire, status, view, page, sends>>
  BY <1>0, <1>2, <1>3, <1>4, <1>5 DEF FetchAnswered, FetchBody
<1>7. /\ g \in Fetch /\ g.s = s /\ g.rows = batch /\ g.total = n
      /\ g.aborted = fetches[i].aborted /\ g.phase = "body"
  <2>1. /\ g \in Fetch /\ g.s = f.s /\ g.rows = batch /\ g.total = n
        /\ g.aborted = f.aborted /\ g.phase = "body"
    BY <1>5, ToBody
  <2> QED BY <1>0, <1>2, <2>1
<1>8. Live(g, active) => Live(fetches[i], active)
  BY <1>2, <1>6, <1>7 DEF Live
<1>9. fetches' \in Seq(Fetch) /\ GoOn(fetches, fetches', active)
  BY <1>1, <1>6, <1>7, <1>8, ChangedGoOn
<1>10. /\ DOMAIN fetches' = DOMAIN fetches /\ fetches'[i] = g
       /\ \A j \in DOMAIN fetches : j # i => fetches'[j] = fetches[j]
  BY <1>1, <1>6, <1>7, InPlace
<1>11. PagesKnown'
  <2>1. UNCHANGED <<log, remade, older, total, paged>>
    BY <1>6 DEF server, kept, page
  <2>2. ASSUME NEW j \in DOMAIN fetches'
        PROVE  /\ PageOf(fetches'[j].rows, fetches'[j].s, Len(log[fetches'[j].s]), remade)
               /\ fetches'[j].s \notin remade => fetches'[j].total <= Len(log[fetches'[j].s])
    <3>1. CASE j = i
      BY <1>3, <1>4, <1>7, <1>10, <3>1
    <3>2. CASE j # i
      BY <1>10, <3>2 DEF StoreInv, PagesKnown
    <3> QED BY <3>1, <3>2
  <2>3. /\ older # Null => PageOf(older.rows, older.s, Len(log[older.s]), remade)
        /\ paged # Null /\ paged \notin remade => total <= Len(log[paged])
    BY DEF StoreInv, PagesKnown
  <2> QED BY <2>1, <2>2, <2>3 DEF PagesKnown
<1>12. EventsKnown'
  BY <1>6 DEF StoreInv, EventsKnown, Logged, server, kept
<1> QED BY <1>1, <1>6, <1>9, <1>11, <1>12 DEF ListStands, server, kept, view, page, StoreInv, StoreTypeOK

LEMMA FetchGoesStands ==
    ASSUME StoreInv, NEW i \in DOMAIN fetches, fetches' = RemoveAt(fetches, i),
           UNCHANGED <<server, wire, status, view, page, sends>>
    PROVE  ListStands
<1>1. fetches \in Seq(Fetch) /\ recent \in Seq(Real) /\ wire \in Seq(Real)
  BY DEF StoreInv, StoreTypeOK
<1>2. /\ fetches' \in Seq(Fetch) /\ GoOn(fetches, fetches', active)
      /\ \A j \in DOMAIN fetches' : \E k \in DOMAIN fetches : fetches'[j] = fetches[k]
  BY <1>1, FewerGoOn
<1>3. PagesKnown'
  BY <1>2 DEF StoreInv, PagesKnown, server, kept, page
<1>4. EventsKnown'
  BY DEF StoreInv, EventsKnown, Logged, server, kept
<1> QED BY <1>1, <1>2, <1>3, <1>4 DEF ListStands, server, kept, view, page, StoreInv, StoreTypeOK

LEMMA FetchArrivesStands ==
    ASSUME StoreInv, NEW i \in DOMAIN fetches, FetchArrives(i)
    PROVE  ListStands
<1>1. fetches \in Seq(Fetch) /\ fetches[i] \in Fetch /\ recent \in Seq(Real) /\ wire \in Seq(Real)
  BY DEF StoreInv, StoreTypeOK
<1>2. UNCHANGED <<server, wire, status, view, page, sends>>
  BY DEF FetchArrives
<1>3. CASE fetches[i].aborted \/ fetches[i].s # active
  <2>1. fetches' = RemoveAt(fetches, i)
    BY <1>3 DEF FetchArrives
  <2> QED BY <1>2, <2>1, FetchGoesStands
<1>4. CASE ~(fetches[i].aborted \/ fetches[i].s # active)
  <2>1. PICK g : g = [fetches[i] EXCEPT !.phase = "timer"]
    OBVIOUS
  <2>2. /\ g \in Fetch /\ g.s = fetches[i].s /\ g.rows = fetches[i].rows
        /\ g.total = fetches[i].total /\ g.aborted = fetches[i].aborted /\ g.phase = "timer"
    BY <1>1, <2>1, ToTimer
  <2>3. fetches' = [fetches EXCEPT ![i] = g]
    BY <1>4, <2>1 DEF FetchArrives
  <2>4. Live(g, active) => Live(fetches[i], active)
    BY <1>4, <2>2 DEF Live
  <2>5. fetches' \in Seq(Fetch) /\ GoOn(fetches, fetches', active)
    BY <1>1, <2>2, <2>3, <2>4, ChangedGoOn
  <2>6. /\ DOMAIN fetches' = DOMAIN fetches /\ fetches'[i] = g
        /\ \A j \in DOMAIN fetches : j # i => fetches'[j] = fetches[j]
    BY <1>1, <2>2, <2>3, InPlace
  <2>7. \A j \in DOMAIN fetches :
          /\ fetches'[j].s = fetches[j].s /\ fetches'[j].rows = fetches[j].rows
          /\ fetches'[j].total = fetches[j].total
    BY <2>2, <2>6
  <2>8. PagesKnown'
    BY <1>2, <2>6, <2>7 DEF StoreInv, PagesKnown, server, kept, page
  <2>9. EventsKnown'
    BY <1>2 DEF StoreInv, EventsKnown, Logged, server, kept
  <2> QED BY <1>1, <1>2, <2>5, <2>8, <2>9 DEF ListStands, server, kept, view, page, StoreInv, StoreTypeOK
<1> QED BY <1>3, <1>4

\* Steps that leave the fetches alone too.
LEMMA StandsAlone ==
    ASSUME StoreInv, UNCHANGED <<server, view, fetches, total, paged, sends>>,
           wire' \in Seq(Real), \A i \in DOMAIN wire' : Logged(wire'[i]),
           older' # Null => /\ older # Null /\ older' \in OlderPage
                            /\ older'.s = older.s /\ older'.offset = older.offset
                            /\ PageOf(older'.rows, older.s, Len(log[older.s]), remade)
    PROVE  ListStands
<1>1. fetches \in Seq(Fetch) /\ recent \in Seq(Real)
  BY DEF StoreInv, StoreTypeOK
<1>2. GoOn(fetches, fetches', active)
  BY <1>1, SameGoOn
<1>3. PagesKnown'
  BY DEF StoreInv, PagesKnown, server, kept
<1>4. EventsKnown'
  BY DEF StoreInv, EventsKnown, Logged, server, kept
<1> QED BY <1>1, <1>2, <1>3, <1>4 DEF ListStands, server, kept, view

LEMMA OtherStands ==
    ASSUME StoreInv,
           ConnectionCloses \/ Reconnects \/ OlderAnswered \/ OlderFails \/ UNCHANGED vars
    PROVE  ListStands
<1>1. /\ recent \in Seq(Real) /\ wire \in Seq(Real) /\ (older # Null => older \in OlderPage)
      /\ \A i \in DOMAIN wire : Logged(wire[i])
      /\ \A i \in DOMAIN recent : Logged(recent[i])
      /\ older # Null => PageOf(older.rows, older.s, Len(log[older.s]), remade)
  BY DEF StoreInv, StoreTypeOK, EventsKnown, PagesKnown
<1>2. CASE ConnectionCloses
  <2>1. wire' \in Seq(Real) /\ \A i \in DOMAIN wire' : Logged(wire'[i])
    <3>1. PICK z \in Seq(Real) : z = <<>>
      BY NoneIsSeq
    <3>2. wire' = z
      BY <1>2, <3>1 DEF ConnectionCloses
    <3>3. DOMAIN z = {}
      BY <3>1
    <3> QED BY <3>2, <3>3
  <2>2. UNCHANGED <<server, view, fetches, total, paged, sends, older>>
    BY <1>2 DEF ConnectionCloses, page
  <2> QED BY <1>1, <2>1, <2>2, StandsAlone
<1>3. CASE Reconnects
  <2>1. wire' = wire \/ wire' = recent
    BY <1>3 DEF Reconnects
  <2>2. UNCHANGED <<server, view, fetches, total, paged, sends, older>>
    BY <1>3 DEF Reconnects, page
  <2> QED BY <1>1, <2>1, <2>2, StandsAlone
<1>4. CASE OlderAnswered
  <2>1. older # Null /\ UNCHANGED <<server, wire, view, fetches, total, paged, sends>>
    BY <1>4 DEF OlderAnswered
  <2>2. PICK s \in Sessions, n \in Nat : s = older.s /\ n = older.offset
    BY <1>1, <2>1, OlderFields
  <2>3. PICK batch \in Seq(Real), more \in BOOLEAN :
            /\ batch = RowsBefore(s, n).rows /\ more = RowsBefore(s, n).more
            /\ PageOf(batch, s, Len(log[s]), remade)
    BY PageIsKnown DEF StoreInv
  <2>4. PICK f \in OlderPage : f = older
    BY <1>1, <2>1
  <2>5. PICK g : g = OlderBody(f, batch, more)
    OBVIOUS
  <2>6. g \in OlderPage /\ g.s = f.s /\ g.offset = f.offset /\ g.rows = batch
    BY <2>5, OlderToBody
  <2>7. older' = g
    BY <1>4, <2>2, <2>3, <2>4, <2>5 DEF OlderAnswered, OlderBody
  <2> QED BY <1>1, <2>1, <2>2, <2>3, <2>4, <2>6, <2>7, StandsAlone
<1>5. CASE OlderFails
  <2>1. older' = Null /\ UNCHANGED <<server, wire, view, fetches, total, paged, sends>>
    BY <1>5 DEF OlderFails
  <2> QED BY <1>1, <2>1, StandsAlone
<1>6. CASE UNCHANGED vars
  <2>1. UNCHANGED <<server, wire, view, fetches, total, paged, sends, older>>
    BY <1>6 DEF vars, server, kept, view
  <2> QED BY <1>1, <2>1, StandsAlone
<1> QED BY <1>2, <1>3, <1>4, <1>5, <1>6

LEMMA StandsKeeps == ASSUME StoreInv, ListStands PROVE StoreInv'
<1>1. StoreTypeOK' /\ LinesKnown'
  BY DEF StoreInv, ListStands, StoreTypeOK, LinesKnown, kept
<1>2. SeenKnown' /\ SendsKnown' /\ ListInv'
  BY DEF StoreInv, ListStands, SeenKnown, SendsKnown, ListInv, Users, Most, Logged, kept
<1>3. StrayInv'
  BY DEF StoreInv, ListStands, StrayInv
<1>4. NothingHidden'
  BY DEF StoreInv, ListStands, NothingHidden, RoleOf, kept
<1>5. FetchInv'
  <2>1. SUFFICES ASSUME ~raced
        PROVE  /\ \A i, j \in DOMAIN fetches' :
                    Live(fetches'[i], active) /\ Live(fetches'[j], active) => i = j
               /\ \A i \in DOMAIN fetches' : Live(fetches'[i], active) => \A u \in seen : u[1] = "opt"
               /\ ~stray /\ older' # Null /\ active \notin remade => older'.offset <= Len(log[active])
    BY DEF ListStands, FetchInv, kept
  <2>2. /\ \A i, j \in DOMAIN fetches :
              Live(fetches[i], active) /\ Live(fetches[j], active) => i = j
        /\ \A i \in DOMAIN fetches : Live(fetches[i], active) => \A u \in seen : u[1] = "opt"
        /\ ~stray /\ older # Null /\ active \notin remade => older.offset <= Len(log[active])
    BY <2>1 DEF StoreInv, FetchInv
  <2>3. PICK m : /\ \A j \in DOMAIN fetches' :
                       /\ m[j] \in DOMAIN fetches
                       /\ Live(fetches'[j], active) => Live(fetches[m[j]], active)
                 /\ \A j, k \in DOMAIN fetches' : m[j] = m[k] => j = k
    BY DEF ListStands, GoOn
  <2>4. \A i, j \in DOMAIN fetches' :
           Live(fetches'[i], active) /\ Live(fetches'[j], active) => i = j
    BY <2>2, <2>3
  <2>5. \A i \in DOMAIN fetches' : Live(fetches'[i], active) => \A u \in seen : u[1] = "opt"
    BY <2>2, <2>3
  <2>6. ~stray /\ older' # Null /\ active \notin remade => older'.offset <= Len(log[active])
    BY <2>2 DEF ListStands
  <2> QED BY <2>4, <2>5, <2>6
<1>6. CountInv'
  <2>1. Caps' \subseteq Caps
    BY DEF ListStands, Caps
  <2>2. CountInv
    BY DEF StoreInv
  <2> QED BY <2>1, <2>2 DEF ListStands, CountInv, Counts, Users, Most, kept
<1> QED BY <1>1, <1>2, <1>3, <1>4, <1>5, <1>6 DEF StoreInv, ListStands

-----------------------------------------------------------------------------
(* The other steps. *)

LEMMA BoundedLists ==
    ASSUME NEW batch \in Seq({"user", "assistant"}), NEW s, NEW list \in Seq(Uuids)
    PROVE  Bounded(UsersIn(batch, s), Range(list))
<1>1. IsFiniteSet(UsersIn(batch, s))
  BY UsersFinite
<1>2. IsFiniteSet(Range(list))
  BY FiniteRange
<1> QED BY <1>1, <1>2 DEF Bounded

\* Entries of sessions not excepted are in a list once.
LEMMA OnceAppend ==
    ASSUME NEW list \in Seq(Uuids), NEW u \in Uuids, NEW except, Once(list, except),
           u \notin Range(list)
    PROVE  Once(Append(list, u), except)
<1>0. PICK n \in Nat : n = Len(list)
  OBVIOUS
<1>1. PICK t \in Seq(Uuids) : t = Append(list, u)
  BY AppendProperties
<1>2. Len(t) = n + 1 /\ t[n + 1] = u /\ \A i \in 1 .. n : t[i] = list[i]
  BY <1>0, <1>1, AppendProperties
<1>3. DOMAIN list = 1 .. n /\ DOMAIN t = 1 .. n + 1
  BY <1>0, <1>2
<1>4. \A i \in 1 .. n + 1 : i \in 1 .. n \/ i = n + 1
  OBVIOUS
<1>5. \A i \in 1 .. n : list[i] # u
  BY <1>3 DEF Range
<1>6. ASSUME NEW i \in 1 .. n + 1, NEW j \in 1 .. n + 1, t[i] = t[j], t[i][1] \notin except
      PROVE  i = j
  <2>1. CASE i \in 1 .. n /\ j \in 1 .. n
    BY <1>2, <1>3, <1>6, <2>1 DEF Once
  <2>2. CASE ~(i \in 1 .. n /\ j \in 1 .. n)
    BY <1>2, <1>4, <1>5, <1>6, <2>2
  <2> QED BY <2>1, <2>2
<1> QED BY <1>1, <1>3, <1>6 DEF Once

LEMMA OnceConcat ==
    ASSUME NEW a \in Seq(Uuids), NEW b \in Seq(Uuids), NEW except,
           IsInjective(a) \/ \A u \in Range(a) : u[1] \in except,
           Once(b, except), Range(a) \cap Range(b) = {}
    PROVE  Once(a \o b, except)
<1>0. PICK m \in Nat, n \in Nat : m = Len(a) /\ n = Len(b)
  OBVIOUS
<1>1. PICK t \in Seq(Uuids) : t = a \o b
  BY ConcatProperties
<1>2. DOMAIN a = 1 .. m /\ DOMAIN b = 1 .. n /\ DOMAIN t = 1 .. m + n
  BY <1>0, <1>1, ConcatProperties
<1>3. /\ \A i \in 1 .. m : t[i] = a[i]
      /\ \A i \in (m + 1) .. (m + n) : i - m \in 1 .. n /\ t[i] = b[i - m]
  BY <1>0, <1>1, ConcatProperties
<1>4. \A i \in 1 .. m + n : i \in 1 .. m \/ i \in (m + 1) .. (m + n)
  OBVIOUS
<1>5. \A i \in 1 .. m, j \in 1 .. n : a[i] # b[j]
  BY <1>2 DEF Range
<1>6. ASSUME NEW i \in 1 .. m + n, NEW j \in 1 .. m + n, t[i] = t[j], t[i][1] \notin except
      PROVE  i = j
  <2>1. CASE i \in 1 .. m /\ j \in 1 .. m
    <3>1. a[i] = a[j] /\ a[i] \in Range(a)
      BY <1>2, <1>3, <1>6, <2>1 DEF Range
    <3>2. IsInjective(a)
      BY <1>3, <1>6, <2>1, <3>1
    <3> QED BY <1>2, <2>1, <3>1, <3>2 DEF IsInjective
  <2>2. CASE i \in (m + 1) .. (m + n) /\ j \in (m + 1) .. (m + n)
    <3>1. i - m \in 1 .. n /\ j - m \in 1 .. n /\ b[i - m] = b[j - m] /\ b[i - m][1] \notin except
      BY <1>3, <1>6, <2>2
    <3>2. i - m = j - m
      BY <1>2, <3>1 DEF Once
    <3> QED BY <3>2
  <2>3. CASE i \in 1 .. m /\ j \in (m + 1) .. (m + n)
    BY <1>3, <1>5, <1>6, <2>3
  <2>4. CASE i \in (m + 1) .. (m + n) /\ j \in 1 .. m
    BY <1>3, <1>5, <1>6, <2>4
  <2> QED BY <1>4, <2>1, <2>2, <2>3, <2>4
<1> QED BY <1>1, <1>2, <1>6 DEF Once

LEMMA UserSendsKeeps == ASSUME StoreInv, UserSends PROVE StoreInv'
<1>1. active \in Sessions
  BY DEF UserSends, StoreInv, StoreTypeOK
<1>2. PICK k \in Nat : k = sends[active]
  BY <1>1 DEF StoreInv, StoreTypeOK
<1>3. PICK c : c = <<"opt", <<active, k + 1>>>>
  OBVIOUS
<1>4. c \in Copies /\ c \in Uuids /\ c[1] = "opt" /\ c[2][1] = active /\ c[2][2] = k + 1
  BY <1>1, <1>3 DEF Copies, Real, Pos, Uuids
<1>5. /\ optimistic' = Append(optimistic, c) /\ seen' = seen \cup {c} /\ shown' = Append(shown, c)
      /\ sends' = [sends EXCEPT ![active] = @ + 1] /\ asked' = [asked EXCEPT ![active] = @ + 1]
      /\ UNCHANGED <<file, log, cache, remade, others, recent, wire, active, raced, ahead, stray,
                     fetches, older, total, paged>>
  BY <1>2, <1>3 DEF UserSends, Appended, page, kept
<1>6. c \notin seen
  BY <1>2, <1>4 DEF StoreInv, SeenKnown
<1>7. /\ shown \in Seq(Uuids) /\ seen \in SUBSET Uuids /\ optimistic \in Seq(Copies)
      /\ sends \in [Sessions -> Nat] /\ asked \in [Sessions -> Nat]
  BY DEF StoreInv, StoreTypeOK
<1>8. /\ shown' \in Seq(Uuids) /\ Range(shown') = Range(shown) \cup {c}
      /\ Once(shown, remade) /\ c \notin Range(shown) => Once(shown', remade)
  BY <1>4, <1>5, <1>7, RangeOfAppend, OnceAppend
<1>9. optimistic' \in Seq(Copies) /\ Range(optimistic') = Range(optimistic) \cup {c}
  BY <1>4, <1>5, <1>7, RangeOfAppend
<1>10. /\ sends' \in [Sessions -> Nat] /\ asked' \in [Sessions -> Nat]
       /\ sends'[active] = sends[active] + 1 /\ asked'[active] = asked[active] + 1
       /\ \A s \in Sessions : s # active => sends'[s] = sends[s] /\ asked'[s] = asked[s]
  BY <1>1, <1>5, <1>7
<1>11. StoreTypeOK'
  BY <1>4, <1>5, <1>7, <1>8, <1>9, <1>10 DEF StoreInv, StoreTypeOK
<1>12. SeenKnown'
  <2>1. ASSUME NEW u \in seen'
        PROVE  IF u[1] = "opt" THEN u[2][2] <= sends'[u[2][1]] ELSE Logged(u)
    <3>1. CASE u = c
      BY <1>2, <1>4, <1>10, <3>1
    <3>2. CASE u \in seen /\ u[1] = "opt"
      <4>1. u \in Copies
        BY <1>7, <3>2, UuidIs
      <4>2. u[2] \in Real /\ u[2][1] \in Sessions /\ u[2][2] \in Nat
        BY <4>1, UuidIs DEF Pos
      <4>3. u[2][2] <= sends[u[2][1]]
        BY <3>2 DEF StoreInv, SeenKnown
      <4>4. sends[u[2][1]] <= sends'[u[2][1]] /\ sends[u[2][1]] \in Nat /\ sends'[u[2][1]] \in Nat
        <5>1. PICK s \in Sessions : s = u[2][1]
          BY <4>2
        <5>2. PICK a \in Nat, b \in Nat : a = sends[s] /\ b = sends'[s]
          BY <1>7, <1>10
        <5>3. CASE s = active
          BY <1>10, <5>1, <5>2, <5>3
        <5>4. CASE s # active
          BY <1>10, <5>1, <5>2, <5>4
        <5> QED BY <5>3, <5>4
      <4>5. u[2][2] <= sends'[u[2][1]]
        BY <4>2, <4>3, <4>4
      <4> QED BY <3>2, <4>5
    <3>3. CASE u \in seen /\ u[1] # "opt"
      BY <3>3 DEF StoreInv, SeenKnown
    <3> QED BY <1>5, <3>1, <3>2, <3>3
  <2> QED BY <1>5, <2>1 DEF SeenKnown, Logged
<1>13. EventsKnown' /\ PagesKnown' /\ LinesKnown'
  BY <1>5 DEF StoreInv, EventsKnown, PagesKnown, LinesKnown, Logged
<1>14. SendsKnown'
  <2>1. ASSUME NEW s \in Sessions, s \notin remade
        PROVE  Cardinality(Users(s)) + asked'[s] <= sends'[s] + others[s]
    <3>1. Cardinality(Users(s)) + asked[s] <= sends[s] + others[s]
      BY <2>1 DEF StoreInv, SendsKnown, Most
    <3>2. Cardinality(Users(s)) \in Nat
      <4>1. log[s] \in Seq({"user", "assistant"})
        BY DEF StoreInv, StoreTypeOK
      <4> QED BY <4>1, UsersFinite, FS_CardinalityType DEF Users
    <3>3. asked[s] \in Nat /\ sends[s] \in Nat /\ others[s] \in Nat
      BY <1>7 DEF StoreInv, StoreTypeOK
    <3> QED BY <1>10, <3>1, <3>2, <3>3
  <2> QED BY <1>5, <2>1 DEF SendsKnown, Users, Most
<1>15. ListInv'
  BY <1>5, <1>6, <1>8 DEF StoreInv, ListInv
<1>16. StrayInv'
  BY <1>4, <1>5, <1>8 DEF StoreInv, StrayInv
<1>17. FetchInv'
  BY <1>4, <1>5 DEF StoreInv, FetchInv
<1>18. NothingHidden'
  BY <1>4, <1>5, <1>8 DEF StoreInv, NothingHidden, RoleOf
<1>19. CountInv'
  <2>0. PICK most \in Nat : most = Most(active) /\ Most(active)' = most + 1
    <3>1. PICK o \in Nat : o = others[active] /\ others'[active] = o
      BY <1>1, <1>5 DEF StoreInv, StoreTypeOK
    <3>2. k + o \in Nat /\ (k + 1) + o = (k + o) + 1
      OBVIOUS
    <3> QED BY <1>2, <1>5, <1>10, <3>1, <3>2 DEF Most
  <2>1. SUFFICES ASSUME active \notin remade, ~raced, ~ahead, ~stray
        PROVE  Counts(Users(active), Range(shown'), seen', Range(optimistic'), Caps, most + 1)
    BY <1>5, <2>0 DEF CountInv, Caps, Users
  <2>2. Counts(Users(active), Range(shown), seen, Range(optimistic), Caps, most)
    BY <2>0, <2>1 DEF UserSends, StoreInv, CountInv
  <2>3. Bounded(Users(active), Range(shown))
    BY <1>1, <1>7, BoundedLists DEF StoreInv, StoreTypeOK, Users
  <2>4. c \notin Users(active)
    <3>1. \A u \in Users(active) : u[1] = active
      BY DEF Users, UsersIn
    <3> QED BY <1>1, <1>4, <3>1, StoreAssumption
  <2>5. Counts(Users(active), Range(shown) \cup {c}, seen \cup {c}, Range(optimistic) \cup {c},
               Caps, most + 1)
    <3>1. PICK users, show, known, waiting, caps :
              /\ users = Users(active) /\ show = Range(shown) /\ known = seen
              /\ waiting = Range(optimistic) /\ caps = Caps
      OBVIOUS
    <3>2. Bounded(users, show) /\ Counts(users, show, known, waiting, caps, most) /\ c \notin users
      BY <2>2, <2>3, <2>4, <3>1
    <3>3. Counts(users, show \cup {c}, known \cup {c}, waiting \cup {c}, caps, most + 1)
      BY <1>4, <3>2, OneMoreCopy
    <3> QED BY <3>1, <3>3
  <2> QED BY <1>5, <1>8, <1>9, <2>5
<1> QED BY <1>11, <1>12, <1>13, <1>14, <1>15, <1>16, <1>17, <1>18, <1>19 DEF StoreInv

\* What is logged of the user is expected.
LEMMA MostHolds ==
    ASSUME StoreTypeOK, SendsKnown, NEW s \in Sessions
    PROVE  Most(s) \in Nat /\ (s \notin remade => Cardinality(Users(s)) <= Most(s))
<1>1. PICK a \in Nat, b \in Nat, c \in Nat : a = asked[s] /\ b = sends[s] /\ c = others[s]
  BY DEF StoreTypeOK
<1>2. PICK n \in Nat : n = Cardinality(Users(s))
  <2>1. IsFiniteSet(UsersIn(log[s], s))
    BY UsersFinite DEF StoreTypeOK
  <2> QED BY <2>1, FS_CardinalityType DEF Users
<1>3. Most(s) = b + c
  BY <1>1 DEF Most
<1>4. s \notin remade => n + a <= b + c
  BY <1>1, <1>2, <1>3 DEF SendsKnown
<1>5. n + a <= b + c => n <= b + c
  OBVIOUS
<1> QED BY <1>2, <1>3, <1>4, <1>5

LEMMA OlderStartsKeeps == ASSUME StoreInv, OlderStarts PROVE StoreInv'
<1>1. active \in Sessions /\ total \in Nat
  BY DEF OlderStarts, StoreInv, StoreTypeOK
<1>2. PICK none \in Seq(Real) : none = <<>>
  BY NoneIsSeq
<1>3. /\ older' = [s |-> active, offset |-> total, phase |-> "net", rows |-> none, more |-> FALSE]
      /\ raced' = (raced \/ paged # active)
      /\ UNCHANGED <<file, log, cache, remade, asked, others, recent, wire, active, shown, seen,
                     optimistic, ahead, stray, fetches, total, paged, sends>>
  BY <1>2 DEF OlderStarts, server, kept
<1>4. older' \in OlderPage /\ older'.s = active /\ older'.offset = total /\ older'.rows = none
  BY <1>1, <1>3 DEF OlderPage, Phases
<1>5. StoreTypeOK'
  BY <1>3, <1>4 DEF StoreInv, StoreTypeOK
<1>6. SeenKnown' /\ SendsKnown' /\ ListInv' /\ EventsKnown' /\ LinesKnown'
  BY <1>3 DEF StoreInv, SeenKnown, SendsKnown, ListInv, EventsKnown, LinesKnown, Users, Most, Logged
<1>7. PagesKnown'
  <2>1. DOMAIN none = {}
    BY <1>2
  <2>2. PageOf(none, active, Len(log[active]), remade)
    BY <2>1 DEF PageOf, IsInjective
  <2> QED BY <1>3, <1>4, <2>2 DEF StoreInv, PagesKnown
<1>8. StrayInv'
  BY <1>3, <1>4 DEF StoreInv, StrayInv
<1>9. ~raced' => ~raced /\ paged = active
  BY <1>3
<1>10. FetchInv'
  <2>1. ~raced' /\ active \notin remade => total <= Len(log[active])
    BY <1>1, <1>9, StoreAssumption DEF StoreInv, PagesKnown
  <2> QED BY <1>3, <1>4, <1>9, <2>1 DEF StoreInv, FetchInv
<1>11. NothingHidden'
  BY <1>3, <1>9 DEF StoreInv, NothingHidden, RoleOf
<1>12. CountInv'
  <2>1. ~raced' => Caps' \subseteq Caps
    BY <1>3, <1>4, <1>9 DEF Caps
  <2>2. CountInv
    BY DEF StoreInv
  <2> QED BY <1>3, <1>9, <2>1, <2>2 DEF CountInv, Counts, Users, Most
<1> QED BY <1>5, <1>6, <1>7, <1>8, <1>10, <1>11, <1>12 DEF StoreInv

LEMMA SetActiveSessionKeeps ==
    ASSUME StoreInv, NEW s \in Sessions, SetActiveSession(s)
    PROVE  StoreInv'
<1>1. PICK none \in Seq(Real), empty \in Seq(Uuids) : none = <<>> /\ empty = <<>>
  BY NoneIsSeq
<1>2. PICK new : new = [s |-> s, phase |-> "net", rows |-> none, total |-> 0,
                        more |-> FALSE, aborted |-> FALSE]
  OBVIOUS
<1>3. /\ new \in Fetch /\ new.s = s /\ new.phase = "net" /\ new.rows = none /\ new.total = 0
      /\ new.aborted = FALSE
  BY <1>2 DEF Fetch, Phases
<1>4. PICK old : old = Aborted
  OBVIOUS
<1>5. fetches \in Seq(Fetch)
  BY DEF StoreInv, StoreTypeOK
<1>6. PICK n \in Nat : n = Len(fetches)
  BY <1>5
<1>7. /\ active' = s /\ shown' = empty /\ seen' = {} /\ raced' = PastAbort(s) /\ ahead' = FALSE
      /\ stray' = (older # Null) /\ fetches' = Append(old, new)
      /\ UNCHANGED <<file, log, cache, remade, asked, others, recent, wire, optimistic, older,
                     total, paged, sends>>
  BY <1>1, <1>2, <1>4 DEF SetActiveSession, server, kept, page
<1>8. old \in Seq(Fetch) /\ Len(old) = n /\ DOMAIN old = 1 .. n /\ DOMAIN fetches = 1 .. n
      /\ \A i \in 1 .. n : /\ old[i].s = fetches[i].s /\ old[i].rows = fetches[i].rows
                           /\ old[i].total = fetches[i].total /\ old[i].aborted = TRUE
                           /\ old[i].phase = fetches[i].phase
  <2>1. DOMAIN fetches = 1 .. n /\ \A i \in 1 .. n : fetches[i] \in Fetch
    BY <1>5, <1>6
  <2>2. old = [i \in 1 .. n |-> [fetches[i] EXCEPT !.aborted = TRUE]]
    BY <1>4, <2>1 DEF Aborted
  <2>3. ASSUME NEW i \in 1 .. n
        PROVE  /\ old[i] \in Fetch
               /\ old[i].s = fetches[i].s /\ old[i].rows = fetches[i].rows
               /\ old[i].total = fetches[i].total /\ old[i].aborted = TRUE
               /\ old[i].phase = fetches[i].phase
    <3>1. PICK f \in Fetch : f = fetches[i]
      BY <2>1
    <3>2. old[i] = [f EXCEPT !.aborted = TRUE]
      BY <2>2, <3>1
    <3>3. PICK g : g = [f EXCEPT !.aborted = TRUE]
      OBVIOUS
    <3>4. /\ g \in Fetch /\ g.s = f.s /\ g.rows = f.rows /\ g.total = f.total
          /\ g.aborted = TRUE /\ g.phase = f.phase
      BY <3>3, ToAborted
    <3> QED BY <3>1, <3>2, <3>3, <3>4
  <2>4. old = [i \in 1 .. n |-> old[i]]
    BY <2>2
  <2>5. old \in Seq(Fetch) /\ Len(old) = n
    BY <2>3, <2>4, MadeSeq
  <2>6. DOMAIN old = 1 .. n
    BY <2>2
  <2> QED BY <2>1, <2>3, <2>5, <2>6
<1>9. /\ fetches' \in Seq(Fetch) /\ DOMAIN fetches' = 1 .. n + 1 /\ fetches'[n + 1] = new
      /\ \A i \in 1 .. n : fetches'[i] = old[i]
  BY <1>3, <1>7, <1>8, AppendProperties
<1>10. \A i \in 1 .. n + 1 : i \in 1 .. n \/ i = n + 1
  OBVIOUS
<1>11. StoreTypeOK'
  <2>1. {} \in SUBSET Uuids /\ PastAbort(s) \in BOOLEAN /\ (older # Null) \in BOOLEAN
    BY DEF PastAbort
  <2> QED BY <1>7, <1>9, <2>1 DEF StoreInv, StoreTypeOK
<1>12. SeenKnown' /\ SendsKnown' /\ EventsKnown' /\ LinesKnown'
  BY <1>7 DEF StoreInv, SeenKnown, SendsKnown, EventsKnown, LinesKnown, Users, Most, Logged
<1>13. PagesKnown'
  <2>1. DOMAIN none = {} /\ 0 <= Len(log[s])
    BY <1>1 DEF StoreInv, StoreTypeOK
  <2>2. PageOf(new.rows, new.s, Len(log[s]), remade) /\ new.total <= Len(log[s])
    BY <1>3, <2>1 DEF PageOf, IsInjective
  <2>3. \A i \in 1 .. n : /\ PageOf(old[i].rows, old[i].s, Len(log[old[i].s]), remade)
                          /\ old[i].s \notin remade => old[i].total <= Len(log[old[i].s])
    BY <1>8 DEF StoreInv, PagesKnown
  <2>4. \A i \in 1 .. n + 1 :
            /\ PageOf(fetches'[i].rows, fetches'[i].s, Len(log[fetches'[i].s]), remade)
            /\ fetches'[i].s \notin remade => fetches'[i].total <= Len(log[fetches'[i].s])
    BY <1>3, <1>9, <1>10, <2>2, <2>3
  <2>5. /\ older # Null => PageOf(older.rows, older.s, Len(log[older.s]), remade)
        /\ paged # Null /\ paged \notin remade => total <= Len(log[paged])
    BY DEF StoreInv, PagesKnown
  <2> QED BY <1>7, <1>9, <2>4, <2>5 DEF PagesKnown
<1>14. Once(empty, remade) /\ Range(empty) = {}
  BY <1>1, NothingTwice DEF Once
<1>15. ListInv' /\ StrayInv' /\ NothingHidden'
  <2>1. ListInv'
    BY <1>7, <1>14 DEF ListInv
  <2>2. StrayInv'
    BY <1>7, <1>14 DEF StrayInv
  <2>3. NothingHidden'
    BY <1>7 DEF NothingHidden
  <2> QED BY <2>1, <2>2, <2>3
<1>16. FetchInv'
  <2>1. ASSUME ~PastAbort(s), NEW i \in 1 .. n PROVE ~Live(fetches'[i], s)
    <3>1. fetches'[i] = old[i] /\ old[i].s = fetches[i].s /\ old[i].phase = fetches[i].phase
      BY <1>8, <1>9
    <3>2. old[i].aborted /\ ~(fetches[i].s = s /\ fetches[i].phase = "timer")
      BY <1>8, <2>1 DEF PastAbort
    <3> QED BY <3>1, <3>2 DEF Live
  <2>2. \A u \in seen' : u[1] = "opt"
    BY <1>7
  <2>3. ~raced' => ~PastAbort(s)
    BY <1>7
  <2>4. ~raced' => \A i, j \in DOMAIN fetches' : Live(fetches'[i], s) /\ Live(fetches'[j], s) => i = j
    BY <1>9, <1>10, <2>1, <2>3
  <2>5. ~stray' => older' = Null
    BY <1>7
  <2>6. active' = s
    BY <1>7
  <2> QED BY <2>2, <2>4, <2>5, <2>6 DEF FetchInv
<1>17. CountInv'
  <2>1. Bounded(Users(s), Range(empty))
    BY BoundedLists DEF StoreInv, StoreTypeOK, Users
  <2>2. PICK most \in Nat : /\ most = Most(s)
                            /\ s \notin remade => Cardinality(Users(s)) <= most
    BY MostHolds DEF StoreInv
  <2>5. Opts(Range(empty)) = {}
    BY <1>14 DEF Opts
  <2>6. PICK caps, waiting : caps = Caps' /\ waiting = Range(optimistic)
    OBVIOUS
  <2>7. s \notin remade => Counts(Users(s), Range(empty), {}, waiting, caps, most)
    BY <2>1, <2>2, <2>5, FreshCounts
  <2> QED BY <1>7, <2>2, <2>6, <2>7 DEF CountInv, Users, Most
<1> QED BY <1>11, <1>12, <1>13, <1>15, <1>16, <1>17 DEF StoreInv

LEMMA FetchAppliesKeeps ==
    ASSUME StoreInv, NEW i \in DOMAIN fetches, FetchApplies(i)
    PROVE  StoreInv'
<1>1. /\ fetches \in Seq(Fetch) /\ fetches[i] \in Fetch /\ shown \in Seq(Uuids)
      /\ seen \in SUBSET Uuids
  BY DEF StoreInv, StoreTypeOK
<1>2. PICK s \in Sessions, batch \in Seq(Real), n \in Nat :
          s = fetches[i].s /\ batch = fetches[i].rows /\ n = fetches[i].total
  BY <1>1, FetchFields
<1>3. /\ fetches[i].phase = "timer" /\ fetches' = RemoveAt(fetches, i)
      /\ total' = n /\ paged' = s
      /\ s = active => shown' = batch /\ seen' = seen \cup Range(batch)
      /\ s # active => shown' = shown /\ seen' = seen
      /\ UNCHANGED <<file, log, cache, remade, asked, others, recent, wire, active, optimistic, raced,
                     ahead, stray, older, sends>>
  BY <1>2 DEF FetchApplies, server, kept
<1>4. /\ fetches' \in Seq(Fetch)
      /\ \A j \in DOMAIN fetches' : \E k \in DOMAIN fetches : k # i /\ fetches'[j] = fetches[k]
      /\ GoOn(fetches, fetches', active)
  <2>1. fetches' \in Seq(Fetch) /\ GoOn(fetches, fetches', active)
    BY <1>1, <1>3, FewerGoOn
  <2>2. Others(fetches', fetches, i)
    BY <1>1, <1>3, WithoutOne
  <2> QED BY <2>1, <2>2 DEF Others
<1>5. PageOf(batch, s, Len(log[s]), remade) /\ (s \notin remade => n <= Len(log[s]))
  BY <1>2 DEF StoreInv, PagesKnown
<1>6. Live(fetches[i], s)
  BY <1>2, <1>3 DEF Live
<1>7. batch \in Seq(Uuids) /\ Range(batch) \subseteq Real /\ \A u \in Range(batch) : u[1] = s /\ Logged(u)
  <2>1. \A u \in Range(batch) : u \in Real /\ u[1] = s /\ u[2] <= Len(log[s])
    BY <1>5, ElementsOfPage
  <2>2. batch \in Seq(Uuids)
    BY DEF Uuids
  <2> QED BY <2>1, <2>2 DEF Logged
<1>8. StoreTypeOK'
  <2>1. shown' \in Seq(Uuids) /\ seen' \in SUBSET Uuids
    BY <1>1, <1>3, <1>7 DEF Uuids
  <2> QED BY <1>3, <1>4, <2>1 DEF StoreInv, StoreTypeOK
<1>9. SeenKnown'
  <2>1. \A u \in Range(batch) : u[1] # "opt" /\ Logged(u)
    BY <1>7, UuidIs
  <2> QED BY <1>3, <2>1 DEF StoreInv, SeenKnown, Logged
<1>10. SendsKnown' /\ EventsKnown' /\ LinesKnown'
  BY <1>3 DEF StoreInv, SendsKnown, EventsKnown, LinesKnown, Users, Most, Logged
<1>11. PagesKnown'
  BY <1>3, <1>4, <1>5 DEF StoreInv, PagesKnown
<1>12. ListInv'
  <2>1. CASE s = active
    <3>1. Once(batch, remade)
      <4>1. CASE s \in remade
        BY <1>5, <4>1 DEF PageOf, Once
      <4>2. CASE s \notin remade
        BY <1>5, <4>2 DEF PageOf, Once, IsInjective
      <4> QED BY <4>1, <4>2
    <3> QED BY <1>3, <2>1, <3>1 DEF ListInv
  <2>2. CASE s # active
    BY <1>3, <2>2 DEF StoreInv, ListInv
  <2> QED BY <2>1, <2>2
<1>13. StrayInv'
  <2>1. CASE s = active
    BY <1>3, <1>7, <2>1 DEF StoreInv, StrayInv
  <2>2. CASE s # active
    BY <1>3, <2>2 DEF StoreInv, StrayInv
  <2> QED BY <2>1, <2>2
<1>14. s = active /\ ~raced => /\ \A u \in seen : u[1] = "opt"
                               /\ \A j \in DOMAIN fetches' : ~Live(fetches'[j], active)
  BY <1>4, <1>6 DEF StoreInv, FetchInv
<1>15. FetchInv'
  <2>1. CASE s = active
    BY <1>3, <1>14, <2>1 DEF StoreInv, FetchInv
  <2>2. CASE s # active
    <3>1. PICK m : /\ \A j \in DOMAIN fetches' :
                         /\ m[j] \in DOMAIN fetches
                         /\ Live(fetches'[j], active) => Live(fetches[m[j]], active)
                   /\ \A j, k \in DOMAIN fetches' : m[j] = m[k] => j = k
      BY <1>4 DEF GoOn
    <3>2. SUFFICES ASSUME ~raced
          PROVE  /\ \A j, k \in DOMAIN fetches' :
                      Live(fetches'[j], active) /\ Live(fetches'[k], active) => j = k
                 /\ \A j \in DOMAIN fetches' : Live(fetches'[j], active) => \A u \in seen : u[1] = "opt"
                 /\ ~stray /\ older # Null /\ active \notin remade => older.offset <= Len(log[active])
      BY <1>3, <2>2 DEF FetchInv
    <3> QED BY <3>1, <3>2 DEF StoreInv, FetchInv
  <2> QED BY <2>1, <2>2
<1>16. NothingHidden'
  <2>1. CASE s = active
    BY <1>3, <1>14, <2>1 DEF NothingHidden, RoleOf
  <2>2. CASE s # active
    BY <1>3, <2>2 DEF StoreInv, NothingHidden, RoleOf
  <2> QED BY <2>1, <2>2
<1>17. CountInv'
  <2>1. CASE s = active
    <3>1. Bounded(Users(s), Range(batch))
      BY <1>7, BoundedLists DEF StoreInv, StoreTypeOK, Users
    <3>2. PICK most \in Nat : /\ most = Most(s)
                              /\ s \notin remade => Cardinality(Users(s)) <= most
      BY MostHolds DEF StoreInv
    <3>5. Opts(Range(batch)) = {}
      BY <1>7, UuidIs DEF Opts
    <3>6. PICK caps, waiting, known : caps = Caps' /\ waiting = Range(optimistic) /\ known = seen'
      OBVIOUS
    <3>7. s \notin remade => Counts(Users(s), Range(batch), known, waiting, caps, most)
      BY <3>1, <3>2, <3>5, FreshCounts
    <3> QED BY <1>3, <2>1, <3>2, <3>6, <3>7 DEF CountInv, Users, Most
  <2>2. CASE s # active
    <3>1. Caps' \subseteq Caps
      BY <1>3, <2>2 DEF Caps
    <3>2. CountInv
      BY DEF StoreInv
    <3> QED BY <1>3, <2>2, <3>1, <3>2 DEF CountInv, Counts, Users, Most
  <2> QED BY <2>1, <2>2
<1> QED BY <1>8, <1>9, <1>10, <1>11, <1>12, <1>13, <1>15, <1>16, <1>17 DEF StoreInv

LEMMA OlderAppliesKeeps == ASSUME StoreInv, OlderApplies PROVE StoreInv'
<1>1. older # Null /\ older \in OlderPage /\ shown \in Seq(Uuids) /\ seen \in SUBSET Uuids
  BY DEF OlderApplies, StoreInv, StoreTypeOK
<1>2. PICK s \in Sessions, batch \in Seq(Real), offset \in Nat :
          s = older.s /\ batch = older.rows /\ offset = older.offset
  BY <1>1, OlderFields
<1>3. /\ older' = Null
      /\ shown' = Unknown(batch, seen) \o shown /\ seen' = seen \cup Range(batch)
      /\ raced' = (raced \/ Fetching)
      /\ ahead' = (ahead \/ \E u \in Range(batch) : u[2] > offset)
      /\ UNCHANGED <<file, log, cache, remade, asked, others, recent, wire, active, optimistic, stray,
                     fetches, total, paged, sends>>
  <2>1. Unseen(older.rows) = Unknown(older.rows, seen)
    BY DEF Unseen, Unknown
  <2>2. older.rows = batch /\ older.offset = offset
    BY <1>2
  <2>3. shown' = Unknown(batch, seen) \o shown
    BY <2>1, <2>2 DEF OlderApplies
  <2> QED BY <2>2, <2>3 DEF OlderApplies, server, kept
<1>4. PageOf(batch, s, Len(log[s]), remade)
  BY <1>1, <1>2 DEF StoreInv, PagesKnown
<1>5. batch \in Seq(Uuids) /\ \A u \in Range(batch) : /\ u \in Real /\ u[1] = s /\ Logged(u)
                                                    /\ u[1] # "opt" /\ u[2] \in Nat
  <2>1. \A u \in Range(batch) : u \in Real /\ u[1] = s /\ u[2] <= Len(log[s])
    BY <1>4, ElementsOfPage
  <2>2. batch \in Seq(Uuids)
    BY DEF Uuids
  <2> QED BY <2>1, <2>2, UuidIs DEF Logged, Pos
<1>6. PICK new \in Seq(Uuids) : /\ new = Unknown(batch, seen) /\ Range(new) = Range(batch) \ seen
                                /\ IsInjective(new) \/ \A u \in Range(new) : u[1] \in remade
  <2>1. s \notin remade => IsInjective(batch)
    BY <1>4 DEF PageOf
  <2>2. /\ Unknown(batch, seen) \in Seq(Uuids) /\ Range(Unknown(batch, seen)) = Range(batch) \ seen
        /\ IsInjective(batch) => IsInjective(Unknown(batch, seen))
    BY <1>5, UnknownOnce
  <2> QED BY <1>5, <2>1, <2>2
<1>7. Once(shown, remade) /\ Range(shown) \subseteq seen
  BY DEF StoreInv, ListInv
<1>8. /\ shown' \in Seq(Uuids) /\ Range(shown') = Range(new) \cup Range(shown)
      /\ Once(shown', remade)
  <2>1. Range(new) \cap Range(shown) = {}
    BY <1>6, <1>7
  <2>2. new \o shown \in Seq(Uuids) /\ Range(new \o shown) = Range(new) \cup Range(shown)
    BY <1>1, RangeOfConcat
  <2>3. Once(new \o shown, remade)
    BY <1>1, <1>6, <1>7, <2>1, OnceConcat
  <2> QED BY <1>3, <1>6, <2>2, <2>3
<1>9. Range(shown') = Range(shown) \cup (Range(batch) \ seen)
  BY <1>6, <1>8
<1>10. StoreTypeOK'
  <2>1. seen' \in SUBSET Uuids
    BY <1>1, <1>3, <1>5 DEF Uuids
  <2>2. raced' \in BOOLEAN /\ ahead' \in BOOLEAN
    BY <1>3 DEF StoreInv, StoreTypeOK
  <2> QED BY <1>3, <1>8, <2>1, <2>2 DEF StoreInv, StoreTypeOK
<1>11. SeenKnown'
  BY <1>3, <1>5 DEF StoreInv, SeenKnown, Logged
<1>12. SendsKnown' /\ EventsKnown' /\ PagesKnown' /\ LinesKnown'
  BY <1>3 DEF StoreInv, SendsKnown, EventsKnown, PagesKnown, LinesKnown, Users, Most, Logged
<1>13. ListInv'
  BY <1>3, <1>7, <1>8, <1>9 DEF ListInv
<1>14. StrayInv'
  BY <1>1, <1>2, <1>3, <1>5, <1>9 DEF StoreInv, StrayInv
<1>15. ~raced' => ~raced /\ \A i \in DOMAIN fetches : ~Live(fetches[i], active)
  BY <1>3 DEF Fetching, Live
<1>16. FetchInv'
  BY <1>3, <1>15 DEF FetchInv
<1>17. NothingHidden'
  <2>1. SUFFICES ASSUME ~raced, NEW u \in seen', RoleOf(u) = "assistant" PROVE u \in Range(shown')
    BY <1>3, <1>15 DEF NothingHidden, RoleOf
  <2>2. CASE u \in seen
    BY <1>9, <2>1, <2>2 DEF StoreInv, NothingHidden
  <2>3. CASE u \notin seen
    BY <1>3, <1>9, <2>1, <2>3
  <2> QED BY <2>2, <2>3
<1>18. CountInv'
  <2>1. SUFFICES ASSUME active # Null, active \notin remade, ~raced, ~ahead, ~stray, ~ahead'
        PROVE  Counts(Users(active), Range(shown'), seen', Range(optimistic), Caps', Most(active))
    BY <1>3, <1>15 DEF CountInv, Users, Most
  <2>2. Counts(Users(active), Range(shown), seen, Range(optimistic), Caps, Most(active))
    BY <2>1 DEF StoreInv, CountInv
  <2>3. PICK a \in Sessions, k \in Nat : a = active /\ k = Most(active)
    <3>1. active \in Sessions
      BY <2>1 DEF StoreInv, StoreTypeOK
    <3> QED BY <3>1, MostHolds DEF StoreInv
  <2>4. Bounded(Users(active), Range(shown)) /\ Bounded(Users(active), Range(shown'))
    BY <1>1, <1>8, <2>3, BoundedLists DEF StoreInv, StoreTypeOK, Users
  <2>5. \A u \in Range(batch) : u[2] <= offset
    <3>1. ASSUME NEW u \in Range(batch) PROVE u[2] <= offset
      <4>1. ~(u[2] > offset)
        BY <1>3, <2>1, <3>1
      <4>2. u[2] \in Nat /\ offset \in Nat
        BY <1>5, <3>1
      <4> QED BY <4>1, <4>2
    <3> QED BY <3>1
  <2>6. PICK users, show, show2, known, known2, caps, caps2, waiting :
            /\ users = Users(active) /\ show = Range(shown) /\ show2 = Range(shown')
            /\ known = seen /\ known2 = seen' /\ caps = Caps /\ caps2 = Caps'
            /\ waiting = Range(optimistic)
    OBVIOUS
  <2>7. \A u \in users : u[2] \in Nat
    BY <2>6 DEF Users, UsersIn
  <2>8. Opts(show2) = Opts(show)
    BY <1>5, <1>9, <2>6 DEF Opts
  <2>9. ASSUME NEW n \in caps2
        PROVE  \E c \in caps : Counted(users, show2, known2, n) \subseteq Counted(users, show, known, c)
    <3>1. n \in Nat /\ n \in caps
      BY <1>3, <2>6 DEF Caps
    <3>2. offset \in caps
      BY <1>1, <1>2, <2>6 DEF Caps
    <3>3. \A u \in users : u \in show2 => u \in show \/ (u[2] <= offset /\ u \notin known)
      BY <1>9, <2>5, <2>6
    <3>4. \A u \in users : u \notin known2 => u \notin known
      BY <1>3, <2>6
    <3>5. CASE n <= offset
      <4>1. Counted(users, show2, known2, n) \subseteq Counted(users, show, known, offset)
        <5>1. \A u \in users : u[2] <= n => u[2] <= offset
          BY <2>7, <3>1, <3>5
        <5> QED BY <3>3, <3>4, <5>1 DEF Counted
      <4> QED BY <3>2, <4>1
    <3>6. CASE offset <= n
      <4>1. Counted(users, show2, known2, n) \subseteq Counted(users, show, known, n)
        <5>1. \A u \in users : u[2] <= offset => u[2] <= n
          BY <2>7, <3>1, <3>6
        <5> QED BY <3>3, <3>4, <5>1 DEF Counted
      <4> QED BY <3>1, <4>1
    <3> QED BY <3>1, <3>5, <3>6
  <2>10. Hidden(users, show, known) \subseteq Hidden(users, show2, known2)
    BY <1>3, <1>9, <2>6 DEF Hidden
  <2>11. Counts(users, show2, known2, waiting, caps2, k)
    <3>1. Counts(users, show, known, waiting, caps, k) /\ k <= k
      BY <2>2, <2>3, <2>6
    <3>2. Bounded(users, show) /\ Bounded(users, show2)
      BY <2>4, <2>6
    <3>3. Opts(show2) \ waiting \subseteq Opts(show) \ waiting
      BY <2>8
    <3> QED BY <2>8, <2>9, <2>10, <3>1, <3>2, <3>3, StillCounts
  <2> QED BY <2>3, <2>6, <2>11
<1> QED BY <1>10, <1>11, <1>12, <1>13, <1>14, <1>16, <1>17, <1>18 DEF StoreInv

\* Who logged a message is settled once it is logged.
LEMMA RoleIs ==
    ASSUME StoreTypeOK, NEW u \in Real, Logged(u)
    PROVE  /\ RoleOf(u) \in {"user", "assistant"}
           /\ RoleOf(u) = "user" <=> u \in Users(u[1])
<1>1. PICK s \in Sessions, n \in Pos : s = u[1] /\ n = u[2] /\ u = <<s, n>>
  BY UuidIs
<1>2. u[1] # "opt" /\ n \in Nat \ {0} /\ n <= Len(log[s]) /\ Len(log[s]) \in Nat
  BY <1>1, UuidIs DEF Logged, StoreTypeOK, Pos
<1>3. n \in 1 .. Len(log[s])
  BY <1>2
<1>4. log[s][n] \in {"user", "assistant"}
  BY <1>3 DEF StoreTypeOK
<1>5. RoleOf(u) = log[s][n]
  BY <1>1, <1>2 DEF RoleOf
<1>6. u \in Users(s) <=> log[s][n] = "user"
  <2>1. u \in {s} \X (1 .. Len(log[s]))
    BY <1>1, <1>3
  <2> QED BY <1>1, <2>1 DEF Users, UsersIn
<1> QED BY <1>1, <1>4, <1>5, <1>6

\* An event is known already, or is taken for an echo, or is shown.
LEMMA DeliversKeeps == ASSUME StoreInv, Delivers PROVE StoreInv'
<1>1. /\ wire \in Seq(Real) /\ wire # <<>> /\ shown \in Seq(Uuids) /\ seen \in SUBSET Uuids
      /\ optimistic \in Seq(Copies) /\ fetches \in Seq(Fetch) /\ StoreTypeOK
  BY DEF Delivers, StoreInv, StoreTypeOK
<1>2. PICK u \in Real, rest \in Seq(Real) :
          /\ u = Head(wire) /\ rest = Tail(wire) /\ Logged(u)
          /\ \A i \in DOMAIN rest : Logged(rest[i])
  <2>1. \A i \in DOMAIN wire : Logged(wire[i])
    BY DEF StoreInv, EventsKnown
  <2>2. PICK u \in Real, rest \in Seq(Real) : u = Head(wire) /\ rest = Tail(wire)
    BY <1>1, HeadAndTail
  <2>3. /\ \E i \in DOMAIN wire : u = wire[i]
        /\ \A i \in DOMAIN rest : \E j \in DOMAIN wire : rest[i] = wire[j]
    BY <1>1, <2>2, HeadAndTail
  <2>4. Logged(u) /\ \A i \in DOMAIN rest : Logged(rest[i])
    BY <2>1, <2>3
  <2> QED BY <2>2, <2>4
<1>3. /\ wire' = rest
      /\ UNCHANGED <<server, status, fetches, page, sends>>
      /\ IF u[1] = active
         THEN /\ AddMessage(u)
              /\ raced' = (raced \/ Fetching)
              /\ UNCHANGED <<active, ahead, stray>>
         ELSE UNCHANGED view
  BY <1>2 DEF Delivers
<1>4. CASE u[1] # active
  <2>1. UNCHANGED <<server, view, fetches, total, paged, sends, older>>
    BY <1>3, <1>4 DEF page
  <2>2. older # Null => older \in OlderPage /\ PageOf(older.rows, older.s, Len(log[older.s]), remade)
    BY DEF StoreInv, StoreTypeOK, PagesKnown
  <2>3. ListStands
    BY <1>2, <1>3, <2>1, <2>2, StandsAlone
  <2> QED BY <2>3, StandsKeeps
<1>5. CASE u[1] = active
  <2>1. /\ UNCHANGED <<file, log, cache, remade, asked, others, recent, active, ahead, stray, fetches,
                       older, total, paged, sends>>
        /\ raced' = (raced \/ Fetching) /\ wire' = rest
        /\ AddMessage(u)
    BY <1>3, <1>5 DEF server, kept, page
  <2>2. u \in Uuids /\ u[1] # "opt" /\ active \in Sessions
    BY <1>5, UuidIs DEF Uuids
  <2>3. ~raced' => ~raced /\ \A i \in DOMAIN fetches : ~Live(fetches[i], active)
    BY <2>1 DEF Fetching, Live
  <2>4. Once(shown, remade) /\ Range(shown) \subseteq seen
    BY DEF StoreInv, ListInv
  <2>5. PICK k \in Nat : /\ k = Most(active)
                         /\ active \notin remade => Cardinality(Users(active)) <= k
    BY <1>1, <2>2, MostHolds DEF StoreInv
  <2>6. Bounded(Users(active), Range(shown))
    BY <1>1, <2>2, BoundedLists DEF StoreTypeOK, Users
  <2>7. active \notin remade => Cardinality(Users(active)) <= k
    BY <2>5
  <2>8. /\ RoleOf(u) \in {"user", "assistant"}
        /\ RoleOf(u) = "user" <=> u \in Users(active)
    BY <1>1, <1>2, <1>5, RoleIs
  <2> DEFINE Counting == active # Null /\ active \notin remade /\ ~raced /\ ~ahead /\ ~stray
             Added(list, waiting) ==
                /\ seen' = seen \cup {u} /\ list \in Seq(Uuids) /\ Once(list, remade)
                /\ Range(shown) \subseteq Range(list) /\ Range(list) \subseteq Range(shown) \cup {u}
                /\ waiting \in Seq(Copies)
                /\ RoleOf(u) = "assistant" /\ u \notin seen => u \in Range(list)
                /\ Counting => Counts(Users(active), Range(list), seen \cup {u}, Range(waiting),
                                      Caps, k)
  <2>9. PICK users, show, known, waiting, caps :
            /\ users = Users(active) /\ show = Range(shown) /\ known = seen
            /\ waiting = Range(optimistic) /\ caps = Caps
    OBVIOUS
  <2>10. Counting => Counts(users, show, known, waiting, caps, k)
    BY <2>5, <2>9 DEF StoreInv, CountInv
  <2>11. Added(shown', optimistic')
    <3>1. CASE u \in seen
      <4>1. UNCHANGED <<seen, shown, optimistic>>
        BY <2>1, <3>1 DEF AddMessage
      <4>2. seen \cup {u} = seen
        BY <3>1
      <4> QED BY <1>1, <2>4, <2>9, <2>10, <3>1, <4>1, <4>2
    <3>2. CASE u \notin seen /\ RoleOf(u) = "user" /\ optimistic # <<>>
      <4>1. optimistic' = Tail(optimistic) /\ seen' = seen \cup {u} /\ shown' = shown
        BY <2>1, <2>2, <3>2 DEF AddMessage
      <4>2. PICK c \in Copies, left \in Seq(Copies) : /\ c = Head(optimistic) /\ left = Tail(optimistic)
                                           /\ Range(optimistic) \subseteq Range(left) \cup {c}
        BY <1>1, <3>2, HeadAndTail
      <4>3. PICK waiting2 : waiting2 = Range(left)
        OBVIOUS
      <4>4. Counting => Counts(users, show, known \cup {u}, waiting2, caps, k)
        <5>1. /\ Bounded(users, show) /\ u \in users /\ u \notin known /\ show \subseteq known
              /\ waiting \subseteq waiting2 \cup {c}
          BY <2>4, <2>6, <2>8, <2>9, <3>2, <4>2, <4>3
        <5> QED BY <2>10, <5>1, EchoTaken
      <4> QED BY <1>1, <2>4, <2>9, <3>2, <4>1, <4>2, <4>3, <4>4
    <3>3. CASE u \notin seen /\ ~(RoleOf(u) = "user" /\ optimistic # <<>>)
      <4>1. shown' = Append(shown, u) /\ seen' = seen \cup {u} /\ optimistic' = optimistic
        BY <2>1, <3>3 DEF AddMessage, Appended
      <4>2. /\ shown' \in Seq(Uuids) /\ Range(shown') = Range(shown) \cup {u}
            /\ Once(shown', remade)
        <5>1. u \notin Range(shown)
          BY <2>4, <3>3
        <5> QED BY <1>1, <2>2, <2>4, <4>1, <5>1, RangeOfAppend, OnceAppend
      <4>3. Counting => Counts(users, show \cup {u}, known \cup {u}, waiting, caps, k)
        <5>1. CASE RoleOf(u) = "user"
          <6>1. waiting = {}
            BY <2>9, <3>3, <5>1, NothingTwice
          <6>2. /\ Bounded(users, show) /\ u \in users /\ u \notin known /\ show \subseteq known
                /\ Counting => Cardinality(users) <= k
            BY <2>4, <2>6, <2>7, <2>8, <2>9, <3>3, <5>1
          <6> QED BY <2>2, <2>10, <6>1, <6>2, EchoShown
        <5>2. CASE RoleOf(u) # "user"
          <6>1. u \notin users /\ u[1] # "opt"
            BY <2>2, <2>8, <2>9, <5>2
          <6>2. /\ Opts(show \cup {u}) = Opts(show)
                /\ \A n : Counted(users, show \cup {u}, known \cup {u}, n)
                              = Counted(users, show, known, n)
                /\ Hidden(users, show \cup {u}, known \cup {u}) = Hidden(users, show, known)
            BY <6>1 DEF Opts, Counted, Hidden
          <6> QED BY <2>10, <6>2 DEF Counts
        <5> QED BY <5>1, <5>2
      <4> QED BY <1>1, <2>4, <2>9, <3>3, <4>1, <4>2, <4>3
    <3> QED BY <3>1, <3>2, <3>3
  <2>12. StoreTypeOK'
    <3>1. seen' \in SUBSET Uuids /\ raced' \in BOOLEAN
      BY <1>1, <2>1, <2>2, <2>11 DEF StoreTypeOK
    <3> QED BY <1>1, <2>1, <2>11, <3>1 DEF StoreTypeOK
  <2>13. SeenKnown'
    BY <1>2, <2>1, <2>2, <2>11 DEF StoreInv, SeenKnown, Logged
  <2>14. EventsKnown'
    BY <1>2, <2>1 DEF StoreInv, EventsKnown, Logged
  <2>15. PagesKnown' /\ SendsKnown' /\ LinesKnown'
    BY <2>1 DEF StoreInv, PagesKnown, SendsKnown, LinesKnown, Users, Most, Logged
  <2>16. ListInv'
    BY <2>1, <2>4, <2>11 DEF ListInv
  <2>17. StrayInv'
    BY <1>5, <2>1, <2>11 DEF StoreInv, StrayInv
  <2>18. FetchInv'
    BY <2>1, <2>3 DEF StoreInv, FetchInv
  <2>19. NothingHidden'
    <3>1. SUFFICES ASSUME ~raced, NEW v \in seen', RoleOf(v) = "assistant" PROVE v \in Range(shown')
      BY <2>1, <2>3 DEF NothingHidden, RoleOf
    <3>2. CASE v \in seen
      BY <2>11, <3>1, <3>2 DEF StoreInv, NothingHidden
    <3>3. CASE v \notin seen
      BY <2>11, <3>1, <3>3
    <3> QED BY <3>2, <3>3
  <2>20. CountInv'
    <3>1. Caps' = Caps /\ Users(active)' = Users(active)
      BY <2>1 DEF Caps, Users
    <3>2. Counting => Counts(Users(active), Range(shown'), seen', Range(optimistic'), Caps,
                             Most(active))
      BY <2>5, <2>11
    <3> QED BY <2>1, <2>3, <3>1, <3>2 DEF CountInv, Most
  <2> QED BY <2>12, <2>13, <2>14, <2>15, <2>16, <2>17, <2>18, <2>19, <2>20 DEF StoreInv
<1> QED BY <1>4, <1>5

\* The server has more uuids, or has had to store or parse a line again; the browser has
\* not heard of it.
Grown ==
    /\ UNCHANGED <<active, shown, seen, optimistic, raced, ahead, stray, fetches, older, total,
                   paged, sends>>
    /\ remade \subseteq remade'
    /\ \A q \in Sessions : /\ Len(log[q]) \in Nat /\ Len(log'[q]) \in Nat
                           /\ Len(log[q]) <= Len(log'[q])
    /\ \A q \in Sessions : \A k \in 1 .. Len(log[q]) : log'[q][k] = log[q][k]

LEMMA GrownKeeps ==
    ASSUME StoreInv, Grown
    PROVE  SeenKnown' /\ PagesKnown' /\ ListInv' /\ StrayInv' /\ FetchInv' /\ NothingHidden'
<1>1. /\ UNCHANGED <<active, shown, seen, optimistic, raced, ahead, stray, fetches, older, total,
                     paged, sends>>
      /\ remade \subseteq remade'
      /\ \A q \in Sessions : /\ Len(log[q]) \in Nat /\ Len(log'[q]) \in Nat
                             /\ Len(log[q]) <= Len(log'[q])
      /\ \A q \in Sessions : \A k \in 1 .. Len(log[q]) : log'[q][k] = log[q][k]
  BY DEF Grown
<1>0. ASSUME NEW u \in Real, Logged(u) PROVE u[2] <= Len(log'[u[1]])
  <2>1. PICK q \in Sessions, k \in Nat : q = u[1] /\ k = u[2]
    BY UuidIs DEF Pos
  <2>2. k <= Len(log[q])
    BY <1>0, <2>1 DEF Logged
  <2>3. k <= Len(log'[q])
    BY <1>1, <2>2
  <2> QED BY <2>1, <2>3
<1>2. SeenKnown'
  <2>1. \A u \in seen : u[1] # "opt" => u \in Real /\ Logged(u)
    BY UuidIs DEF StoreInv, SeenKnown, StoreTypeOK
  <2>2. \A u \in seen : u[1] # "opt" => u[2] <= Len(log'[u[1]])
    BY <1>0, <2>1
  <2> QED BY <1>1, <2>2 DEF StoreInv, SeenKnown, Logged
<1>3. PagesKnown'
  <2>1. ASSUME NEW batch \in Seq(Real), NEW q \in Sessions, PageOf(batch, q, Len(log[q]), remade)
        PROVE  PageOf(batch, q, Len(log'[q]), remade')
    BY <1>1, <2>1, PageInLongerLog
  <2>2. ASSUME NEW i \in DOMAIN fetches
        PROVE  /\ PageOf(fetches[i].rows, fetches[i].s, Len(log'[fetches[i].s]), remade')
               /\ fetches[i].s \notin remade' => fetches[i].total <= Len(log'[fetches[i].s])
    <3>1. fetches[i] \in Fetch
      BY DEF StoreInv, StoreTypeOK
    <3>2. PICK batch \in Seq(Real), q \in Sessions, k \in Nat :
            batch = fetches[i].rows /\ q = fetches[i].s /\ k = fetches[i].total
      BY <3>1, FetchFields
    <3>3. PageOf(batch, q, Len(log[q]), remade) /\ (q \notin remade => k <= Len(log[q]))
      BY <3>2 DEF StoreInv, PagesKnown
    <3>4. PageOf(batch, q, Len(log'[q]), remade') /\ (q \notin remade' => k <= Len(log'[q]))
      BY <1>1, <2>1, <3>3
    <3> QED BY <3>2, <3>4
  <2>3. ASSUME older # Null PROVE PageOf(older.rows, older.s, Len(log'[older.s]), remade')
    <3>1. older \in OlderPage
      BY <2>3 DEF StoreInv, StoreTypeOK
    <3>2. PICK batch \in Seq(Real), q \in Sessions : batch = older.rows /\ q = older.s
      BY <3>1, OlderFields
    <3>3. PageOf(batch, q, Len(log[q]), remade)
      BY <2>3, <3>2 DEF StoreInv, PagesKnown
    <3>4. PageOf(batch, q, Len(log'[q]), remade')
      BY <2>1, <3>3
    <3> QED BY <3>2, <3>4
  <2>4. ASSUME paged # Null, paged \notin remade' PROVE total <= Len(log'[paged])
    <3>1. PICK q \in Sessions, k \in Nat : q = paged /\ k = total
      BY <2>4 DEF StoreInv, StoreTypeOK
    <3>2. k <= Len(log[q])
      BY <1>1, <2>4, <3>1 DEF StoreInv, PagesKnown
    <3>3. k <= Len(log'[q])
      BY <1>1, <3>2
    <3> QED BY <3>1, <3>3
  <2> QED BY <1>1, <2>2, <2>3, <2>4 DEF PagesKnown
<1>4. ListInv' /\ StrayInv'
  BY <1>1 DEF StoreInv, ListInv, StrayInv, Once
<1>5. ~stray /\ older # Null => /\ older.s = active /\ active \in Sessions /\ older.offset \in Nat
  <2>1. ~stray /\ older # Null => older.s = active /\ older \in OlderPage
    BY DEF StoreInv, StrayInv, StoreTypeOK
  <2> QED BY <2>1, OlderFields
<1>6. FetchInv'
  <2>1. ~raced /\ ~stray /\ older # Null /\ active \notin remade' => older.offset <= Len(log'[active])
    <3>1. SUFFICES ASSUME ~raced, ~stray, older # Null, active \notin remade' PROVE older.offset <= Len(log'[active])
      OBVIOUS
    <3>2. PICK q \in Sessions, k \in Nat : q = active /\ k = older.offset
      BY <1>5, <3>1
    <3>3. k <= Len(log[q])
      BY <1>1, <3>1, <3>2 DEF StoreInv, FetchInv
    <3>4. k <= Len(log'[q])
      BY <1>1, <3>3
    <3> QED BY <3>2, <3>4
  <2> QED BY <1>1, <2>1 DEF StoreInv, FetchInv
<1>7. NothingHidden'
  <2>1. ASSUME NEW u \in seen, u[1] # "opt" PROVE log'[u[1]][u[2]] = log[u[1]][u[2]]
    <3>1. u \in Real /\ Logged(u)
      BY <2>1, UuidIs DEF StoreInv, SeenKnown, StoreTypeOK
    <3>2. PICK q \in Sessions, k \in Pos : q = u[1] /\ k = u[2]
      BY <3>1, UuidIs
    <3>3. k \in 1 .. Len(log[q])
      BY <1>1, <3>1, <3>2 DEF Logged, Pos
    <3> QED BY <1>1, <3>2, <3>3
  <2>2. \A u \in seen : u[1] # "opt" => log'[u[1]][u[2]] = log[u[1]][u[2]]
    BY <2>1
  <2>3. ~raced => \A u \in seen : (IF u[1] = "opt" THEN "user" ELSE log'[u[1]][u[2]]) = "assistant"
                                      => u \in Range(shown)
    BY <2>2 DEF StoreInv, NothingHidden, RoleOf
  <2> QED BY <1>1, <2>3 DEF NothingHidden, RoleOf
<1> QED BY <1>2, <1>3, <1>4, <1>6, <1>7

LEMMA EventsKept ==
    ASSUME StoreInv, Grown, UNCHANGED <<recent, wire>>
    PROVE  EventsKnown' /\ recent' \in Seq(Real) /\ wire' \in Seq(Real)
<1>1. ASSUME NEW u \in Real, Logged(u) PROVE u[2] <= Len(log'[u[1]])
  <2>1. PICK q \in Sessions, k \in Nat : q = u[1] /\ k = u[2]
    BY UuidIs DEF Pos
  <2>2. k <= Len(log[q])
    BY <1>1, <2>1 DEF Logged
  <2>3. k <= Len(log'[q])
    BY <2>2 DEF Grown
  <2> QED BY <2>1, <2>3
<1>2. /\ recent \in Seq(Real) /\ wire \in Seq(Real)
      /\ \A i \in DOMAIN wire : Logged(wire[i])
      /\ \A i \in DOMAIN recent : Logged(recent[i])
  BY DEF StoreInv, StoreTypeOK, EventsKnown
<1>3. /\ \A i \in DOMAIN wire : wire[i][2] <= Len(log'[wire[i][1]])
      /\ \A i \in DOMAIN recent : recent[i][2] <= Len(log'[recent[i][1]])
  BY <1>1, <1>2
<1> QED BY <1>2, <1>3 DEF EventsKnown, Logged

\* What is pushed has a uuid the server gave out.
LEMMA PushKnown ==
    ASSUME StoreInv, Grown, NEW e \in Real, e[2] <= Len(log'[e[1]]),
           Push(e)
    PROVE  EventsKnown' /\ recent' \in Seq(Real) /\ wire' \in Seq(Real)
<1>1. PICK r \in Seq(Real), m \in Nat :
          r = Append(recent, e) /\ m = Min({Recent, Len(r)}) /\ m <= Len(r)
  <2>1. PICK r \in Seq(Real) : r = Append(recent, e)
    BY AppendProperties DEF StoreInv, StoreTypeOK
  <2>2. Min({Recent, Len(r)}) \in Nat /\ Min({Recent, Len(r)}) <= Len(r)
    BY MinOfTwo, StoreAssumption
  <2> QED BY <2>1, <2>2
<1>2. ASSUME NEW u \in Real, Logged(u) \/ u = e PROVE u[2] <= Len(log'[u[1]])
  <2>1. CASE u = e
    BY <2>1
  <2>2. CASE Logged(u)
    <3>1. PICK q \in Sessions, k \in Nat : q = u[1] /\ k = u[2]
      BY UuidIs DEF Pos
    <3>2. k <= Len(log[q])
      BY <2>2, <3>1 DEF Logged
    <3>3. k <= Len(log'[q])
      BY <3>2 DEF Grown
    <3> QED BY <3>1, <3>3
  <2> QED BY <1>2, <2>1, <2>2
<1>3. /\ recent' = SubSeq(r, Len(r) - m + 1, Len(r))
      /\ wire' = (IF status = "connected" THEN Append(wire, e) ELSE wire)
  BY <1>1 DEF Push
<1>4. /\ wire' \in Seq(Real) /\ recent' \in Seq(Real)
      /\ \A i \in DOMAIN wire' : Logged(wire'[i]) \/ wire'[i] = e
      /\ \A i \in DOMAIN recent' : Logged(recent'[i]) \/ recent'[i] = e
  <2>1. /\ recent \in Seq(Real) /\ wire \in Seq(Real)
        /\ \A i \in DOMAIN wire : Logged(wire[i])
        /\ \A i \in DOMAIN recent : Logged(recent[i])
    BY DEF StoreInv, StoreTypeOK, EventsKnown
  <2>2. ASSUME NEW q \in Seq(Real), \A i \in DOMAIN q : Logged(q[i])
        PROVE  \A i \in DOMAIN Append(q, e) : Logged(Append(q, e)[i]) \/ Append(q, e)[i] = e
    <3>0. PICK k \in Nat : k = Len(q)
      OBVIOUS
    <3>1. PICK t \in Seq(Real) : t = Append(q, e)
      BY AppendProperties
    <3>2. Len(t) = k + 1 /\ t[k + 1] = e /\ \A i \in 1 .. k : t[i] = q[i]
      BY <3>0, <3>1, AppendProperties
    <3>3. DOMAIN t = 1 .. k + 1 /\ DOMAIN q = 1 .. k
      BY <3>0, <3>2
    <3>4. \A i \in 1 .. k + 1 : i \in 1 .. k \/ i = k + 1
      OBVIOUS
    <3> QED BY <2>2, <3>1, <3>2, <3>3, <3>4
  <2>3. \A i \in DOMAIN r : Logged(r[i]) \/ r[i] = e
    BY <1>1, <2>1, <2>2
  <2>4. /\ recent' \in Seq(Real)
        /\ \A i \in DOMAIN recent' : \E j \in DOMAIN r : recent'[i] = r[j]
    <3>1. PICK start, t : start = Len(r) - m + 1 /\ t = SubSeq(r, start, Len(r))
      OBVIOUS
    <3>2. t \in Seq(Real) /\ \A i \in DOMAIN t : \E j \in DOMAIN r : t[i] = r[j]
      <4>1. m <= Len(r)
        BY <1>1
      <4>2. start = Len(r) - m + 1 /\ t = SubSeq(r, start, Len(r))
        BY <3>1
      <4>3. /\ r \in Seq(Real) /\ m \in Nat
        BY <1>1
      <4> QED BY <4>1, <4>2, <4>3, LastOf
    <3>3. recent' = t
      BY <1>3, <3>1
    <3> QED BY <3>2, <3>3
  <2>5. wire' \in Seq(Real)
    BY <1>3, <2>1, AppendProperties
  <2>6. \A i \in DOMAIN wire' : Logged(wire'[i]) \/ wire'[i] = e
    BY <1>3, <2>1, <2>2
  <2> QED BY <2>3, <2>4, <2>5, <2>6
<1>5. /\ \A i \in DOMAIN wire' : wire'[i][2] <= Len(log'[wire'[i][1]])
      /\ \A i \in DOMAIN recent' : recent'[i][2] <= Len(log'[recent'[i][1]])
  BY <1>2, <1>4
<1> QED BY <1>4, <1>5 DEF EventsKnown, Logged

\* A row more of the cache.
LEMMA RowMore ==
    ASSUME NEW c \in Seq(Pos), NEW m \in Nat, NEW n \in Nat, m <= n, NEW x \in Pos, x <= n,
           \A i \in DOMAIN c : c[i] <= m
    PROVE  /\ Append(c, x) \in Seq(Pos)
           /\ \A i \in DOMAIN Append(c, x) : Append(c, x)[i] <= n
<1>1. PICK k \in Nat : k = Len(c)
  OBVIOUS
<1>2. PICK t \in Seq(Pos) : t = Append(c, x)
  BY AppendProperties
<1>3. Len(t) = k + 1 /\ t[k + 1] = x /\ \A i \in 1 .. k : t[i] = c[i]
  BY <1>1, <1>2, AppendProperties
<1>4. DOMAIN t = 1 .. k + 1 /\ DOMAIN c = 1 .. k
  BY <1>1, <1>3
<1>5. ASSUME NEW i \in 1 .. k + 1 PROVE t[i] <= n
  <2>1. CASE i = k + 1
    BY <1>3, <2>1
  <2>2. CASE i \in 1 .. k
    <3>1. t[i] = c[i] /\ c[i] <= m /\ c[i] \in Nat
      BY <1>3, <1>4, <2>2 DEF Pos
    <3> QED BY <3>1
  <2> QED BY <2>1, <2>2
<1> QED BY <1>2, <1>4, <1>5

LEMMA RowNext ==
    ASSUME NEW c \in Seq(Pos), NEW n \in Nat, c = [i \in 1 .. n |-> i]
    PROVE  Append(c, n + 1) = [i \in 1 .. n + 1 |-> i]
<1>1. Len(c) = n /\ \A i \in 1 .. n : c[i] = i
  OBVIOUS
<1>2. PICK t \in Seq(Pos) : t = Append(c, n + 1)
  <2>1. PICK k \in Pos : k = n + 1
    BY DEF Pos
  <2>2. Append(c, k) \in Seq(Pos)
    BY AppendProperties
  <2> QED BY <2>1, <2>2
<1>3. Len(t) = n + 1 /\ t[n + 1] = n + 1 /\ \A i \in 1 .. n : t[i] = c[i]
  BY <1>1, <1>2, AppendProperties
<1>4. \A i \in 1 .. n + 1 : t[i] = i
  BY <1>1, <1>3
<1>5. t = [i \in 1 .. n + 1 |-> t[i]]
  BY <1>3
<1> QED BY <1>2, <1>4, <1>5

\* A new message is beyond what any page under way may bring by its offset, so that
\* nothing counted changes before it arrives.
LEMMA MoreExpected ==
    ASSUME NEW users, NEW show, NEW known, NEW waiting, NEW caps, NEW most \in Nat,
           NEW most2 \in Nat, most <= most2, Bounded(users, show),
           Counts(users, show, known, waiting, caps, most)
    PROVE  Counts(users, show, known, waiting, caps, most2)
BY StillCounts

LEMMA LogKeeps ==
    ASSUME StoreInv, NEW s \in Sessions, NEW role \in {"user", "assistant"}, NEW pushed \in BOOLEAN,
           ServerLogs(s, role, pushed)
    PROVE  StoreInv'
<1>1. PICK n \in Nat : n = Len(log[s])
  BY DEF StoreInv, StoreTypeOK
<1>2. PICK e : e = <<s, n + 1>>
  OBVIOUS
<1>3. e \in Real /\ e[1] = s /\ e[2] = n + 1
  BY <1>2 DEF Real, Pos
<1>5. /\ Comes(s, role)
      /\ file' = [file EXCEPT ![s] = Append(@, role)]
      /\ log' = [log EXCEPT ![s] = Append(@, role)]
      /\ cache' = [cache EXCEPT ![s] = Append(@, n + 1)]
      /\ Push(e) \/ UNCHANGED <<recent, wire>>
      /\ UNCHANGED <<remade, active, shown, seen, optimistic, raced, ahead, stray, fetches, older,
                     total, paged, sends>>
  BY <1>1, <1>2 DEF ServerLogs, view, page
<1>6. /\ log' \in [Sessions -> Seq({"user", "assistant"})]
      /\ Len(log'[s]) = n + 1 /\ log'[s] = Append(log[s], role)
      /\ \A q \in Sessions : q # s => log'[q] = log[q]
      /\ \A q \in Sessions : /\ Len(log[q]) \in Nat /\ Len(log'[q]) \in Nat
                             /\ Len(log[q]) <= Len(log'[q])
      /\ \A q \in Sessions : \A k \in 1 .. Len(log[q]) : log'[q][k] = log[q][k]
  <2>1. PICK old, new : old = log /\ new = log'
    OBVIOUS
  <2>2. /\ old \in [Sessions -> Seq({"user", "assistant"})] /\ n = Len(old[s])
        /\ new = [old EXCEPT ![s] = Append(@, role)]
    BY <1>1, <1>5, <2>1 DEF StoreInv, StoreTypeOK
  <2>3. /\ new \in [Sessions -> Seq({"user", "assistant"})]
        /\ Len(new[s]) = n + 1 /\ new[s] = Append(old[s], role)
        /\ \A q \in Sessions : q # s => new[q] = old[q]
        /\ \A q \in Sessions : /\ Len(old[q]) \in Nat /\ Len(new[q]) \in Nat
                               /\ Len(old[q]) <= Len(new[q])
        /\ \A q \in Sessions : \A k \in 1 .. Len(old[q]) : new[q][k] = old[q][k]
    BY <2>2, LogGrows
  <2> QED BY <2>1, <2>3
<1>7. Grown
  BY <1>5, <1>6 DEF Grown
<1>8. EventsKnown' /\ recent' \in Seq(Real) /\ wire' \in Seq(Real)
  BY <1>3, <1>5, <1>6, <1>7, EventsKept, PushKnown
<1>9. LinesKnown' /\ cache' \in [Sessions -> Seq(Pos)]
                  /\ file' \in [Sessions -> Seq({"user", "assistant"})]
  <2>1. PICK c \in Seq(Pos) : c = cache[s] /\ \A i \in DOMAIN c : c[i] <= n
    BY <1>1 DEF StoreInv, StoreTypeOK, LinesKnown
  <2>2. PICK c2 \in Seq(Pos) : c2 = Append(c, n + 1) /\ \A i \in DOMAIN c2 : c2[i] <= n + 1
    <3>1. PICK k : k = n + 1 /\ k \in Pos /\ k \in Nat /\ n <= k /\ k <= k
      BY DEF Pos
    <3>2. Append(c, k) \in Seq(Pos) /\ \A i \in DOMAIN Append(c, k) : Append(c, k)[i] <= k
      BY <2>1, <3>1, RowMore
    <3> QED BY <3>1, <3>2
  <2>3. PICK f2 \in Seq({"user", "assistant"}) : f2 = Append(file[s], role)
    BY AppendProperties DEF StoreInv, StoreTypeOK
  <2>4. /\ cache' \in [Sessions -> Seq(Pos)] /\ cache'[s] = c2
        /\ \A q \in Sessions : q # s => cache'[q] = cache[q] /\ file'[q] = file[q]
        /\ file' \in [Sessions -> Seq({"user", "assistant"})] /\ file'[s] = f2
    BY <1>5, <2>1, <2>2, <2>3 DEF StoreInv, StoreTypeOK
  <2>5. s \notin remade => c2 = [i \in 1 .. n + 1 |-> i]
    <3>1. s \notin remade => c = [i \in 1 .. n |-> i]
      BY <1>1, <2>1 DEF StoreInv, LinesKnown
    <3> QED BY <2>2, <3>1, RowNext
  <2>6. s \in Claude => log'[s] = f2
    BY <1>6, <2>3 DEF StoreInv, LinesKnown
  <2>7. ASSUME NEW q \in Sessions
        PROVE  /\ \A i \in DOMAIN cache'[q] : cache'[q][i] <= Len(log'[q])
               /\ q \notin remade => cache'[q] = [i \in 1 .. Len(log'[q]) |-> i]
               /\ q \in Claude => log'[q] = file'[q]
    <3>1. CASE q = s
      BY <1>6, <2>2, <2>4, <2>5, <2>6, <3>1
    <3>2. CASE q # s
      BY <1>6, <2>4, <3>2 DEF StoreInv, LinesKnown
    <3> QED BY <3>1, <3>2
  <2> QED BY <1>5, <2>4, <2>7 DEF LinesKnown
<1>10. /\ asked' \in [Sessions -> Nat] /\ others' \in [Sessions -> Nat]
       /\ \A q \in Sessions : q # s => asked'[q] = asked[q] /\ others'[q] = others[q]
       /\ asked[s] \in Nat /\ asked'[s] \in Nat
       /\ \A q \in Sessions : others[q] \in Nat /\ others'[q] \in Nat /\ others[q] <= others'[q]
       /\ role = "user" => asked[s] + others'[s] = asked'[s] + others[s] + 1
       /\ role # "user" => asked'[s] = asked[s] /\ others'[s] = others[s]
  <2>1. /\ asked \in [Sessions -> Nat] /\ others \in [Sessions -> Nat]
        /\ \A q \in Sessions : asked[q] \in Nat /\ others[q] \in Nat
    BY DEF StoreInv, StoreTypeOK
  <2>2. CASE role = "assistant" /\ UNCHANGED <<asked, others>>
    BY <2>1, <2>2
  <2>3. CASE /\ role = "user" /\ asked[s] > 0
             /\ asked' = [asked EXCEPT ![s] = @ - 1] /\ UNCHANGED others
    <3>1. PICK a \in Nat : a = asked[s] /\ a > 0
      BY <2>1, <2>3
    <3>2. a - 1 \in Nat
      BY <3>1
    <3>3. /\ asked' \in [Sessions -> Nat] /\ asked'[s] = a - 1
          /\ \A q \in Sessions : q # s => asked'[q] = asked[q]
      BY <2>1, <2>3, <3>1, <3>2
    <3>4. PICK o \in Nat : o = others[s] /\ o = others'[s]
      BY <2>1, <2>3
    <3>5. a + o = (a - 1) + o + 1
      BY <3>1
    <3> QED BY <2>1, <2>3, <3>1, <3>2, <3>3, <3>4, <3>5
  <2>4. CASE role = "user" /\ others' = [others EXCEPT ![s] = @ + 1] /\ UNCHANGED asked
    <3>1. PICK o \in Nat, a \in Nat : o = others[s] /\ a = asked[s] /\ a = asked'[s]
      BY <2>1, <2>4
    <3>2. /\ others' \in [Sessions -> Nat] /\ others'[s] = o + 1
          /\ \A q \in Sessions : q # s => others'[q] = others[q]
      BY <2>1, <2>4, <3>1
    <3>3. ASSUME NEW q \in Sessions
          PROVE  others[q] \in Nat /\ others'[q] \in Nat /\ others[q] <= others'[q]
      BY <2>1, <3>1, <3>2
    <3>4. a + (o + 1) = a + o + 1
      OBVIOUS
    <3> QED BY <2>1, <2>4, <3>1, <3>2, <3>3, <3>4
  <2> QED BY <1>5, <2>2, <2>3, <2>4 DEF Comes
<1>11. StoreTypeOK'
  BY <1>5, <1>6, <1>8, <1>9, <1>10 DEF StoreInv, StoreTypeOK
<1>12. SeenKnown' /\ PagesKnown' /\ ListInv' /\ StrayInv' /\ FetchInv' /\ NothingHidden'
  BY <1>7, GrownKeeps
<1>14. PICK before, after : before = UsersIn(log[s], s) /\ after = UsersIn(log'[s], s)
  OBVIOUS
<1>15. /\ role # "user" => after = before
       /\ role = "user" => after = before \cup {e}
  <2>1. log[s] \in Seq({"user", "assistant"})
    BY DEF StoreInv, StoreTypeOK
  <2> QED BY <1>1, <1>2, <1>6, <1>14, <2>1, UsersGrow
<1>16. IsFiniteSet(before) /\ \A u \in before : u[2] <= n /\ u[2] \in Nat
  <2>1. IsFiniteSet(before)
    BY <1>14, UsersFinite DEF StoreInv, StoreTypeOK
  <2>2. \A u \in before : u[2] \in 1 .. n
    BY <1>1, <1>14 DEF UsersIn
  <2>3. \A k \in 1 .. n : k <= n /\ k \in Nat
    BY <1>1
  <2> QED BY <2>1, <2>2, <2>3
<1>17. e \notin before
  BY <1>3, <1>16
<1>18. SendsKnown'
  <2>1. \A q \in Sessions : q \notin remade =>
            Cardinality(UsersIn(log[q], q)) + asked[q] <= sends[q] + others[q]
    BY DEF StoreInv, SendsKnown, Users, Most
  <2>2. s \notin remade => Cardinality(after) + asked'[s] <= sends[s] + others'[s]
    <3>1. PICK k \in Nat, b \in Nat : k = Cardinality(before) /\ b = sends[s]
      BY <1>16, FS_CardinalityType DEF StoreInv, StoreTypeOK
    <3>2. PICK a \in Nat, a2 \in Nat, o \in Nat, o2 \in Nat :
              a = asked[s] /\ a2 = asked'[s] /\ o = others[s] /\ o2 = others'[s]
      BY <1>10
    <3>3. s \notin remade => k + a <= b + o
      BY <1>14, <2>1, <3>1, <3>2
    <3>4. CASE role = "user"
      <4>1. Cardinality(after) = k + 1
        BY <1>15, <1>16, <1>17, <3>1, <3>4, FS_AddElement
      <4>2. a + o2 = a2 + o + 1
        BY <1>10, <3>2, <3>4
      <4>3. k + a <= b + o => (k + 1) + a2 <= b + o2
        BY <4>2
      <4> QED BY <3>1, <3>2, <3>3, <4>1, <4>3
    <3>5. CASE role # "user"
      BY <1>10, <1>15, <3>1, <3>2, <3>3, <3>5
    <3> QED BY <3>4, <3>5
  <2>3. ASSUME NEW q \in Sessions, q \notin remade
        PROVE  Cardinality(UsersIn(log'[q], q)) + asked'[q] <= sends[q] + others'[q]
    <3>1. CASE q = s
      BY <1>14, <2>2, <2>3, <3>1
    <3>2. CASE q # s
      BY <1>6, <1>10, <2>1, <2>3, <3>2
    <3> QED BY <3>1, <3>2
  <2> QED BY <1>5, <2>3 DEF SendsKnown, Users, Most
<1>23. CountInv'
  <2>0. active # Null => Most(active) \in Nat /\ Most(active)' \in Nat /\ Most(active) <= Most(active)'
    <3>1. SUFFICES ASSUME active # Null
          PROVE  Most(active) \in Nat /\ Most(active)' \in Nat /\ Most(active) <= Most(active)'
      OBVIOUS
    <3>2. PICK a \in Sessions : a = active /\ active' = a
      BY <1>5, <3>1 DEF StoreInv, StoreTypeOK
    <3>3. PICK b \in Nat, o \in Nat, o2 \in Nat :
              b = sends[a] /\ sends'[a] = b /\ o = others[a] /\ o2 = others'[a] /\ o <= o2
      BY <1>5, <1>10 DEF StoreInv, StoreTypeOK
    <3>4. b + o \in Nat /\ b + o2 \in Nat /\ b + o <= b + o2
      BY <3>3
    <3> QED BY <3>2, <3>3, <3>4 DEF Most
  <2>1. SUFFICES ASSUME active # Null, active \notin remade, ~raced, ~ahead, ~stray
        PROVE  Counts(UsersIn(log'[active], active), Range(shown), seen, Range(optimistic), Caps,
                      Most(active)')
    BY <1>5 DEF CountInv, Caps, Users
  <2>2. Counts(UsersIn(log[active], active), Range(shown), seen, Range(optimistic), Caps,
               Most(active))
    BY <2>1 DEF StoreInv, CountInv, Users
  <2>3. active \in Sessions
    BY <2>1 DEF StoreInv, StoreTypeOK
  <2>9. PICK most \in Nat, most2 \in Nat :
            most = Most(active) /\ most2 = Most(active)' /\ most <= most2
    BY <2>0, <2>1
  <2>10. Bounded(UsersIn(log[active], active), Range(shown))
    BY <2>3, BoundedLists DEF StoreInv, StoreTypeOK
  <2>4. CASE active # s \/ role # "user"
    <3>1. UsersIn(log'[active], active) = UsersIn(log[active], active)
      BY <1>6, <1>14, <1>15, <2>3, <2>4
    <3>2. PICK users, show, known, waiting, caps :
              /\ users = UsersIn(log[active], active) /\ show = Range(shown) /\ known = seen
              /\ waiting = Range(optimistic) /\ caps = Caps
      OBVIOUS
    <3>3. Counts(users, show, known, waiting, caps, most)
      BY <2>2, <2>9, <3>2
    <3>4. Counts(users, show, known, waiting, caps, most2)
      BY <2>9, <2>10, <3>2, <3>3, MoreExpected
    <3> QED BY <2>9, <3>1, <3>2, <3>4
  <2>5. CASE active = s /\ role = "user"
    <3>1. PICK show, known, waiting, caps :
              /\ show = Range(shown) /\ known = seen /\ waiting = Range(optimistic)
              /\ caps = Caps
      OBVIOUS
    <3>2. e \notin known /\ e \notin show
      <4>1. e \notin seen
        <5>1. e \in seen => e[2] <= Len(log[e[1]])
          BY <1>3, UuidIs DEF StoreInv, SeenKnown, Logged
        <5> QED BY <1>1, <1>3, <5>1
      <4> QED BY <3>1, <4>1 DEF StoreInv, ListInv
    <3>3. \A k \in caps : k \in Nat /\ k <= n
      <4>1. 0 <= n
        OBVIOUS
      <4>2. older # Null => older.offset <= n
        BY <1>1, <2>1, <2>5 DEF StoreInv, FetchInv
      <4>3. paged = active => total <= n
        BY <1>1, <2>1, <2>5 DEF StoreInv, PagesKnown
      <4> QED BY <3>1, <4>1, <4>2, <4>3 DEF Caps
    <3>4. \A k \in caps : ~(e[2] <= k)
      BY <1>3, <3>3
    <3>5. /\ \A k \in caps : Counted(after, show, known, k) = Counted(before, show, known, k)
          /\ Hidden(after, show, known) = Hidden(before, show, known)
      BY <1>15, <2>5, <3>2, <3>4 DEF Counted, Hidden
    <3>6. Counts(before, show, known, waiting, caps, most)
      BY <1>14, <2>2, <2>5, <2>9, <3>1
    <3>7. Counts(after, show, known, waiting, caps, most)
      BY <3>5, <3>6 DEF Counts
    <3>8. Bounded(after, show)
      BY <1>14, <1>15, <1>16, <2>10, <2>5, <3>1, FS_AddElement DEF Bounded
    <3>9. Counts(after, show, known, waiting, caps, most2)
      BY <2>9, <3>7, <3>8, MoreExpected
    <3> QED BY <1>14, <2>5, <2>9, <3>1, <3>9
  <2> QED BY <2>4, <2>5
<1> QED BY <1>8, <1>9, <1>11, <1>12, <1>18, <1>23 DEF StoreInv

\* A line stored or parsed once more changes nothing the browser knows, and what is said of
\* the session's lines no longer holds of it.
LEMMA RemadeKeeps ==
    ASSUME StoreInv, Grown, StoreTypeOK', LinesKnown', EventsKnown', UNCHANGED <<asked, others>>,
           \A q \in Sessions : q \notin remade' => log'[q] = log[q]
    PROVE  StoreInv'
<1>1. SeenKnown' /\ PagesKnown' /\ ListInv' /\ StrayInv' /\ FetchInv' /\ NothingHidden'
  BY GrownKeeps
<1>2. \A q \in Sessions : q \notin remade' => q \notin remade /\ log'[q] = log[q]
  BY DEF Grown
<1>3. SendsKnown'
  <2>1. ASSUME NEW q \in Sessions, q \notin remade'
        PROVE  Cardinality(UsersIn(log'[q], q)) + asked[q] <= sends[q] + others[q]
    BY <1>2, <2>1 DEF StoreInv, SendsKnown, Users, Most
  <2> QED BY <2>1 DEF SendsKnown, Users, Most, Grown
<1>4. CountInv'
  <2>1. SUFFICES ASSUME active # Null, active \notin remade', ~raced, ~ahead, ~stray
        PROVE  Counts(UsersIn(log'[active], active), Range(shown), seen, Range(optimistic), Caps,
                      Most(active))
    BY DEF CountInv, Caps, Users, Most, Grown
  <2>2. active \in Sessions
    BY <2>1 DEF StoreInv, StoreTypeOK
  <2>3. active \notin remade /\ log'[active] = log[active]
    BY <1>2, <2>1, <2>2
  <2> QED BY <2>1, <2>3 DEF StoreInv, CountInv, Users
<1> QED BY <1>1, <1>3, <1>4 DEF StoreInv

LEMMA StoredAgainKeeps ==
    ASSUME StoreInv, NEW s \in Sessions, NEW n \in DOMAIN file[s], StoredAgain(s, n)
    PROVE  StoreInv'
<1>1. PICK m \in Nat, l \in Nat : m = Len(log[s]) /\ l = Len(file[s])
  BY DEF StoreInv, StoreTypeOK
<1>2. n \in Pos /\ n \in Nat /\ n <= l /\ file[s][n] \in {"user", "assistant"}
  <2>1. file[s] \in Seq({"user", "assistant"})
    BY DEF StoreInv, StoreTypeOK
  <2>2. n \in 1 .. l
    BY <1>1, <2>1
  <2> QED BY <2>1, <2>2 DEF Pos
<1>3. PICK k \in Pos : k = IF s \in Claude THEN n ELSE m + 1
  BY <1>2 DEF Pos
<1>4. /\ log' = IF s \in Claude THEN log ELSE [log EXCEPT ![s] = Append(@, file[s][n])]
      /\ cache' = [cache EXCEPT ![s] = Append(@, k)]
      /\ remade' = remade \cup {s}
      /\ Push(<<s, k>>)
      /\ UNCHANGED <<file, asked, others, active, shown, seen, optimistic, raced, ahead, stray,
                     fetches, older, total, paged, sends>>
  BY <1>1, <1>3 DEF StoredAgain, view, page
<1>5. /\ log' \in [Sessions -> Seq({"user", "assistant"})]
      /\ k <= Len(log'[s]) /\ m <= Len(log'[s]) /\ Len(log'[s]) \in Nat /\ k \in Nat
      /\ \A q \in Sessions : q # s => log'[q] = log[q]
      /\ \A q \in Sessions : /\ Len(log[q]) \in Nat /\ Len(log'[q]) \in Nat
                             /\ Len(log[q]) <= Len(log'[q])
      /\ \A q \in Sessions : \A j \in 1 .. Len(log[q]) : log'[q][j] = log[q][j]
      /\ s \in Claude => log' = log
  <2>1. CASE s \in Claude
    <3>1. log' = log /\ k = n /\ l = m
      BY <1>1, <1>3, <1>4, <2>1 DEF StoreInv, LinesKnown
    <3>6. log \in [Sessions -> Seq({"user", "assistant"})]
      BY DEF StoreInv, StoreTypeOK
    <3>7. ASSUME NEW q \in Sessions PROVE Len(log[q]) \in Nat /\ Len(log[q]) <= Len(log[q])
      <4>1. PICK j \in Nat : j = Len(log[q])
        BY <3>6
      <4> QED BY <4>1
    <3>2. /\ log \in [Sessions -> Seq({"user", "assistant"})]
          /\ \A q \in Sessions : Len(log[q]) \in Nat /\ Len(log[q]) <= Len(log[q])
      BY <3>6, <3>7
    <3>3. k <= m /\ m <= m /\ k \in Nat /\ m \in Nat
      BY <1>1, <1>2, <3>1
    <3>4. Len(log'[s]) = m
      BY <1>1, <3>1
    <3>5. \A q \in Sessions : log'[q] = log[q]
      BY <3>1
    <3> QED BY <3>1, <3>2, <3>3, <3>4, <3>5
  <2>2. CASE s \notin Claude
    <3>5. PICK role \in {"user", "assistant"} : role = file[s][n]
      BY <1>2
    <3>6. PICK old, new : old = log /\ new = log'
      OBVIOUS
    <3>1. old = log /\ new = log' /\ role = file[s][n]
      BY <3>5, <3>6
    <3>2. /\ old \in [Sessions -> Seq({"user", "assistant"})] /\ m = Len(old[s])
          /\ new = [old EXCEPT ![s] = Append(@, role)]
      BY <1>1, <1>4, <2>2, <3>1 DEF StoreInv, StoreTypeOK
    <3>3. /\ new \in [Sessions -> Seq({"user", "assistant"})]
          /\ Len(new[s]) = m + 1
          /\ \A q \in Sessions : q # s => new[q] = old[q]
          /\ \A q \in Sessions : /\ Len(old[q]) \in Nat /\ Len(new[q]) \in Nat
                                 /\ Len(old[q]) <= Len(new[q])
          /\ \A q \in Sessions : \A j \in 1 .. Len(old[q]) : new[q][j] = old[q][j]
      BY <3>2, LogGrows
    <3>4. k = m + 1 /\ k <= m + 1 /\ m <= m + 1 /\ m + 1 \in Nat
      BY <1>3, <2>2
    <3> QED BY <2>2, <3>1, <3>3, <3>4
  <2> QED BY <2>1, <2>2
<1>6. Grown
  BY <1>4, <1>5 DEF Grown
<1>7. EventsKnown' /\ recent' \in Seq(Real) /\ wire' \in Seq(Real)
  <2>1. PICK e : e = <<s, k>>
    OBVIOUS
  <2>2. e \in Real /\ e[1] = s /\ e[2] = k
    BY <2>1 DEF Real
  <2> QED BY <1>4, <1>5, <1>6, <2>1, <2>2, PushKnown
<1>8. LinesKnown' /\ cache' \in [Sessions -> Seq(Pos)]
  <2>1. PICK c \in Seq(Pos) : c = cache[s] /\ \A i \in DOMAIN c : c[i] <= m
    BY <1>1 DEF StoreInv, StoreTypeOK, LinesKnown
  <2>2. PICK top \in Nat : top = Len(log'[s]) /\ m <= top /\ k <= top
    BY <1>5
  <2>3. PICK c2 \in Seq(Pos) : c2 = Append(c, k) /\ \A i \in DOMAIN c2 : c2[i] <= top
    <3>1. Append(c, k) \in Seq(Pos) /\ \A i \in DOMAIN Append(c, k) : Append(c, k)[i] <= top
      BY <2>1, <2>2, RowMore
    <3> QED BY <3>1
  <2>4. /\ cache' \in [Sessions -> Seq(Pos)] /\ cache'[s] = c2
        /\ \A q \in Sessions : q # s => cache'[q] = cache[q]
    BY <1>4, <2>1, <2>3 DEF StoreInv, StoreTypeOK
  <2>5. ASSUME NEW q \in Sessions
        PROVE  /\ \A i \in DOMAIN cache'[q] : cache'[q][i] <= Len(log'[q])
               /\ q \notin remade' => cache'[q] = [i \in 1 .. Len(log'[q]) |-> i]
               /\ q \in Claude => log'[q] = file[q]
    <3>1. CASE q = s
      BY <1>4, <1>5, <2>2, <2>3, <2>4, <3>1 DEF StoreInv, LinesKnown
    <3>2. CASE q # s
      BY <1>4, <1>5, <2>4, <3>2 DEF StoreInv, LinesKnown
    <3> QED BY <3>1, <3>2
  <2> QED BY <1>4, <2>4, <2>5 DEF LinesKnown
<1>9. StoreTypeOK'
  BY <1>4, <1>5, <1>7, <1>8 DEF StoreInv, StoreTypeOK
<1>10. \A q \in Sessions : q \notin remade' => log'[q] = log[q]
  BY <1>4, <1>5
<1> QED BY <1>4, <1>6, <1>7, <1>8, <1>9, <1>10, RemadeKeeps

LEMMA LinesAfter ==
    ASSUME NEW S, NEW a \in Seq(S), NEW b \in Seq(S), NEW m \in Nat, NEW l \in Nat,
           m = Len(a), l = Len(b)
    PROVE  /\ a \o b \in Seq(S) /\ Len(a \o b) = m + l /\ m <= m + l
           /\ \A j \in 1 .. m : (a \o b)[j] = a[j]
<1>1. PICK c \in Seq(S) : c = a \o b
  BY ConcatProperties
<1>2. /\ Len(c) = m + l
      /\ \A j \in 1 .. m + l : c[j] = IF j <= m THEN a[j] ELSE b[j - m]
  BY <1>1, ConcatProperties
<1>3. m <= m + l /\ \A j \in 1 .. m : j \in 1 .. m + l /\ j <= m
  OBVIOUS
<1>4. \A j \in 1 .. m : c[j] = a[j]
  BY <1>2, <1>3
<1> QED BY <1>1, <1>2, <1>3, <1>4

LEMMA ParsedAnewKeeps == ASSUME StoreInv, NEW s \in Sessions, ParsedAnew(s) PROVE StoreInv'
<1>1. PICK old \in Seq({"user", "assistant"}), lines2 \in Seq({"user", "assistant"}),
           m \in Nat, l \in Nat :
          old = log[s] /\ lines2 = file[s] /\ m = Len(old) /\ l = Len(lines2)
  BY DEF StoreInv, StoreTypeOK
<1>2. PICK first \in Nat : first = IF s \in Claude THEN 0 ELSE m
  OBVIOUS
<1>3. PICK c : c = [n \in 1 .. l |-> first + n]
  OBVIOUS
<1>4. /\ log' = IF s \in Claude THEN log ELSE [log EXCEPT ![s] = @ \o file[s]]
      /\ cache' = [cache EXCEPT ![s] = c]
      /\ remade' = IF s \in Claude THEN remade ELSE remade \cup {s}
      /\ UNCHANGED <<file, asked, others, recent, wire, active, shown, seen, optimistic, raced,
                     ahead, stray, fetches, older, total, paged, sends>>
  BY <1>1, <1>2, <1>3 DEF ParsedAnew, view, page
<1>5. PICK new \in Seq({"user", "assistant"}) :
          /\ new = IF s \in Claude THEN old ELSE old \o lines2
          /\ Len(new) = first + l /\ m <= first + l
          /\ \A j \in 1 .. m : new[j] = old[j]
  <2>1. CASE s \in Claude
    <3>1. old = lines2
      BY <1>1, <2>1 DEF StoreInv, LinesKnown
    <3> QED BY <1>1, <1>2, <2>1, <3>1
  <2>2. CASE s \notin Claude
    <3>1. PICK new \in Seq({"user", "assistant"}) :
              /\ new = old \o lines2 /\ Len(new) = m + l /\ m <= m + l
              /\ \A j \in 1 .. m : new[j] = old[j]
      <4>1. /\ old \o lines2 \in Seq({"user", "assistant"})
            /\ Len(old \o lines2) = m + l /\ m <= m + l
            /\ \A j \in 1 .. m : (old \o lines2)[j] = old[j]
        <5>1. PICK roles : roles = {"user", "assistant"}
          OBVIOUS
        <5>2. old \in Seq(roles) /\ lines2 \in Seq(roles) /\ m = Len(old) /\ l = Len(lines2)
          BY <1>1, <5>1
        <5>3. /\ old \o lines2 \in Seq(roles)
              /\ Len(old \o lines2) = m + l /\ m <= m + l
              /\ \A j \in 1 .. m : (old \o lines2)[j] = old[j]
          BY <5>2, LinesAfter
        <5> QED BY <5>1, <5>3
      <4> QED BY <4>1
    <3>2. first = m
      BY <1>2, <2>2
    <3> QED BY <2>2, <3>1, <3>2
  <2> QED BY <2>1, <2>2
<1>6. /\ log' \in [Sessions -> Seq({"user", "assistant"})] /\ log'[s] = new
      /\ \A q \in Sessions : q # s => log'[q] = log[q]
  <2>1. CASE s \in Claude
    BY <1>1, <1>4, <1>5, <2>1 DEF StoreInv, StoreTypeOK
  <2>2. CASE s \notin Claude
    BY <1>1, <1>4, <1>5, <2>2 DEF StoreInv, StoreTypeOK
  <2> QED BY <2>1, <2>2
<1>7. ASSUME NEW q \in Sessions
      PROVE  /\ Len(log[q]) \in Nat /\ Len(log'[q]) \in Nat /\ Len(log[q]) <= Len(log'[q])
             /\ \A j \in 1 .. Len(log[q]) : log'[q][j] = log[q][j]
  <2>1. CASE q = s
    <3>1. Len(log[q]) = m /\ log'[q] = new /\ log[q] = old
      BY <1>1, <1>6, <2>1
    <3>2. PICK top \in Nat : top = first + l
      OBVIOUS
    <3> QED BY <1>5, <3>1, <3>2
  <2>2. CASE q # s
    <3>1. log'[q] = log[q]
      BY <1>6, <2>2
    <3>2. Len(log[q]) \in Nat
      BY DEF StoreInv, StoreTypeOK
    <3> QED BY <3>1, <3>2
  <2> QED BY <2>1, <2>2
<1>8. Grown
  BY <1>4, <1>7 DEF Grown
<1>9. EventsKnown' /\ recent' \in Seq(Real) /\ wire' \in Seq(Real)
  BY <1>4, <1>8, EventsKept
<1>10. c \in Seq(Pos) /\ DOMAIN c = 1 .. l /\ \A i \in 1 .. l : c[i] = first + i
  <2>1. \A i \in 1 .. l : c[i] = first + i /\ first + i \in Pos
    BY <1>3 DEF Pos
  <2>2. c = [i \in 1 .. l |-> c[i]]
    BY <1>3
  <2> QED BY <1>3, <2>1, <2>2, MadeSeq
<1>11. LinesKnown' /\ cache' \in [Sessions -> Seq(Pos)]
  <2>1. /\ cache' \in [Sessions -> Seq(Pos)] /\ cache'[s] = c
        /\ \A q \in Sessions : q # s => cache'[q] = cache[q]
    BY <1>4, <1>10 DEF StoreInv, StoreTypeOK
  <2>2. \A i \in DOMAIN c : c[i] <= Len(new)
    <3>1. \A i \in 1 .. l : first + i <= first + l
      OBVIOUS
    <3> QED BY <1>5, <1>10, <3>1
  <2>3. s \notin remade' => c = [i \in 1 .. Len(new) |-> i]
    <3>1. SUFFICES ASSUME s \notin remade' PROVE c = [i \in 1 .. Len(new) |-> i]
      OBVIOUS
    <3>2. first = 0 /\ Len(new) = l
      BY <1>2, <1>4, <1>5, <3>1
    <3>3. \A i \in 1 .. l : first + i = i
      BY <3>2
    <3> QED BY <1>3, <3>2, <3>3
  <2>4. s \in Claude => new = file[s]
    BY <1>1, <1>5 DEF StoreInv, LinesKnown
  <2>5. ASSUME NEW q \in Sessions
        PROVE  /\ \A i \in DOMAIN cache'[q] : cache'[q][i] <= Len(log'[q])
               /\ q \notin remade' => cache'[q] = [i \in 1 .. Len(log'[q]) |-> i]
               /\ q \in Claude => log'[q] = file[q]
    <3>1. CASE q = s
      BY <1>6, <2>1, <2>2, <2>3, <2>4, <3>1
    <3>2. CASE q # s
      BY <1>4, <1>6, <2>1, <3>2 DEF StoreInv, LinesKnown
    <3> QED BY <3>1, <3>2
  <2> QED BY <1>4, <2>1, <2>5 DEF LinesKnown
<1>12. StoreTypeOK'
  BY <1>4, <1>6, <1>9, <1>11 DEF StoreInv, StoreTypeOK
<1>13. \A q \in Sessions : q \notin remade' => log'[q] = log[q]
  <2>1. s \notin remade' => log' = log
    BY <1>4
  <2> QED BY <1>6, <2>1
<1> QED BY <1>4, <1>8, <1>9, <1>11, <1>12, <1>13, RemadeKeeps

\* The browser starts without a list, and the user has sent nothing from it.
LEMMA StoreStarts == Init => StoreInv
<1> SUFFICES ASSUME Init PROVE StoreInv
  OBVIOUS
<1>1. PICK none \in Seq(Real), empty \in Seq(Uuids), first \in Seq(Copies), quiet \in Seq(Fetch) :
          none = <<>> /\ empty = <<>> /\ first = <<>> /\ quiet = <<>>
  BY NoneIsSeq
<1>2. /\ recent = none /\ wire = none /\ shown = empty /\ optimistic = first /\ fetches = quiet
      /\ asked = [s \in Sessions |-> 0] /\ sends = [s \in Sessions |-> 0]
      /\ file \in [Sessions -> {<<>>, <<"user", "assistant">>}] /\ log = file /\ remade = {}
      /\ cache = [s \in Sessions |-> [n \in 1 .. Len(file[s]) |-> n]]
      /\ others = [s \in Sessions |-> IF file[s] = <<>> THEN 0 ELSE 1]
      /\ active = Null /\ seen = {} /\ older = Null /\ total = 0 /\ paged = Null
      /\ raced = FALSE /\ ahead = FALSE /\ stray = FALSE
  BY <1>1 DEF Init
<1>3. DOMAIN none = {} /\ DOMAIN empty = {} /\ DOMAIN quiet = {}
  BY <1>1
<1>4. ASSUME NEW s \in Sessions
      PROVE  /\ file[s] \in Seq({"user", "assistant"}) /\ others[s] \in Nat
             /\ cache[s] \in Seq(Pos) /\ cache[s] = [i \in 1 .. Len(log[s]) |-> i]
             /\ \A i \in DOMAIN cache[s] : cache[s][i] <= Len(log[s])
             /\ Cardinality(UsersIn(log[s], s)) <= others[s]
  <2>1. file[s] = log[s] /\ (file[s] = <<>> \/ file[s] = <<"user", "assistant">>)
    BY <1>2
  <2>2. PICK l \in Nat : l = Len(file[s]) /\ file[s] \in Seq({"user", "assistant"})
    <3>1. file[s] \in Seq({"user", "assistant"})
      <4>1. CASE file[s] = <<>>
        BY <4>1
      <4>2. CASE file[s] = <<"user", "assistant">>
        BY <4>2
      <4> QED BY <2>1, <4>1, <4>2
    <3> QED BY <3>1
  <2>3. PICK c : c = [i \in 1 .. l |-> i]
    OBVIOUS
  <2>4. cache[s] = c
    BY <1>2, <2>2, <2>3
  <2>5. c \in Seq(Pos) /\ DOMAIN c = 1 .. l /\ \A i \in 1 .. l : c[i] <= l
    <3>1. \A i \in 1 .. l : c[i] = i /\ i \in Pos /\ i <= l
      BY <2>3 DEF Pos
    <3>2. \A i \in 1 .. l : c[i] \in Pos /\ c[i] <= l
      BY <3>1
    <3>3. c = [i \in 1 .. l |-> c[i]]
      BY <2>3
    <3> QED BY <2>3, <3>2, <3>3, MadeSeq
  <2>6. others[s] = IF file[s] = <<>> THEN 0 ELSE 1
    BY <1>2
  <2>7. Cardinality(UsersIn(log[s], s)) <= others[s]
    <3>1. CASE file[s] = <<>>
      <4>1. UsersIn(<<>>, s) = {}
        BY DEF UsersIn
      <4>2. Cardinality(UsersIn(log[s], s)) = 0 /\ others[s] = 0
        BY <2>1, <2>6, <3>1, <4>1, FS_EmptySet
      <4> QED BY <4>2
    <3>2. CASE file[s] = <<"user", "assistant">>
      <4>1. UsersIn(<<"user", "assistant">>, s) \subseteq {<<s, 1>>}
        BY DEF UsersIn
      <4>2. IsFiniteSet({<<s, 1>>}) /\ Cardinality({<<s, 1>>}) = 1
        BY FS_Singleton
      <4>3. Cardinality(UsersIn(<<"user", "assistant">>, s)) <= 1
        BY <4>1, <4>2, FewerOf
      <4>4. others[s] = 1 /\ log[s] = <<"user", "assistant">>
        BY <2>1, <2>6, <3>2
      <4> QED BY <4>3, <4>4
    <3> QED BY <2>1, <3>1, <3>2
  <2> QED BY <2>1, <2>2, <2>3, <2>4, <2>5, <2>6, <2>7
<1>5. /\ log \in [Sessions -> Seq({"user", "assistant"})]
      /\ file \in [Sessions -> Seq({"user", "assistant"})]
      /\ cache \in [Sessions -> Seq(Pos)] /\ others \in [Sessions -> Nat]
      /\ remade \in SUBSET Sessions
  BY <1>2, <1>4
<1>6. asked \in [Sessions -> Nat] /\ sends \in [Sessions -> Nat]
  BY <1>2
<1>7. StoreTypeOK
  BY <1>2, <1>5, <1>6 DEF StoreTypeOK
<1>8. SendsKnown
  <2>1. ASSUME NEW s \in Sessions PROVE Cardinality(Users(s)) + asked[s] <= Most(s)
    <3>1. PICK n \in Nat : n = Cardinality(Users(s))
      <4>1. IsFiniteSet(UsersIn(log[s], s))
        BY <1>5, UsersFinite
      <4> QED BY <4>1, FS_CardinalityType DEF Users
    <3>2. PICK o \in Nat : o = others[s] /\ n <= o
      BY <1>4, <3>1 DEF Users
    <3>3. asked[s] = 0 /\ Most(s) = 0 + o
      BY <1>2, <3>2 DEF Most
    <3> QED BY <3>1, <3>2, <3>3
  <2> QED BY <2>1 DEF SendsKnown
<1>9. Once(empty, {}) /\ Range(empty) = {}
  BY <1>1, <1>3, NothingTwice DEF Once
<1>10. SeenKnown /\ EventsKnown /\ PagesKnown
  BY <1>2, <1>3 DEF SeenKnown, EventsKnown, PagesKnown
<1>11. ListInv /\ StrayInv /\ FetchInv /\ NothingHidden /\ CountInv
  BY <1>2, <1>3, <1>9 DEF ListInv, StrayInv, FetchInv, NothingHidden, CountInv
<1>12. LinesKnown
  BY <1>2, <1>4 DEF LinesKnown
<1> QED BY <1>7, <1>8, <1>10, <1>11, <1>12 DEF StoreInv

\* Each step of the browser, the server and the connection keeps it.
LEMMA StoreSteps == StoreInv /\ [Next]_vars => StoreInv'
<1> SUFFICES ASSUME StoreInv, [Next]_vars PROVE StoreInv'
  OBVIOUS
<1>1. ASSUME NEW s \in Sessions, NEW role \in {"user", "assistant"}, NEW pushed \in BOOLEAN,
             ServerLogs(s, role, pushed)
      PROVE  StoreInv'
  BY <1>1, LogKeeps
<1>12. ASSUME NEW s \in Sessions, NEW n \in DOMAIN file[s], StoredAgain(s, n) PROVE StoreInv'
  BY <1>12, StoredAgainKeeps
<1>13. ASSUME NEW s \in Sessions, ParsedAnew(s) PROVE StoreInv'
  BY <1>13, ParsedAnewKeeps
<1>2. ASSUME NEW s \in Sessions, SetActiveSession(s) PROVE StoreInv'
  BY <1>2, SetActiveSessionKeeps
<1>3. CASE ConnectionCloses \/ Reconnects \/ OlderAnswered \/ OlderFails \/ UNCHANGED vars
  <2>1. ListStands
    BY <1>3, OtherStands
  <2> QED BY <2>1, StandsKeeps
<1>4. CASE Delivers
  BY <1>4, DeliversKeeps
<1>5. CASE UserSends
  BY <1>5, UserSendsKeeps
<1>6. ASSUME NEW i \in DOMAIN fetches, FetchAnswered(i) PROVE StoreInv'
  <2>1. ListStands
    BY <1>6, FetchAnsweredStands
  <2> QED BY <2>1, StandsKeeps
<1>7. ASSUME NEW i \in DOMAIN fetches, FetchArrives(i) PROVE StoreInv'
  <2>1. ListStands
    BY <1>7, FetchArrivesStands
  <2> QED BY <2>1, StandsKeeps
<1>8. ASSUME NEW i \in DOMAIN fetches, FetchFails(i) PROVE StoreInv'
  <2>1. fetches' = RemoveAt(fetches, i) /\ UNCHANGED <<server, wire, status, view, page, sends>>
    BY <1>8 DEF FetchFails
  <2>2. ListStands
    BY <1>8, <2>1, FetchGoesStands
  <2> QED BY <2>2, StandsKeeps
<1>9. ASSUME NEW i \in DOMAIN fetches, FetchApplies(i) PROVE StoreInv'
  BY <1>9, FetchAppliesKeeps
<1>10. CASE OlderStarts
  BY <1>10, OlderStartsKeeps
<1>11. CASE OlderApplies
  BY <1>11, OlderAppliesKeeps
<1> QED BY <1>1, <1>2, <1>3, <1>4, <1>5, <1>6, <1>7, <1>8, <1>9, <1>10, <1>11, <1>12, <1>13
        DEF Next

\* What is counted for a page that brings nothing is what is shown.
LEMMA ShownAreCounted == ASSUME StoreInv PROVE NoMoreThanSent
<1>1. SUFFICES ASSUME active # Null, active \notin remade, ~raced, ~ahead, ~stray
      PROVE  Cardinality({u \in Range(shown) : RoleOf(u) = "user" /\ u[1] \in {active, "opt"}})
                 <= sends[active] + others[active]
  BY DEF NoMoreThanSent
<1>2. active \in Sessions /\ shown \in Seq(Uuids) /\ StoreTypeOK
  BY <1>1 DEF StoreInv, StoreTypeOK
<1>3. PICK users, show, known, most :
          users = Users(active) /\ show = Range(shown) /\ known = seen /\ most = Most(active)
  OBVIOUS
<1>4. 0 \in Caps
  BY DEF Caps
<1>5. Cardinality(Opts(show) \cup Counted(users, show, known, 0)) <= most
  BY <1>1, <1>3, <1>4 DEF StoreInv, CountInv, Counts
<1>6. Bounded(users, show)
  BY <1>2, <1>3, BoundedLists DEF StoreTypeOK, Users
<1>7. IsFiniteSet(Opts(show) \cup Counted(users, show, known, 0))
  BY <1>6, CountsFinite
<1>8. PICK mine : mine = {u \in Range(shown) : RoleOf(u) = "user" /\ u[1] \in {active, "opt"}}
  OBVIOUS
<1>9. mine \subseteq Opts(show) \cup Counted(users, show, known, 0)
  <2>1. ASSUME NEW u \in mine PROVE u \in Opts(show) \/ u \in Counted(users, show, known, 0)
    <3>1. u \in show /\ RoleOf(u) = "user" /\ u[1] \in {active, "opt"}
      BY <1>3, <1>8, <2>1
    <3>2. CASE u[1] = "opt"
      BY <3>1, <3>2 DEF Opts
    <3>3. CASE u[1] # "opt"
      <4>1. u \in seen /\ u \in Real /\ Logged(u)
        BY <1>2, <1>3, <3>1, <3>3, UuidIs DEF StoreInv, ListInv, SeenKnown, StoreTypeOK
      <4>2. u \in users
        BY <1>2, <1>3, <3>1, <3>3, <4>1, RoleIs
      <4> QED BY <3>1, <4>2 DEF Counted
    <3> QED BY <3>2, <3>3
  <2> QED BY <2>1
<1>10. /\ Cardinality(mine) <= Cardinality(Opts(show) \cup Counted(users, show, known, 0))
       /\ Cardinality(mine) \in Nat
       /\ Cardinality(Opts(show) \cup Counted(users, show, known, 0)) \in Nat
  BY <1>7, <1>9, FewerOf
<1>11. most \in Nat
  BY <1>2, <1>3, MostHolds DEF StoreInv
<1>12. most = sends[active] + others[active]
  BY <1>3 DEF Most
<1> QED BY <1>5, <1>8, <1>10, <1>11, <1>12

LEMMA StoreHolds == Spec => []StoreInv
BY StoreStarts, StoreSteps, PTL DEF Spec

\* No message of the list is doubled and none is hidden (EveryMessageOnce), however the
\* fetches, the pages, the pushed events and the user's own copies overlap, and whoever else
\* speaks as the user, for any number of sessions, messages and visits and any page size
\* (addMessage, fetchMessages and fetchOlderMessages) - as far as the server has each line of
\* a session once and under one uuid, and no fetch that replaces the list is raced.
THEOREM MessagesAreThereOnce == Spec => []EveryMessageOnce
<1>1. StoreInv => EveryMessageOnce
  <2>1. StoreInv => NoDuplicates /\ NothingHidden
    BY DEF StoreInv, ListInv, Once, NoDuplicates
  <2> QED BY <2>1, ShownAreCounted DEF EveryMessageOnce
<1> QED BY <1>1, StoreHolds, PTL

\* The list is of the active session alone (ShowsOneSession), whichever sessions were left
\* behind with answers still under way, as long as no older page was among these.
THEOREM OneSessionIsShown == Spec => []ShowsOneSession
<1>1. StoreInv => ShowsOneSession
  BY DEF StoreInv, StrayInv, ShowsOneSession
<1> QED BY <1>1, StoreHolds, PTL
=============================================================================
