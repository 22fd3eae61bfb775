------------------------- MODULE ProxyTunnels_proofs -------------------------
(***************************************************************************)
(* Proof that what passes through a tunnel or a WebSocket arrives in order,*)
(* whole and after its evidence, for any hosts, rules, modes and numbers   *)
(* of items.  DataInv says for every stage of a connection how much of     *)
(* what an end sent the proxy has taken, holds and has passed on.          *)
(***************************************************************************)
EXTENDS ProxyTunnels, SequenceTheorems, TLAPS

Item == Nat \X {"data", "create", "text", "ping", "close", "create+", "cut", "empty"}
TunnelRow == [what |-> "tunnel"]
HttpRow(x) == [what |-> "http", item |-> x]
FrameRow(d, x) == [what |-> "frame", item |-> <<d, x>>]
Row == [what : {"refused", "tunnel"}] \cup {HttpRow(x) : x \in Item}
           \cup {FrameRow(d, x) : d \in Directions, x \in Item}

(* Before data moves, while it is copied, and while HTTP is parsed.        *)
Early == {"none", "arrived", "passed", "refused", "delayed", "dialing", "failed",
          "accepting", "connecting", "sniffing"}
Copies == {"copy", "prefixed"}
Parses == {"http", "forwarded", "read", "logged"}

DataTypeOK ==
    /\ conn \in Requests
    /\ pc \in Early \cup Copies \cup Parses \cup {"relay", "ended"}
    /\ sent \in [Directions -> Seq(Item)]
    /\ taken \in [Directions -> Nat]
    /\ hand = [d \in Directions |-> hand[d]]
    /\ got \in [Directions -> Seq(Item)]
    /\ over \subseteq Directions /\ broken \in BOOLEAN /\ closed \subseteq {"client", "target"}
    /\ rows \in Seq(Row)

(* Which connections come to which stage.                                  *)
Way ==
    /\ pc \in {"accepting", "connecting", "sniffing"} \cup Copies \cup Parses => conn.kind = "connect"
    /\ pc = "relay" => conn.kind = "websocket"
    /\ pc \in {"accepting", "connecting", "sniffing", "prefixed"} => conn.ca
    /\ pc = "sniffing" => conn.protocol # "h2"
    /\ pc = "prefixed" => conn.protocol = "other" \/ (sent["out"] = <<>> /\ "client" \in closed)
    /\ over # {} => pc \in Copies \cup {"ended"}

(* What has been passed on is what was sent, as far as it goes.            *)
SameItem(x, y) ==
    \/ x = y
    \/ conn.kind = "websocket" /\ y[2] = "create" /\ x = <<y[1], "create+">>
    \/ y[2] = "cut" /\ x = <<y[1], "empty">>

Faithful(d) ==
    /\ Len(got[d]) <= taken[d] /\ taken[d] <= Len(sent[d])
    /\ \A i \in 1 .. Len(sent[d]) : sent[d][i][1] = i
    /\ \A i \in 1 .. Len(got[d]) : SameItem(got[d][i], sent[d][i])

(* Copying changes nothing of it.                                          *)
Exact(d) == \A i \in 1 .. Len(got[d]) : got[d][i] = sent[d][i]

(* Everything taken has been passed on, or all but the item in hand.       *)
InStep(d) == Len(got[d]) = taken[d] /\ hand[d] = <<>>
Holds(d, x) == taken[d] = Len(got[d]) + 1 /\ x \in Item /\ SameItem(x, sent[d][taken[d]])

Position(d) ==
    /\ pc \in Early => got[d] = <<>> /\ InStep(d)
    /\ pc \in Copies => Exact(d) /\ (InStep(d) \/ (d \in over /\ broken))
    /\ pc \in {"http", "forwarded"} => InStep(d)
    /\ pc \in {"read", "logged"} =>
           \/ d = "out" /\ InStep(d)
           \/ d = "in" /\ \E x \in Item :
                  /\ hand[d] = <<x>> /\ Holds(d, x)
                  /\ pc = "logged" => HttpRow(x) \in ToSet(rows)
    /\ pc = "relay" =>
           \/ InStep(d)
           \/ \E x \in Item, due \in BOOLEAN :
                  /\ hand[d] = <<[item |-> x, due |-> due]>> /\ Holds(d, x)
                  /\ Logged(x[2]) /\ ~due => FrameRow(d, x) \in ToSet(rows)

(* A copy that has returned without an error was complete.                 *)
Whole(d) ==
    \/ got[d] = sent[d] /\ From(d) \in closed
    \/ conn.ca /\ conn.protocol = "other" /\ d = "out"

CopyInv ==
    /\ pc \in Copies /\ ~broken => \A d \in over : Whole(d)
    /\ TunnelRow \in ToSet(rows) => pc = "ended" /\ (broken \/ \A d \in Directions : Whole(d))

Evidence(d) ==
    /\ pc \in Parses /\ d = "in" =>
           \A i \in 1 .. Len(got[d]) : HttpRow(got[d][i]) \in ToSet(rows)
    /\ conn.kind = "websocket" =>
           \A i \in 1 .. Len(got[d]) :
               Logged(got[d][i][2]) => FrameRow(d, got[d][i]) \in ToSet(rows)

DirectionInv(d) == Faithful(d) /\ Position(d) /\ Evidence(d)
DataInv == DataTypeOK /\ Way /\ (\A d \in Directions : DirectionInv(d)) /\ CopyInv

-----------------------------------------------------------------------------
(* Sequences.                                                              *)
LEMMA AppendFacts ==
    ASSUME NEW D, NEW s \in Seq(D), NEW x \in D
    PROVE  /\ Append(s, x) \in Seq(D) /\ Len(Append(s, x)) = Len(s) + 1
           /\ \A i \in 1 .. Len(s) : Append(s, x)[i] = s[i]
           /\ Append(s, x)[Len(s) + 1] = x
BY AppendProperties

LEMMA AppendToSet ==
    ASSUME NEW D, NEW s \in Seq(D), NEW x \in D
    PROVE  ToSet(Append(s, x)) = ToSet(s) \cup {x}
<1>1. /\ DOMAIN s = 1 .. Len(s) /\ DOMAIN Append(s, x) = 1 .. Len(s) + 1
      /\ Len(s) \in Nat
      /\ \A i \in 1 .. Len(s) : Append(s, x)[i] = s[i]
      /\ Append(s, x)[Len(s) + 1] = x
  BY AppendProperties
<1>2. ToSet(Append(s, x)) \subseteq ToSet(s) \cup {x}
  BY <1>1 DEF ToSet
<1>3. ToSet(s) \cup {x} \subseteq ToSet(Append(s, x))
  <2>1. ASSUME NEW i \in 1 .. Len(s) PROVE s[i] \in ToSet(Append(s, x))
    <3>1. i \in 1 .. Len(s) + 1
      BY <1>1
    <3>2. QED
      BY <1>1, <3>1 DEF ToSet
  <2>2. Len(s) + 1 \in 1 .. Len(s) + 1
    BY <1>1
  <2>3. x \in ToSet(Append(s, x))
    BY <1>1, <2>2 DEF ToSet
  <2>4. QED
    BY <1>1, <2>1, <2>3 DEF ToSet
<1>4. QED
  BY <1>2, <1>3

(* The log only grows.                                                     *)
LEMMA LogGrows ==
    ASSUME DataTypeOK, NEW row \in Row, Log(row)
    PROVE  rows' \in Seq(Row) /\ ToSet(rows') = ToSet(rows) \cup {row}
<1>1. rows \in Seq(Row) /\ rows' = Append(rows, row)
  BY DEF DataTypeOK, Log
<1>2. QED
  BY <1>1, AppendFacts, AppendToSet

(* Rows of different kinds differ.                                         *)
LEMMA RowsDiffer ==
    /\ TunnelRow \in Row /\ [what |-> "refused"] \in Row /\ [what |-> "refused"] # TunnelRow
    /\ \A x \in Item : HttpRow(x) \in Row /\ HttpRow(x) # TunnelRow
    /\ \A d \in Directions, x \in Item : FrameRow(d, x) \in Row /\ FrameRow(d, x) # TunnelRow
<1>1. [what |-> "refused"] # TunnelRow /\ [what |-> "refused"].what = "refused" /\ TunnelRow.what = "tunnel"
  BY DEF TunnelRow
<1>2. /\ \A x \in Item : HttpRow(x) \in Row
      /\ \A d \in Directions, x \in Item : FrameRow(d, x) \in Row
  BY DEF Row
<1>3. /\ \A x \in Item : HttpRow(x).what = "http"
      /\ \A d \in Directions, x \in Item : FrameRow(d, x).what = "frame"
  BY DEF HttpRow, FrameRow
<1>4. TunnelRow \in Row /\ [what |-> "refused"] \in Row
  BY DEF TunnelRow, Row
<1>5. QED
  BY <1>1, <1>2, <1>3, <1>4

(* An item is its number and its frame.                                    *)
LEMMA Items ==
    ASSUME NEW x \in Item
    PROVE  /\ x[1] \in Nat /\ x = <<x[1], x[2]>>
           /\ <<x[1], "create+">> \in Item /\ <<x[1], "empty">> \in Item
BY DEF Item

-----------------------------------------------------------------------------
(* One direction through a step.                                           *)

LEMMA FaithfulStays ==
    ASSUME NEW d \in Directions, Faithful(d), UNCHANGED <<conn, sent[d], taken[d], got[d]>>
    PROVE  Faithful(d)'
BY DEF Faithful, SameItem

LEMMA EvidenceStays ==
    ASSUME NEW d \in Directions, Evidence(d), UNCHANGED <<conn, got[d]>>,
           ToSet(rows) \subseteq ToSet(rows'),
           pc' \in Parses => pc \in Parses \/ got[d] = <<>>
    PROVE  Evidence(d)'
<1>1. CASE got[d] = <<>>
  <2>1. 1 .. Len(got'[d]) = {}
    BY <1>1
  <2>2. QED
    BY <2>1 DEF Evidence
<1>2. CASE got[d] # <<>>
  BY <1>2 DEF Evidence
<1>3. QED
  BY <1>1, <1>2

LEMMA ExactStays ==
    ASSUME NEW d \in Directions, Exact(d), UNCHANGED <<sent[d], got[d]>>
    PROVE  Exact(d)'
BY DEF Exact

(* Nothing that concerns the direction moves.                              *)
LEMMA DirectionStays ==
    ASSUME NEW d \in Directions, DirectionInv(d),
           UNCHANGED <<conn, pc, sent[d], taken[d], hand[d], got[d]>>,
           ToSet(rows) \subseteq ToSet(rows'), broken => broken', d \in over => d \in over'
    PROVE  DirectionInv(d)'
<1>1. Faithful(d)'
  BY FaithfulStays DEF DirectionInv
<1>2. Evidence(d)'
  BY EvidenceStays DEF DirectionInv
<1>3. InStep(d) => InStep(d)'
  BY DEF InStep
<1>4. \A x : Holds(d, x) => Holds(d, x)'
  BY DEF Holds, SameItem
<1>x. Exact(d) => Exact(d)'
  BY ExactStays
<1>5. Position(d)'
  BY <1>3, <1>4, <1>x DEF DirectionInv, Position
<1>6. QED
  BY <1>1, <1>2, <1>5 DEF DirectionInv

(* Taking an item.                                                         *)
LEMMA TakingIsFaithful ==
    ASSUME DataTypeOK, NEW d \in Directions, Faithful(d), Waits(d), Reads(d), UNCHANGED <<conn, sent, got>>
    PROVE  /\ Faithful(d)' /\ taken' \in [Directions -> Nat]
           /\ taken'[d] = taken[d] + 1
           /\ taken'[d] \in 1 .. Len(sent[d]) /\ Next1(d) = sent[d][taken'[d]] /\ Next1(d) \in Item
<1>1. PICK n \in Nat : n = taken[d] + 1
  BY DEF DataTypeOK
<1>2. taken' = [taken EXCEPT ![d] = n]
  BY <1>1 DEF Reads
<1>3. taken'[d] = n /\ taken' \in [Directions -> Nat]
  BY <1>2 DEF DataTypeOK
<1>4. sent[d] \in Seq(Item) /\ Len(sent[d]) \in Nat /\ taken[d] \in Nat /\ Len(got[d]) \in Nat
  BY DEF DataTypeOK
<1>5. n \in 1 .. Len(sent[d]) /\ Len(got[d]) <= n
  BY <1>1, <1>4 DEF Waits, Faithful
<1>6. Faithful(d)'
  BY <1>3, <1>5 DEF Faithful, SameItem
<1>7. sent[d][n] \in Item
  BY <1>4, <1>5
<1>8. QED
  BY <1>1, <1>3, <1>5, <1>6, <1>7 DEF Next1

(* Passing on the item that is held.                                       *)
LEMMA PassingIsFaithful ==
    ASSUME DataTypeOK, NEW d \in Directions, Faithful(d), NEW x \in Item, Holds(d, x),
           got' = [got EXCEPT ![d] = Append(@, x)], UNCHANGED <<conn, sent, taken>>
    PROVE  /\ Faithful(d)' /\ got' \in [Directions -> Seq(Item)]
           /\ Len(got'[d]) = taken[d]
           /\ \A i \in 1 .. Len(got'[d]) : got'[d][i] = x \/ (i \in 1 .. Len(got[d]) /\ got'[d][i] = got[d][i])
<1>1. PICK s \in Seq(Item) : s = got[d]
  BY DEF DataTypeOK
<1>2. PICK t \in Seq(Item) : t = Append(s, x)
  BY AppendFacts
<1>3. got' = [got EXCEPT ![d] = t]
  BY <1>1, <1>2
<1>4. got'[d] = t /\ got' \in [Directions -> Seq(Item)]
  BY <1>3 DEF DataTypeOK
<1>5. /\ Len(s) \in Nat /\ Len(t) = Len(s) + 1
      /\ \A i \in 1 .. Len(s) : t[i] = s[i]
      /\ t[Len(s) + 1] = x
  BY <1>2, AppendFacts
<1>6. Len(t) = taken[d] /\ t[taken[d]] = x
  BY <1>1, <1>5 DEF Holds
<1>7. \A i \in 1 .. Len(t) : i \in 1 .. Len(s) \/ i = Len(s) + 1
  BY <1>5
<1>8. \A i \in 1 .. Len(t) : t[i] = x \/ (i \in 1 .. Len(s) /\ t[i] = s[i])
  BY <1>5, <1>7
<1>9. \A i \in 1 .. Len(t) : SameItem(t[i], sent[d][i])
  <2> TAKE i \in 1 .. Len(t)
  <2>1. CASE i \in 1 .. Len(s)
    BY <1>1, <1>5, <2>1 DEF Faithful
  <2>2. CASE i = Len(s) + 1
    BY <1>1, <1>5, <1>6, <2>2 DEF Holds
  <2>3. QED
    BY <1>7, <2>1, <2>2
<1>10. Faithful(d)'
  <2>1. Len(t) <= taken[d] /\ taken[d] <= Len(sent[d])
    BY <1>6 DEF Faithful, DataTypeOK
  <2>2. QED
    BY <1>4, <1>9, <2>1 DEF Faithful, SameItem
<1>11. QED
  BY <1>1, <1>4, <1>6, <1>8, <1>10

LEMMA TakenIsItem ==
    ASSUME DataTypeOK, NEW d \in Directions, Waits(d)
    PROVE  Next1(d) \in Item
<1>1. PICK n \in Nat : n = taken[d] + 1
  BY DEF DataTypeOK
<1>2. sent[d] \in Seq(Item) /\ Len(sent[d]) \in Nat /\ taken[d] \in Nat
  BY DEF DataTypeOK
<1>3. n \in 1 .. Len(sent[d]) /\ Next1(d) = sent[d][n]
  BY <1>1, <1>2 DEF Waits, Next1
<1>4. QED
  BY <1>2, <1>3

(* What a parser makes of an item is still that item.                      *)
LEMMA CollectedIsSame ==
    ASSUME NEW y \in Item
    PROVE  Collected(y) \in Item /\ SameItem(Collected(y), y)
BY Items DEF Collected, SameItem

(* Taking an item and passing it on at once.                               *)
LEMMA TakeAndPass ==
    ASSUME DataTypeOK, NEW d \in Directions, Faithful(d), Waits(d), Reads(d),
           Len(got[d]) = taken[d], NEW x \in Item, SameItem(x, Next1(d)),
           got' = [got EXCEPT ![d] = Append(@, x)], UNCHANGED <<conn, sent>>
    PROVE  /\ Faithful(d)' /\ got' \in [Directions -> Seq(Item)] /\ taken' \in [Directions -> Nat]
           /\ Len(got'[d]) = taken'[d]
           /\ Exact(d) /\ x = Next1(d) => Exact(d)'
<1>1. PICK n \in Nat : n = taken[d] + 1
  BY DEF DataTypeOK
<1>2. taken' = [taken EXCEPT ![d] = n]
  BY <1>1 DEF Reads
<1>3. taken'[d] = n /\ taken' \in [Directions -> Nat]
  BY <1>2 DEF DataTypeOK
<1>4. sent[d] \in Seq(Item) /\ Len(sent[d]) \in Nat /\ taken[d] \in Nat
  BY DEF DataTypeOK
<1>5. n \in 1 .. Len(sent[d])
  BY <1>1, <1>4 DEF Waits
<1>6. SameItem(x, sent[d][n]) /\ Next1(d) = sent[d][n]
  BY <1>1 DEF Next1
<1>7. PICK s \in Seq(Item) : s = got[d]
  BY DEF DataTypeOK
<1>8. PICK t \in Seq(Item) : t = Append(s, x)
  BY AppendFacts
<1>9. got' = [got EXCEPT ![d] = t]
  BY <1>7, <1>8
<1>10. got'[d] = t /\ got' \in [Directions -> Seq(Item)]
  BY <1>9 DEF DataTypeOK
<1>11. /\ Len(s) \in Nat /\ Len(t) = n
       /\ \A i \in 1 .. Len(s) : t[i] = s[i]
       /\ t[n] = x
  BY <1>1, <1>7, <1>8, AppendFacts
<1>12. \A i \in 1 .. n : i \in 1 .. Len(s) \/ i = n
  BY <1>1, <1>7, <1>11
<1>13. \A i \in 1 .. Len(s) : SameItem(s[i], sent[d][i])
  BY <1>7 DEF Faithful
<1>14. \A i \in 1 .. Len(t) : SameItem(t[i], sent[d][i])
  <2>1. SameItem(t[n], sent[d][n])
    BY <1>6, <1>11
  <2>2. \A i \in 1 .. Len(s) : SameItem(t[i], sent[d][i])
    BY <1>11, <1>13
  <2>3. QED
    BY <1>11, <1>12, <2>1, <2>2
<1>15. Faithful(d)'
  <2>1. Len(t) <= n /\ n <= Len(sent[d])
    BY <1>4, <1>5, <1>11
  <2>2. QED
    BY <1>3, <1>10, <1>14, <2>1 DEF Faithful, SameItem
<1>x. Exact(d) /\ x = Next1(d) => Exact(d)'
  <2> SUFFICES ASSUME Exact(d), x = Next1(d) PROVE Exact(d)'
    OBVIOUS
  <2>1. \A i \in 1 .. Len(s) : t[i] = sent[d][i]
    BY <1>7, <1>11 DEF Exact
  <2>2. \A i \in 1 .. Len(t) : t[i] = sent[d][i]
    BY <1>6, <1>11, <1>12, <2>1
  <2>3. QED
    BY <1>10, <2>2 DEF Exact
<1>16. QED
  BY <1>3, <1>10, <1>11, <1>15, <1>x

(* What is passed on has its row.                                          *)
LEMMA PassingIsEvident ==
    ASSUME NEW d \in Directions, NEW x \in Item, Evidence(d), UNCHANGED <<conn, rows>>,
           \A i \in 1 .. Len(got'[d]) : got'[d][i] = x \/ (i \in 1 .. Len(got[d]) /\ got'[d][i] = got[d][i]),
           pc' \in Parses /\ d = "in" => pc \in Parses /\ HttpRow(x) \in ToSet(rows),
           conn.kind = "websocket" /\ Logged(x[2]) => FrameRow(d, x) \in ToSet(rows)
    PROVE  Evidence(d)'
BY DEF Evidence

(* An empty sequence of items shows that nothing was passed on.            *)
LEMMA SameMeansEqual ==
    ASSUME DataTypeOK, NEW d \in Directions, Exact(d), Len(got[d]) = Len(sent[d])
    PROVE  got[d] = sent[d]
<1>1. PICK s \in Seq(Item), t \in Seq(Item) : s = got[d] /\ t = sent[d]
  BY DEF DataTypeOK
<1>2. \A i \in 1 .. Len(s) : s[i] = t[i]
  BY <1>1 DEF Exact
<1>3. QED
  BY <1>1, <1>2, SeqEqual

-----------------------------------------------------------------------------
(* A connection whose tunnel is not over has no row for it.                *)
LEMMA NoRowYet ==
    ASSUME DataInv, pc # "ended"
    PROVE  TunnelRow \notin ToSet(rows)
BY DEF DataInv, CopyInv

(* What no step of the data moves.                                         *)
LEMMA SettingsDoNotMatter ==
    ASSUME DataInv, UNCHANGED <<conn, pc, streams, rows>>
    PROVE  DataInv'
BY DEF DataInv, DataTypeOK, Way, DirectionInv, Faithful, SameItem, Position, Exact, InStep, Holds, Evidence,
       CopyInv, Whole, streams

(* From one stage to another before data moves, or to where it starts.     *)
LEMMA EarlyStep ==
    ASSUME DataInv, pc \in Early,
           pc' \in Early \cup {"copy", "prefixed", "http", "relay"},
           Way', UNCHANGED <<conn, streams>>,
           UNCHANGED rows \/ Log([what |-> "refused"])
    PROVE  DataInv'
<1> USE DEF streams
<1>1. /\ rows' \in Seq(Row) /\ ToSet(rows) \subseteq ToSet(rows')
      /\ TunnelRow \notin ToSet(rows')
  <2>1. TunnelRow \notin ToSet(rows)
    BY NoRowYet DEF Early
  <2>2. CASE UNCHANGED rows
    BY <2>1, <2>2 DEF DataInv, DataTypeOK
  <2>3. CASE Log([what |-> "refused"])
    BY <2>1, <2>3, LogGrows, RowsDiffer DEF DataInv
  <2>4. QED
    BY <2>2, <2>3
<1>2. DataTypeOK'
  BY <1>1 DEF DataInv, DataTypeOK, Parses, Copies
<1>3. \A d \in Directions : got[d] = <<>> /\ InStep(d)
  BY DEF DataInv, DirectionInv, Position
<1>4. \A d \in Directions : DirectionInv(d)'
  <2> TAKE d \in Directions
  <2>1. Faithful(d)'
    BY FaithfulStays DEF DataInv, DirectionInv
  <2>2. Evidence(d)'
    BY <1>1, <1>3, EvidenceStays DEF DataInv, DirectionInv
  <2>3. InStep(d)' /\ got'[d] = <<>>
    BY <1>3 DEF InStep
  <2>4. pc' \notin {"read", "logged"}
    BY DEF Early
  <2>e. Exact(d)'
    <3>1. 1 .. Len(got'[d]) = {}
      BY <2>3
    <3>2. QED
      BY <3>1 DEF Exact
  <2>5. Position(d)'
    BY <2>3, <2>4, <2>e DEF Position
  <2>6. QED
    BY <2>1, <2>2, <2>5 DEF DirectionInv
<1>5. over = {}
  BY DEF DataInv, Way, Early, Copies
<1>6. CopyInv'
  BY <1>1, <1>5 DEF CopyInv
<1>7. QED
  BY <1>2, <1>4, <1>6 DEF DataInv

(* The end of a connection: what was passed on is what it was, and a row   *)
(* of a tunnel is true.                                                    *)
LEMMA EndingStep ==
    ASSUME DataInv, pc # "ended", End, DataTypeOK', UNCHANGED conn,
           \A d \in Directions : Faithful(d)' /\ Evidence(d)',
           TunnelRow \in ToSet(rows') => broken' \/ \A d \in Directions : Whole(d)'
    PROVE  DataInv'
<1>1. pc' = "ended"
  BY DEF End, Goto
<1>2. Way'
  BY <1>1 DEF Way, Copies, Parses
<1>3. \A d \in Directions : Position(d)'
  BY <1>1 DEF Position, Early, Copies
<1>4. CopyInv'
  BY <1>1 DEF CopyInv, Copies
<1>5. QED
  BY <1>2, <1>3, <1>4 DEF DataInv, DirectionInv

-----------------------------------------------------------------------------
(* The checks, the dial and the handshakes.                                *)
LEMMA Kinds ==
    ASSUME DataTypeOK
    PROVE  /\ conn.kind \in {"connect", "websocket"}
           /\ conn.protocol \in {"http", "h2", "other"} /\ conn.ca \in BOOLEAN
BY DEF DataTypeOK, Requests

LEMMA CheckSteps ==
    ASSUME DataInv, Arrive \/ CheckMode \/ CheckRules \/ DelayElapses
    PROVE  DataInv'
<1>1. /\ pc \in Early /\ pc' \in {"arrived", "refused", "passed", "delayed", "dialing"}
      /\ UNCHANGED <<conn, streams>>
      /\ UNCHANGED rows \/ Log([what |-> "refused"])
  BY DEF Arrive, CheckMode, CheckRules, DelayElapses, Goto, Early
<1>2. over' = {}
  BY <1>1 DEF DataInv, Way, Early, Copies, streams
<1>3. Way'
  BY <1>1, <1>2 DEF Way, Copies, Parses
<1>4. QED
  BY <1>1, <1>3, EarlyStep DEF Early

LEMMA DialSteps ==
    ASSUME DataInv, DialTunnel \/ DialWebSocket
    PROVE  DataInv'
<1>1. /\ pc = "dialing" /\ UNCHANGED <<conn, streams, rows>>
      /\ \/ pc' = "failed"
         \/ pc' = "accepting" /\ conn.ca /\ conn.kind = "connect"
         \/ pc' = "copy" /\ conn.kind = "connect"
         \/ pc' = "relay" /\ conn.kind = "websocket"
  BY Kinds DEF DialTunnel, DialWebSocket, Goto, DataInv
<1>2. over' = {}
  BY <1>1 DEF DataInv, Way, Early, Copies, streams
<1>3. Way'
  BY <1>1, <1>2 DEF Way, Copies, Parses
<1>4. QED
  BY <1>1, <1>3, EarlyStep DEF Early

LEMMA ShakeSteps ==
    ASSUME DataInv, AcceptClient \/ ConnectToTarget
    PROVE  DataInv'
<1>1. PICK next \in {"connecting", "copy", "sniffing"} :
         /\ Shakes(next) /\ pc \in {"accepting", "connecting"}
         /\ next = "sniffing" => conn.protocol # "h2"
  BY Kinds DEF AcceptClient, ConnectToTarget, DataInv
<1>2. conn.kind = "connect" /\ conn.ca /\ pc \in Early /\ pc # "ended"
  BY <1>1 DEF DataInv, Way, Early
<1>3. CASE Goto(next) /\ UNCHANGED <<closed, broken, rows>>
  <2>1. pc' = next /\ UNCHANGED <<conn, streams, rows>>
    BY <1>1, <1>3 DEF Goto, Shakes, streams
  <2>2. over' = {}
    BY <1>2, <2>1 DEF DataInv, Way, Early, Copies, streams
  <2>3. Way'
    BY <1>1, <1>2, <2>1, <2>2 DEF Way, Copies, Parses
  <2>4. QED
    BY <1>1, <1>2, <2>1, <2>3, EarlyStep DEF Early
<1>4. CASE End /\ broken' = TRUE /\ Log(TunnelRow)
  <2>1. UNCHANGED <<conn, sent, taken, hand, got, over>>
    BY <1>1 DEF Shakes
  <2>2. rows' \in Seq(Row) /\ ToSet(rows) \subseteq ToSet(rows')
    BY <1>4, LogGrows, RowsDiffer DEF DataInv
  <2>3. DataTypeOK'
    BY <1>4, <2>1, <2>2 DEF DataInv, DataTypeOK, End, Goto
  <2>4. ASSUME NEW d \in Directions PROVE Faithful(d)' /\ Evidence(d)'
    <3>1. pc' \notin Parses
      BY <1>4 DEF End, Goto, Parses
    <3>2. QED
      BY <2>1, <2>2, <3>1, FaithfulStays, EvidenceStays DEF DataInv, DirectionInv
  <2>5. QED
    BY <1>2, <1>4, <2>1, <2>3, <2>4, EndingStep
<1>5. QED
  BY <1>1, <1>3, <1>4 DEF Shakes, TunnelRow

LEMMA SniffStep ==
    ASSUME DataInv, Sniff
    PROVE  DataInv'
<1>1. pc = "sniffing" /\ UNCHANGED <<conn, streams, rows>>
  BY DEF Sniff
<1>2. conn.kind = "connect" /\ conn.ca /\ conn.protocol \in {"http", "other"}
  BY <1>1, Kinds DEF DataInv, Way
<1>3. \/ pc' \in {"http", "copy"}
      \/ pc' = "prefixed" /\ (conn.protocol = "other" \/ (sent["out"] = <<>> /\ "client" \in closed))
  BY <1>2 DEF Sniff, Goto
<1>4. over' = {}
  BY <1>1 DEF DataInv, Way, Early, Copies, streams
<1>5. Way'
  BY <1>1, <1>2, <1>3, <1>4 DEF Way, Copies, Parses, streams
<1>6. QED
  BY <1>1, <1>3, <1>5, EarlyStep DEF Early

-----------------------------------------------------------------------------
(* The two ends.                                                           *)

\* A completed copy stays so: an end that is gone sends no more.
LEMMA SendStep ==
    ASSUME DataInv, NEW d \in Directions, EndSends(d) \/ EndBreaksOff(d)
    PROVE  DataInv'
<1> USE DEF streams
<1>0. DataTypeOK /\ Way /\ CopyInv
  BY DEF DataInv
<1>1. PICK f \in {"data", "create", "text", "ping", "close", "cut"} :
         sent' = [sent EXCEPT ![d] = Append(sent[d], <<Len(sent[d]) + 1, f>>)]
  BY DEF EndSends, EndBreaksOff, Frames, Sends
<1>2. /\ Live /\ From(d) \notin closed
      /\ UNCHANGED <<conn, pc, taken, hand, got, over, broken, rows>>
      /\ closed' = closed \/ closed' = closed \cup {From(d)}
  BY DEF EndSends, EndBreaksOff, MaySend
<1>3. PICK s \in Seq(Item) : s = sent[d]
  BY <1>0 DEF DataTypeOK
<1>4. PICK x \in Item : x = <<Len(s) + 1, f>>
  <2>1. PICK n \in Nat : n = Len(s) + 1
    BY <1>3
  <2>2. <<n, f>> \in Item
    BY DEF Item
  <2>3. QED
    BY <2>1, <2>2
<1>5. PICK t \in Seq(Item) : t = Append(s, x)
  BY AppendFacts
<1>6. sent' = [sent EXCEPT ![d] = t]
  BY <1>1, <1>3, <1>4, <1>5
<1>7. /\ sent'[d] = t /\ sent' \in [Directions -> Seq(Item)]
      /\ \A e \in Directions \ {d} : sent'[e] = sent[e]
  BY <1>0, <1>6 DEF DataTypeOK
<1>8. /\ Len(s) \in Nat /\ Len(t) = Len(s) + 1
      /\ \A i \in 1 .. Len(s) : t[i] = s[i]
      /\ t[Len(s) + 1] = x
  BY <1>5, AppendFacts
<1>9. x[1] = Len(s) + 1
  BY <1>4
<1>10. DataTypeOK'
  BY <1>0, <1>2, <1>7 DEF DataTypeOK, From
<1>11. Way'
  BY <1>0, <1>2, <1>7 DEF Way, From, Directions
<1>12. DirectionInv(d)'
  <2>1. DirectionInv(d) /\ Faithful(d) /\ Position(d) /\ taken[d] \in Nat /\ got[d] \in Seq(Item)
    BY <1>0 DEF DataInv, DirectionInv, DataTypeOK
  <2>2. \A i \in 1 .. Len(t) : i \in 1 .. Len(s) \/ i = Len(s) + 1
    BY <1>8
  <2>3. \A i \in 1 .. Len(t) : t[i][1] = i
    BY <1>3, <1>8, <1>9, <2>1, <2>2 DEF Faithful
  <2>4. taken[d] <= Len(t)
    BY <1>3, <1>8, <2>1 DEF Faithful
  <2>5. \A i \in 1 .. Len(got[d]) : t[i] = s[i]
    <3>1. Len(got[d]) \in Nat /\ Len(got[d]) <= Len(s)
      BY <1>3, <1>8, <2>1 DEF Faithful
    <3>2. \A i \in 1 .. Len(got[d]) : i \in 1 .. Len(s)
      BY <1>8, <3>1
    <3>3. QED
      BY <1>8, <3>2
  <2>6. Faithful(d)'
    BY <1>2, <1>3, <1>7, <2>1, <2>3, <2>4, <2>5 DEF Faithful, SameItem
  <2>7. Evidence(d)'
    BY <1>2, <2>1 DEF DirectionInv, Evidence
  <2>8. ASSUME NEW y, Holds(d, y) PROVE Holds(d, y)'
    <3>1. taken[d] \in 1 .. Len(s)
      BY <1>3, <1>8, <2>1, <2>8 DEF Holds, Faithful
    <3>2. t[taken[d]] = s[taken[d]]
      BY <1>8, <3>1
    <3>3. QED
      BY <1>2, <1>3, <1>7, <2>8, <3>2 DEF Holds, SameItem
  <2>e. Exact(d) => Exact(d)'
    BY <1>2, <1>3, <1>7, <2>5 DEF Exact
  <2>9. Position(d)'
    BY <1>2, <2>1, <2>8, <2>e DEF Position, InStep
  <2>10. QED
    BY <2>6, <2>7, <2>9 DEF DirectionInv
<1>13. ASSUME NEW e \in Directions, e # d PROVE DirectionInv(e)'
  <2>1. sent'[e] = sent[e]
    BY <1>7, <1>13
  <2>2. QED
    BY <1>2, <1>13, <2>1, DirectionStays DEF DataInv
<1>14. CopyInv'
  <2>1. pc # "ended"
    BY <1>2 DEF Live
  <2>2. TunnelRow \notin ToSet(rows')
    BY <1>2, <2>1, NoRowYet
  <2>3. ASSUME NEW e \in Directions, Whole(e) PROVE Whole(e)'
    BY <1>2, <1>7, <2>3 DEF Whole
  <2>4. QED
    BY <1>0, <1>2, <2>2, <2>3 DEF CopyInv, DataTypeOK
<1>15. QED
  BY <1>10, <1>11, <1>12, <1>13, <1>14 DEF DataInv

LEMMA CloseStep ==
    ASSUME DataInv, NEW e \in {"client", "target"}, EndCloses(e)
    PROVE  DataInv'
<1>1. UNCHANGED <<conn, pc, sent, taken, hand, got, over, broken, rows>> /\ closed' = closed \cup {e}
  BY DEF EndCloses
<1>2. DataTypeOK' /\ Way'
  BY <1>1 DEF DataInv, DataTypeOK, Way
<1>3. \A d \in Directions : DirectionInv(d)'
  BY <1>1, DirectionStays DEF DataInv
<1>4. \A d \in Directions : Whole(d) => Whole(d)'
  BY <1>1 DEF Whole
<1>5. CopyInv'
  BY <1>1, <1>4 DEF DataInv, CopyInv, DataTypeOK
<1>6. QED
  BY <1>2, <1>3, <1>5 DEF DataInv

-----------------------------------------------------------------------------
(* Plain copying.                                                          *)
LEMMA CopyStep ==
    ASSUME DataInv, NEW d \in Directions, Copy(d)
    PROVE  DataInv'
<1>0. /\ DataTypeOK /\ Way /\ CopyInv /\ DirectionInv(d)
      /\ pc \in Copies /\ pc # "ended" /\ d \notin over /\ conn.kind = "connect"
      /\ UNCHANGED <<conn, pc, sent, hand, closed, rows>>
  BY DEF DataInv, Copy, Copying, Copies, Way
<1>1. Waits(d) /\ Reads(d)
  <2>1. Len(sent[d]) \in Nat /\ taken[d] \in Nat /\ (sent[d] # <<>> => Len(sent[d]) # 0)
    BY <1>0 DEF DataTypeOK
  <2>2. Visible(d) \in Nat /\ Visible(d) <= Len(sent[d])
    BY <2>1 DEF Visible
  <2>3. QED
    BY <2>1, <2>2 DEF Copy, Waits, Reads
<1>2. InStep(d) /\ Exact(d) /\ Faithful(d)
  BY <1>0 DEF DirectionInv, Position
<1>3. \A e \in Directions \ {d} : DirectionInv(e)' /\ (Whole(e) => Whole(e)')
  <2> TAKE e \in Directions \ {d}
  <2>1. UNCHANGED <<sent[e], taken[e], hand[e], got[e]>>
    BY <1>0 DEF Copy, DataTypeOK
  <2>2. (broken => broken') /\ (e \in over => e \in over')
    BY <1>0 DEF Copy
  <2>3. Faithful(e)'
    BY <1>0, <2>1, FaithfulStays DEF DataInv, DirectionInv
  <2>4. Evidence(e)'
    BY <1>0, <2>1 DEF DataInv, DirectionInv, Evidence
  <2>5. Position(e)'
    BY <1>0, <2>1, <2>2, ExactStays DEF DataInv, DirectionInv, Position, InStep, Copies, Early
  <2>6. Whole(e) => Whole(e)'
    BY <1>0, <2>1 DEF Whole
  <2>7. QED
    BY <2>3, <2>4, <2>5, <2>6 DEF DirectionInv
<1>4. TunnelRow \notin ToSet(rows')
  BY <1>0, NoRowYet
<1>5. CASE over' = over \cup {d} /\ broken' = TRUE /\ UNCHANGED got
  <2>1. Faithful(d)' /\ taken' \in [Directions -> Nat]
    BY <1>0, <1>1, <1>5, TakingIsFaithful DEF DirectionInv
  <2>2. Evidence(d)'
    BY <1>0, <1>5 DEF DirectionInv, Evidence
  <2>e. Exact(d)'
    BY <1>0, <1>2, <1>5, ExactStays
  <2>3. Position(d)'
    BY <1>0, <1>5, <2>e DEF Position, Copies, Early
  <2>4. DataTypeOK'
    BY <1>0, <1>5, <2>1 DEF DataTypeOK
  <2>5. Way' /\ CopyInv'
    BY <1>0, <1>4, <1>5 DEF Way, CopyInv
  <2>6. QED
    BY <1>3, <2>1, <2>2, <2>3, <2>4, <2>5 DEF DataInv, DirectionInv
<1>6. CASE got' = [got EXCEPT ![d] = Append(@, Next1(d))] /\ UNCHANGED <<over, broken>>
  <2>1. Next1(d) \in Item /\ SameItem(Next1(d), Next1(d)) /\ Len(got[d]) = taken[d]
    BY <1>0, <1>1, <1>2, TakenIsItem DEF InStep, SameItem
  <2>2. /\ Faithful(d)' /\ got' \in [Directions -> Seq(Item)] /\ taken' \in [Directions -> Nat]
        /\ Len(got'[d]) = taken'[d] /\ Exact(d)'
    BY <1>0, <1>1, <1>2, <1>6, <2>1, TakeAndPass
  <2>3. InStep(d)'
    BY <1>0, <1>2, <2>2 DEF InStep
  <2>4. Position(d)'
    BY <1>0, <2>2, <2>3 DEF Position, Copies, Early
  <2>5. Evidence(d)'
    BY <1>0 DEF Evidence, Copies, Parses
  <2>6. DataTypeOK'
    BY <1>0, <1>6, <2>2 DEF DataTypeOK
  <2>7. \A e \in over : e \in Directions \ {d}
    BY <1>0 DEF DataTypeOK
  <2>8. Way' /\ CopyInv'
    BY <1>0, <1>3, <1>4, <1>6, <2>7 DEF Way, CopyInv
  <2>9. QED
    BY <1>3, <2>2, <2>4, <2>5, <2>6, <2>8 DEF DataInv, DirectionInv
<1>7. QED
  BY <1>5, <1>6 DEF Copy, Next1

LEMMA CopyReturnsStep ==
    ASSUME DataInv, NEW d \in Directions, CopyReturns(d)
    PROVE  DataInv'
<1>0. /\ DataTypeOK /\ Way /\ CopyInv /\ DirectionInv(d)
      /\ pc \in Copies /\ pc # "ended" /\ d \notin over /\ conn.kind = "connect"
      /\ UNCHANGED <<conn, pc, sent, taken, hand, got, closed, rows>>
      /\ over' = over \cup {d}
  BY DEF DataInv, CopyReturns, Copying, Copies, Way
<1>1. broken' \in BOOLEAN /\ (broken => broken')
  BY <1>0 DEF CopyReturns, DataTypeOK
<1>2. DataTypeOK' /\ Way'
  BY <1>0, <1>1 DEF DataTypeOK, Way
<1>3. \A e \in Directions : DirectionInv(e)' /\ (Whole(e) => Whole(e)')
  BY <1>0, <1>1 DEF DataInv, DirectionInv, Faithful, SameItem, Position, Exact, InStep, Copies, Early,
                    Evidence, Whole
<1>4. ~broken' => Whole(d)
  <2> SUFFICES ASSUME ~broken' PROVE Whole(d)
    OBVIOUS
  <2>1. taken[d] = Visible(d) /\ (From(d) \in closed \/ (pc = "prefixed" /\ d = "out"))
    BY DEF CopyReturns
  <2>2. InStep(d) /\ Exact(d)
    BY <1>0 DEF DirectionInv, Position
  <2>3. CASE pc = "prefixed" /\ d = "out" /\ sent[d] # <<>>
    BY <1>0, <2>3 DEF Way, Whole
  <2>4. CASE ~(pc = "prefixed" /\ d = "out" /\ sent[d] # <<>>)
    <3>1. Visible(d) = Len(sent[d])
      BY <2>4 DEF Visible
    <3>2. got[d] = sent[d]
      BY <1>0, <2>1, <2>2, <3>1, SameMeansEqual DEF InStep
    <3>3. CASE From(d) \in closed
      BY <3>2, <3>3 DEF Whole
    <3>4. CASE pc = "prefixed" /\ d = "out"
      <4>1. conn.ca /\ (conn.protocol = "other" \/ "client" \in closed)
        BY <1>0, <3>4 DEF Way
      <4>2. From(d) = "client"
        BY <3>4 DEF From
      <4>3. QED
        BY <3>2, <3>4, <4>1, <4>2 DEF Whole
    <3>5. QED
      BY <2>1, <3>3, <3>4
  <2>5. QED
    BY <2>3, <2>4
<1>5. CopyInv'
  <2>1. TunnelRow \notin ToSet(rows')
    BY <1>0, NoRowYet
  <2>2. ASSUME ~broken', NEW e \in over' PROVE Whole(e)'
    <3>1. e \in Directions /\ ~broken
      BY <1>0, <1>1, <2>2 DEF DataTypeOK
    <3>2. Whole(e)
      BY <1>0, <1>4, <2>2, <3>1 DEF CopyInv
    <3>3. QED
      BY <1>3, <3>1, <3>2
  <2>3. QED
    BY <2>1, <2>2 DEF CopyInv
<1>6. QED
  BY <1>2, <1>3, <1>5 DEF DataInv

LEMMA CopyJoinedStep ==
    ASSUME DataInv, CopyJoined
    PROVE  DataInv'
<1>1. /\ DataTypeOK /\ pc \in Copies /\ pc # "ended" /\ over = Directions /\ End /\ Log(TunnelRow)
      /\ UNCHANGED <<conn, sent, taken, hand, got, over, broken>>
  BY DEF DataInv, CopyJoined, Copying, Copies, TunnelRow
<1>2. rows' \in Seq(Row) /\ ToSet(rows) \subseteq ToSet(rows')
  BY <1>1, LogGrows, RowsDiffer
<1>3. DataTypeOK'
  BY <1>1, <1>2 DEF DataTypeOK, End, Goto
<1>4. ASSUME NEW d \in Directions PROVE Faithful(d)' /\ Evidence(d)'
  <2>1. pc' \notin Parses
    BY <1>1 DEF End, Goto, Parses
  <2>2. QED
    BY <1>1, <1>2, <2>1, FaithfulStays, EvidenceStays DEF DataInv, DirectionInv
<1>5. ~broken => \A d \in Directions : Whole(d)'
  <2>1. ~broken => \A d \in Directions : Whole(d)
    BY <1>1 DEF DataInv, CopyInv
  <2>2. From("out") \in closed' /\ From("in") \in closed'
    BY <1>1 DEF End, From
  <2>3. QED
    BY <1>1, <2>1, <2>2 DEF Whole, Directions
<1>6. QED
  BY <1>1, <1>3, <1>4, <1>5, EndingStep

-----------------------------------------------------------------------------
(* Parsed HTTP.                                                            *)
LEMMA ParsingStep ==
    ASSUME DataInv, pc \in Parses, pc' \in Parses, UNCHANGED <<conn, over, broken, closed>>,
           DataTypeOK', TunnelRow \notin ToSet(rows'), \A d \in Directions : DirectionInv(d)'
    PROVE  DataInv'
<1>1. over = {} /\ conn.kind = "connect"
  BY DEF DataInv, Way, Parses, Copies
<1>2. Way'
  BY <1>1 DEF Way, Parses, Copies
<1>3. CopyInv'
  BY <1>1 DEF CopyInv
<1>4. QED
  BY <1>2, <1>3 DEF DataInv

\* The direction of the requests while an answer is under way.
LEMMA OutStays ==
    ASSUME DataInv, pc \in Parses, pc' \in Parses,
           UNCHANGED <<conn, sent["out"], taken["out"], hand["out"], got["out"]>>,
           ToSet(rows) \subseteq ToSet(rows')
    PROVE  DirectionInv("out")'
<1>1. "out" \in Directions /\ DirectionInv("out")
  BY DEF DataInv, Directions
<1>2. Faithful("out")' /\ Evidence("out")'
  BY <1>1, FaithfulStays, EvidenceStays DEF DirectionInv
<1>3. InStep("out")'
  BY <1>1 DEF DirectionInv, Position, InStep, Parses
<1>4. Position("out")'
  BY <1>3 DEF Position, Parses, Copies, Early
<1>5. QED
  BY <1>2, <1>4 DEF DirectionInv

LEMMA HttpForwardStep ==
    ASSUME DataInv, HttpForward
    PROVE  DataInv'
<1>0. /\ DataTypeOK /\ pc = "http" /\ pc \in Parses /\ pc # "ended"
      /\ "out" \in Directions /\ "in" \in Directions /\ \A d \in Directions : d = "out" \/ d = "in"
      /\ conn.kind = "connect" /\ over = {}
      /\ UNCHANGED <<conn, sent, hand, over, rows>> /\ Waits("out") /\ Reads("out")
  BY DEF DataInv, HttpForward, Parses, Directions, Way, Copies
<1>1. Faithful("out") /\ Evidence("out") /\ InStep("out")
  BY <1>0 DEF DataInv, DirectionInv, Position
<1>2. Faithful("in") /\ Evidence("in") /\ InStep("in")
  BY <1>0 DEF DataInv, DirectionInv, Position
<1>3. taken'["in"] = taken["in"]
  BY <1>0 DEF DataTypeOK, Reads
<1>4. TunnelRow \notin ToSet(rows')
  BY <1>0, NoRowYet
<1>5. CASE End /\ broken' = TRUE /\ UNCHANGED got
  <2>1. Faithful("out")' /\ taken' \in [Directions -> Nat]
    BY <1>0, <1>1, <1>5, TakingIsFaithful
  <2>2. Faithful("in")'
    BY <1>0, <1>2, <1>3, <1>5, FaithfulStays
  <2>3. \A d \in Directions : Evidence(d)'
    BY <1>0, <1>5 DEF Evidence, End, Goto, Parses
  <2>4. DataTypeOK'
    BY <1>0, <1>5, <2>1 DEF DataTypeOK, End, Goto
  <2>5. QED
    BY <1>0, <1>4, <1>5, <2>1, <2>2, <2>3, <2>4, EndingStep
<1>6. CASE got' = [got EXCEPT !["out"] = Append(@, Collected(Next1("out")))] /\ Goto("forwarded") /\ UNCHANGED <<closed, broken>>
  <2>1. /\ Faithful("out")' /\ got' \in [Directions -> Seq(Item)] /\ taken' \in [Directions -> Nat]
        /\ Len(got'["out"]) = taken'["out"]
    <3>1. PICK x \in Item : x = Collected(Next1("out")) /\ SameItem(x, Next1("out"))
      BY <1>0, TakenIsItem, CollectedIsSame
    <3>2. got' = [got EXCEPT !["out"] = Append(@, x)] /\ Len(got["out"]) = taken["out"]
      BY <1>1, <1>6, <3>1 DEF InStep
    <3>3. QED
      BY <1>0, <1>1, <1>6, <3>1, <3>2, TakeAndPass
  <2>2. got'["in"] = got["in"] /\ pc' = "forwarded"
    BY <1>0, <1>6 DEF DataTypeOK, Goto
  <2>3. InStep("out")' /\ InStep("in")'
    BY <1>0, <1>1, <1>2, <1>3, <2>1, <2>2 DEF InStep
  <2>4. Faithful("in")' /\ Evidence("in")'
    BY <1>0, <1>2, <1>3, <2>2, FaithfulStays, EvidenceStays
  <2>5. Evidence("out")'
    BY <1>0 DEF Evidence
  <2>6. Position("out")' /\ Position("in")'
    BY <2>2, <2>3 DEF Position, Early, Copies
  <2>7. DataTypeOK'
    BY <1>0, <1>6, <2>1, <2>2 DEF DataTypeOK, Parses
  <2>8. QED
    BY <1>0, <1>4, <1>6, <2>1, <2>2, <2>4, <2>5, <2>6, <2>7, ParsingStep DEF DirectionInv, Parses
<1>7. QED
  BY <1>5, <1>6 DEF HttpForward

LEMMA HttpReadsStep ==
    ASSUME DataInv, HttpReads
    PROVE  DataInv'
<1>0. /\ DataTypeOK /\ pc = "forwarded" /\ pc' = "read" /\ pc \in Parses /\ pc' \in Parses /\ pc # "ended"
      /\ "in" \in Directions /\ \A d \in Directions : d = "out" \/ d = "in"
      /\ UNCHANGED <<conn, sent, got, over, broken, closed, rows>> /\ Waits("in") /\ Reads("in")
      /\ hand' = [hand EXCEPT !["in"] = <<Collected(Next1("in"))>>]
  BY DEF DataInv, HttpReads, Goto, Parses, Directions
<1>1. Faithful("in") /\ Evidence("in") /\ InStep("in")
  BY <1>0 DEF DataInv, DirectionInv, Position
<1>2. /\ Faithful("in")' /\ taken' \in [Directions -> Nat] /\ taken'["in"] = taken["in"] + 1
      /\ Next1("in") = sent["in"][taken'["in"]] /\ Next1("in") \in Item
  BY <1>0, <1>1, TakingIsFaithful
<1>3. PICK x \in Item : x = Collected(Next1("in")) /\ SameItem(x, Next1("in"))
  BY <1>2, CollectedIsSame
<1>4. /\ hand' = [d \in Directions |-> hand'[d]] /\ hand'["in"] = <<x>> /\ hand'["out"] = hand["out"]
      /\ taken'["out"] = taken["out"]
  BY <1>0, <1>3 DEF DataTypeOK, Directions, Reads
<1>5. Holds("in", x)'
  BY <1>0, <1>1, <1>2, <1>3 DEF Holds, InStep, SameItem
<1>6. Position("in")'
  BY <1>0, <1>4, <1>5 DEF Position, Early, Copies
<1>7. Evidence("in")'
  BY <1>0, <1>1, EvidenceStays
<1>8. DirectionInv("out")'
  BY <1>0, <1>4, OutStays
<1>9. DataTypeOK'
  BY <1>0, <1>2, <1>4 DEF DataTypeOK
<1>10. TunnelRow \notin ToSet(rows')
  BY <1>0, NoRowYet
<1>11. QED
  BY <1>0, <1>2, <1>6, <1>7, <1>8, <1>9, <1>10, ParsingStep DEF DirectionInv

LEMMA HttpLogsStep ==
    ASSUME DataInv, HttpLogs
    PROVE  DataInv'
<1>0. /\ DataTypeOK /\ pc = "read" /\ pc' = "logged" /\ pc \in Parses /\ pc' \in Parses /\ pc # "ended"
      /\ "in" \in Directions /\ \A d \in Directions : d = "out" \/ d = "in"
      /\ UNCHANGED <<conn, sent, taken, hand, got, over, broken, closed>>
  BY DEF DataInv, HttpLogs, Goto, Parses, Directions, streams
<1>1. Faithful("in") /\ Evidence("in") /\ Position("in")
  BY <1>0 DEF DataInv, DirectionInv
<1>2. PICK x \in Item : hand["in"] = <<x>> /\ Holds("in", x)
  BY <1>0, <1>1 DEF Position
<1>3. Log(HttpRow(x)) /\ HttpRow(x) \in Row /\ HttpRow(x) # TunnelRow
  BY <1>2, RowsDiffer DEF HttpLogs, HttpRow
<1>4. rows' \in Seq(Row) /\ ToSet(rows') = ToSet(rows) \cup {HttpRow(x)}
  BY <1>0, <1>3, LogGrows
<1>5. Holds("in", x)'
  BY <1>0, <1>2 DEF Holds, SameItem
<1>6. Position("in")'
  BY <1>0, <1>2, <1>4, <1>5 DEF Position, Early, Copies
<1>7. Faithful("in")' /\ Evidence("in")'
  BY <1>0, <1>1, <1>4, FaithfulStays, EvidenceStays
<1>8. DirectionInv("out")'
  BY <1>0, <1>4, OutStays
<1>9. DataTypeOK'
  BY <1>0, <1>4 DEF DataTypeOK
<1>10. TunnelRow \notin ToSet(rows')
  BY <1>0, <1>3, <1>4, NoRowYet
<1>11. QED
  BY <1>0, <1>6, <1>7, <1>8, <1>9, <1>10, ParsingStep DEF DirectionInv

LEMMA HttpAnswersStep ==
    ASSUME DataInv, HttpAnswers
    PROVE  DataInv'
<1>0. /\ DataTypeOK /\ pc = "logged" /\ pc' = "http" /\ pc \in Parses /\ pc' \in Parses /\ pc # "ended"
      /\ "in" \in Directions /\ \A d \in Directions : d = "out" \/ d = "in"
      /\ UNCHANGED <<conn, sent, taken, over, broken, closed, rows>>
      /\ conn.kind = "connect"
  BY DEF DataInv, HttpAnswers, Goto, Parses, Directions, Way
<1>1. Faithful("in") /\ Evidence("in") /\ Position("in")
  BY <1>0 DEF DataInv, DirectionInv
<1>2. PICK x \in Item : hand["in"] = <<x>> /\ Holds("in", x) /\ HttpRow(x) \in ToSet(rows)
  BY <1>0, <1>1 DEF Position
<1>3. got' = [got EXCEPT !["in"] = Append(@, x)] /\ hand' = [hand EXCEPT !["in"] = <<>>]
  BY <1>2 DEF HttpAnswers
<1>4. /\ Faithful("in")' /\ got' \in [Directions -> Seq(Item)] /\ Len(got'["in"]) = taken["in"]
      /\ \A i \in 1 .. Len(got'["in"]) :
             got'["in"][i] = x \/ (i \in 1 .. Len(got["in"]) /\ got'["in"][i] = got["in"][i])
  BY <1>0, <1>1, <1>2, <1>3, PassingIsFaithful
<1>5. Evidence("in")'
  BY <1>0, <1>1, <1>2, <1>4, PassingIsEvident
<1>6. /\ hand' = [d \in Directions |-> hand'[d]] /\ hand'["in"] = <<>> /\ hand'["out"] = hand["out"]
      /\ got'["out"] = got["out"]
  BY <1>0, <1>3 DEF DataTypeOK, Directions
<1>7. Position("in")'
  BY <1>0, <1>4, <1>6 DEF Position, InStep, Early, Copies
<1>8. DirectionInv("out")'
  BY <1>0, <1>6, OutStays
<1>9. DataTypeOK'
  BY <1>0, <1>4, <1>6 DEF DataTypeOK
<1>10. TunnelRow \notin ToSet(rows')
  BY <1>0, NoRowYet
<1>11. QED
  BY <1>0, <1>4, <1>5, <1>7, <1>8, <1>9, <1>10, ParsingStep DEF DirectionInv

\* The connection ends where it is.
LEMMA HttpEndsStep ==
    ASSUME DataInv, HttpEnds
    PROVE  DataInv'
<1>1. /\ pc # "ended" /\ End /\ UNCHANGED <<conn, sent, taken, hand, got, over, broken, rows>>
  BY DEF HttpEnds
<1>2. DataTypeOK'
  BY <1>1 DEF DataInv, DataTypeOK, End, Goto
<1>3. pc' \notin Parses
  BY <1>1 DEF End, Goto, Parses
<1>4. \A d \in Directions : Faithful(d)' /\ Evidence(d)'
  BY <1>1, <1>3, FaithfulStays, EvidenceStays DEF DataInv, DirectionInv
<1>5. QED
  BY <1>1, <1>2, <1>4, NoRowYet, EndingStep

-----------------------------------------------------------------------------
(* The relay of a WebSocket.                                               *)

\* A step of one direction, which the other does not notice.
LEMMA RelayStep ==
    ASSUME DataInv, NEW d \in Directions, pc = "relay", pc' = "relay",
           UNCHANGED <<conn, sent, over, broken, closed>>,
           \A e \in Directions \ {d} : UNCHANGED <<taken[e], hand[e], got[e]>>,
           ToSet(rows) \subseteq ToSet(rows'), TunnelRow \notin ToSet(rows'),
           DataTypeOK', DirectionInv(d)'
    PROVE  DataInv'
<1>1. over = {} /\ conn.kind = "websocket"
  BY DEF DataInv, Way, Copies
<1>2. Way'
  BY <1>1 DEF Way, Parses, Copies
<1>3. CopyInv'
  BY <1>1 DEF CopyInv
<1>4. \A e \in Directions \ {d} : DirectionInv(e)'
  BY <1>1, DirectionStays DEF DataInv
<1>5. QED
  BY <1>2, <1>3, <1>4 DEF DataInv

\* What a direction holds while frames are relayed.
LEMMA HeldFrame ==
    ASSUME DataInv, NEW d \in Directions, pc = "relay", hand[d] # <<>>
    PROVE  \E x \in Item, due \in BOOLEAN :
               /\ hand[d] = <<[item |-> x, due |-> due]>> /\ Holds(d, x)
               /\ Logged(x[2]) /\ ~due => FrameRow(d, x) \in ToSet(rows)
BY DEF DataInv, DirectionInv, Position, InStep

LEMMA RelayTakesStep ==
    ASSUME DataInv, NEW d \in Directions, RelayTakes(d)
    PROVE  DataInv'
<1>0. /\ DataTypeOK /\ pc = "relay" /\ pc' = "relay" /\ pc # "ended" /\ hand[d] = <<>>
      /\ conn.kind = "websocket" /\ Waits(d) /\ Reads(d)
      /\ UNCHANGED <<conn, sent, got, over, broken, closed, rows>>
  BY DEF DataInv, RelayTakes, Way
<1>1. Faithful(d) /\ Evidence(d) /\ InStep(d)
  <2>1. Faithful(d) /\ Evidence(d) /\ Position(d)
    BY DEF DataInv, DirectionInv
  <2>2. \A frame : hand[d] # <<frame>>
    BY <1>0
  <2>3. QED
    BY <1>0, <2>1, <2>2 DEF Position
<1>2. /\ Faithful(d)' /\ taken' \in [Directions -> Nat] /\ taken'[d] = taken[d] + 1
      /\ Next1(d) = sent[d][taken'[d]] /\ Next1(d) \in Item
  BY <1>0, <1>1, TakingIsFaithful
<1>3. PICK y \in Item : y = Next1(d)
  BY <1>2
<1>4. PICK f : /\ f = y[2] \/ (y[2] = "create" /\ f = "create+")
               /\ hand' = [hand EXCEPT ![d] = <<[item |-> <<y[1], f>>, due |-> Logged(f)]>>]
  BY <1>3 DEF RelayTakes, Transform
<1>5. PICK x \in Item : x = <<y[1], f>> /\ SameItem(x, y)
  BY <1>0, <1>4, Items DEF SameItem
<1>6. PICK due \in BOOLEAN : due = Logged(f)
  BY DEF Logged
<1>7. hand' = [hand EXCEPT ![d] = <<[item |-> x, due |-> due]>>]
  BY <1>4, <1>5, <1>6
<1>8. /\ hand' = [e \in Directions |-> hand'[e]] /\ hand'[d] = <<[item |-> x, due |-> due]>>
      /\ \A e \in Directions \ {d} : hand'[e] = hand[e] /\ taken'[e] = taken[e]
  BY <1>0, <1>7 DEF DataTypeOK, Reads
<1>9. Holds(d, x)'
  BY <1>0, <1>1, <1>2, <1>3, <1>5 DEF Holds, InStep, SameItem
<1>10. Logged(x[2]) => due
  BY <1>5, <1>6
<1>11. Position(d)'
  BY <1>0, <1>8, <1>9, <1>10 DEF Position, Early, Copies
<1>12. Evidence(d)'
  BY <1>0, <1>1, EvidenceStays DEF Parses
<1>13. DataTypeOK'
  BY <1>0, <1>2, <1>8 DEF DataTypeOK
<1>14. TunnelRow \notin ToSet(rows')
  BY <1>0, NoRowYet
<1>15. QED
  BY <1>0, <1>2, <1>8, <1>11, <1>12, <1>13, <1>14, RelayStep DEF DirectionInv

\* What the log leaves of a frame in hand.
LEMMA FrameLogged ==
    ASSUME NEW x, NEW frame, frame = [item |-> x, due |-> frame.due], NEW due
    PROVE  [frame EXCEPT !.due = due] = [item |-> x, due |-> due]
OBVIOUS

LEMMA RelayLogsStep ==
    ASSUME DataInv, NEW d \in Directions, RelayLogs(d)
    PROVE  DataInv'
<1>0. /\ DataTypeOK /\ pc = "relay" /\ pc' = "relay" /\ pc # "ended" /\ hand[d] # <<>>
      /\ UNCHANGED <<conn, sent, taken, got, over, broken, closed>>
  BY DEF DataInv, RelayLogs
<1>1. PICK x \in Item, due \in BOOLEAN : hand[d] = <<[item |-> x, due |-> due]>> /\ Holds(d, x)
  BY <1>0, HeldFrame
<1>2. Faithful(d) /\ Evidence(d)
  BY DEF DataInv, DirectionInv
<1>3. hand' = [hand EXCEPT ![d] = [hand[d] EXCEPT ![1] = [hand[d][1] EXCEPT !.due = FALSE]]]
  BY DEF RelayLogs
<1>4. [hand[d] EXCEPT ![1] = [hand[d][1] EXCEPT !.due = FALSE]] = <<[item |-> x, due |-> FALSE]>>
  <2>1. PICK held : held = [item |-> x, due |-> due] /\ hand[d] = <<held>>
    BY <1>1
  <2>2. held = [item |-> x, due |-> held.due]
    BY <2>1
  <2>3. PICK frame : frame = [item |-> x, due |-> FALSE]
    OBVIOUS
  <2>4. [held EXCEPT !.due = FALSE] = frame
    BY <2>2, <2>3, FrameLogged
  <2>5. hand[d][1] = held
    BY <2>1
  <2>6. [<<held>> EXCEPT ![1] = frame] = <<frame>>
    OBVIOUS
  <2>7. QED
    BY <2>1, <2>3, <2>4, <2>5, <2>6
<1>5. /\ hand' = [e \in Directions |-> hand'[e]] /\ hand'[d] = <<[item |-> x, due |-> FALSE]>>
      /\ \A e \in Directions \ {d} : hand'[e] = hand[e]
  BY <1>0, <1>3, <1>4 DEF DataTypeOK
<1>6. Log(FrameRow(d, x)) /\ FrameRow(d, x) \in Row /\ FrameRow(d, x) # TunnelRow
  BY <1>1, RowsDiffer DEF RelayLogs, FrameRow
<1>7. rows' \in Seq(Row) /\ ToSet(rows') = ToSet(rows) \cup {FrameRow(d, x)}
  BY <1>0, <1>6, LogGrows
<1>8. Holds(d, x)'
  BY <1>0, <1>1 DEF Holds, SameItem
<1>9. Position(d)'
  BY <1>0, <1>5, <1>7, <1>8 DEF Position, Early, Copies
<1>10. Faithful(d)' /\ Evidence(d)'
  BY <1>0, <1>2, <1>7, FaithfulStays, EvidenceStays DEF Parses
<1>11. DataTypeOK'
  BY <1>0, <1>5, <1>7 DEF DataTypeOK
<1>12. TunnelRow \notin ToSet(rows')
  BY <1>0, <1>6, <1>7, NoRowYet
<1>13. QED
  BY <1>0, <1>5, <1>7, <1>9, <1>10, <1>11, <1>12, RelayStep DEF DirectionInv

LEMMA RelaySendsStep ==
    ASSUME DataInv, NEW d \in Directions, RelaySends(d)
    PROVE  DataInv'
<1>0. /\ DataTypeOK /\ pc = "relay" /\ pc # "ended" /\ hand[d] # <<>> /\ ~hand[d][1].due
      /\ conn.kind = "websocket"
      /\ UNCHANGED <<conn, sent, taken, over, rows>> /\ hand' = [hand EXCEPT ![d] = <<>>]
  BY DEF DataInv, RelaySends, Way
<1>1. PICK x \in Item, due \in BOOLEAN :
         /\ hand[d] = <<[item |-> x, due |-> due]>> /\ Holds(d, x)
         /\ Logged(x[2]) /\ ~due => FrameRow(d, x) \in ToSet(rows)
  BY <1>0, HeldFrame
<1>2. hand[d][1].item = x /\ (Logged(x[2]) => FrameRow(d, x) \in ToSet(rows))
  BY <1>0, <1>1
<1>3. /\ hand' = [e \in Directions |-> hand'[e]] /\ hand'[d] = <<>>
      /\ \A e \in Directions \ {d} : hand'[e] = hand[e]
  BY <1>0 DEF DataTypeOK
<1>4. TunnelRow \notin ToSet(rows')
  BY <1>0, NoRowYet
<1>5. CASE End /\ broken' = TRUE /\ UNCHANGED got
  <2>1. DataTypeOK'
    BY <1>0, <1>3, <1>5 DEF DataTypeOK, End, Goto
  <2>2. pc' \notin Parses
    BY <1>5 DEF End, Goto, Parses
  <2>3. \A e \in Directions : Faithful(e)' /\ Evidence(e)'
    BY <1>0, <1>5, <2>2, FaithfulStays, EvidenceStays DEF DataInv, DirectionInv
  <2>4. QED
    BY <1>0, <1>4, <1>5, <2>1, <2>3, EndingStep
<1>6. CASE got' = [got EXCEPT ![d] = Append(@, x)] /\ UNCHANGED broken
  <2>1. Faithful(d) /\ Evidence(d)
    BY DEF DataInv, DirectionInv
  <2>2. /\ Faithful(d)' /\ got' \in [Directions -> Seq(Item)] /\ Len(got'[d]) = taken[d]
        /\ \A i \in 1 .. Len(got'[d]) : got'[d][i] = x \/ (i \in 1 .. Len(got[d]) /\ got'[d][i] = got[d][i])
    BY <1>0, <1>1, <1>6, <2>1, PassingIsFaithful
  <2>3. pc' \in {"relay", "ended"}
    BY <1>0, <1>6 DEF RelaySends, End, Goto
  <2>4. Evidence(d)'
    BY <1>0, <1>2, <2>1, <2>2, <2>3, PassingIsEvident DEF Parses
  <2>5. \A e \in Directions \ {d} : got'[e] = got[e]
    BY <1>0, <1>6 DEF DataTypeOK
  <2>6. CASE End
    <3>1. DataTypeOK'
      BY <1>0, <1>3, <1>6, <2>2, <2>6 DEF DataTypeOK, End, Goto
    <3>2. \A e \in Directions \ {d} : Faithful(e)' /\ Evidence(e)'
      BY <1>0, <2>3, <2>5, FaithfulStays, EvidenceStays DEF DataInv, DirectionInv, Parses
    <3>3. QED
      BY <1>0, <1>4, <2>2, <2>4, <2>6, <3>1, <3>2, EndingStep
  <2>7. CASE UNCHANGED <<pc, closed>>
    <3>1. DataTypeOK'
      BY <1>0, <1>3, <1>6, <2>2, <2>7 DEF DataTypeOK
    <3>2. InStep(d)'
      BY <1>0, <1>3, <2>2 DEF InStep
    <3>3. Position(d)'
      BY <1>0, <2>7, <3>2 DEF Position, Early, Copies
    <3>4. QED
      BY <1>0, <1>3, <1>4, <1>6, <2>2, <2>4, <2>5, <2>7, <3>1, <3>3, RelayStep DEF DirectionInv
  <2>8. QED
    BY <1>2, <1>6, <2>6, <2>7 DEF RelaySends
<1>7. QED
  BY <1>2, <1>5, <1>6 DEF RelaySends

LEMMA RelayEndsStep ==
    ASSUME DataInv, NEW d \in Directions, RelayEnds(d)
    PROVE  DataInv'
<1>1. /\ pc # "ended" /\ End /\ UNCHANGED <<conn, sent, taken, hand, got, over, broken, rows>>
  BY DEF RelayEnds
<1>2. DataTypeOK'
  BY <1>1 DEF DataInv, DataTypeOK, End, Goto
<1>3. pc' \notin Parses
  BY <1>1 DEF End, Goto, Parses
<1>4. \A e \in Directions : Faithful(e)' /\ Evidence(e)'
  BY <1>1, <1>3, FaithfulStays, EvidenceStays DEF DataInv, DirectionInv
<1>5. QED
  BY <1>1, <1>2, <1>4, NoRowYet, EndingStep

-----------------------------------------------------------------------------
(* DataInv is inductive and says that the data arrives.                    *)
LEMMA DataInit == Init => DataInv
<1> SUFFICES ASSUME Init PROVE DataInv
  OBVIOUS
<1>1. DataTypeOK
  <2>1. /\ sent \in [Directions -> Seq(Item)] /\ got \in [Directions -> Seq(Item)]
        /\ taken \in [Directions -> Nat] /\ rows \in Seq(Row)
    BY DEF Init
  <2>2. hand = [d \in Directions |-> hand[d]]
    BY DEF Init
  <2>3. /\ conn \in Requests /\ pc = "none"
        /\ over = {} /\ broken = FALSE /\ closed = {}
    BY DEF Init
  <2>4. QED
    BY <2>1, <2>2, <2>3 DEF DataTypeOK, Early
<1>2. Way
  BY DEF Init, Way, Copies, Parses
<1>3. \A d \in Directions : sent[d] = <<>> /\ got[d] = <<>> /\ taken[d] = 0 /\ hand[d] = <<>>
  BY DEF Init
<1>4. \A d \in Directions : Len(sent[d]) = 0 /\ Len(got[d]) = 0
  BY <1>3
<1>5. \A i \in 1 .. 0 : FALSE
  OBVIOUS
<1>6. ASSUME NEW d \in Directions PROVE Faithful(d) /\ Evidence(d) /\ InStep(d)
  BY <1>3, <1>4, <1>5 DEF Faithful, Evidence, InStep
<1>7. \A d \in Directions : Position(d)
  BY <1>3, <1>6 DEF Init, Position, Early, Copies
<1>8. ToSet(rows) = {}
  BY DEF Init, ToSet
<1>9. CopyInv
  BY <1>8 DEF Init, CopyInv, Copies
<1>10. QED
  BY <1>1, <1>2, <1>6, <1>7, <1>9 DEF DataInv, DirectionInv

LEMMA DataStep == DataInv /\ [Next]_vars => DataInv'
<1> SUFFICES ASSUME DataInv, [Next]_vars PROVE DataInv'
  OBVIOUS
<1>1. CASE Operator \/ UNCHANGED vars
  <2>1. UNCHANGED <<conn, pc, streams, rows>>
    BY <1>1 DEF Operator, SetMode, SetRules, AddRule, RemoveRule, SetInject, Edit, vars
  <2>2. QED
    BY <2>1, SettingsDoNotMatter
<1>2. CASE Ends
  BY <1>2, SendStep, CloseStep DEF Ends
<1>3. CASE Proxy
  BY <1>3, CheckSteps, DialSteps, ShakeSteps, SniffStep, CopyStep, CopyReturnsStep, CopyJoinedStep,
     HttpForwardStep, HttpReadsStep, HttpLogsStep, HttpAnswersStep, HttpEndsStep,
     RelayTakesStep, RelayLogsStep, RelaySendsStep, RelayEndsStep DEF Proxy
<1>4. QED
  BY <1>1, <1>2, <1>3, CheckSteps DEF Next

LEMMA DataInvArrives == DataInv => DataArrives
<1> SUFFICES ASSUME DataInv PROVE DataArrives
  OBVIOUS
<1>0. DataTypeOK /\ Way /\ CopyInv /\ \A d \in Directions : DirectionInv(d)
  BY DEF DataInv
<1>1. DeliveredInOrder
  <2>1. SUFFICES ASSUME NEW d \in Directions, NEW i \in DOMAIN got[d]
                 PROVE  got[d][i][1] = i /\ Becomes(sent[d][i][2], got[d][i][2])
    BY DEF DeliveredInOrder
  <2>2. got[d] \in Seq(Item) /\ sent[d] \in Seq(Item) /\ taken[d] \in Nat
    BY <1>0 DEF DataTypeOK
  <2>3. i \in 1 .. Len(got[d]) /\ i \in 1 .. Len(sent[d])
    BY <1>0, <2>2 DEF DirectionInv, Faithful
  <2>4. SameItem(got[d][i], sent[d][i]) /\ sent[d][i][1] = i
    BY <1>0, <2>3 DEF DirectionInv, Faithful
  <2>5. QED
    BY <2>4 DEF SameItem, Becomes
<1>2. NothingLost
  BY <1>0 DEF NothingLost, CopyInv, Whole, TunnelRow
<1>3. EvidencePrecedesDelivery
  <2>1. \A d \in Directions : DOMAIN got[d] = 1 .. Len(got[d])
    BY <1>0 DEF DataTypeOK
  <2>2. "in" \in Directions
    BY DEF Directions
  <2>3. QED
    BY <1>0, <2>1, <2>2 DEF EvidencePrecedesDelivery, DirectionInv, Evidence, Parses, HttpRow, FrameRow
<1>4. QED
  BY <1>1, <1>2, <1>3 DEF DataArrives

(* Whichever way a connection is carried (copied, put back after sniffing, *)
(* parsed as HTTP, relayed frame by frame) and wherever it breaks off: an  *)
(* end receives what the other sent, in order and without a gap, nothing   *)
(* before the row that proves it, and everything if the tunnel ended well. *)
THEOREM TunnelsCarry == Spec => []DataArrives
BY DataInit, DataStep, DataInvArrives, PTL DEF Spec
=============================================================================
