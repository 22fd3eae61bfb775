------------------------ MODULE CacheAndLocks_proofs ------------------------
(***************************************************************************)
(* Proofs about the two parts that the run cache checks: the locks, and    *)
(* the cache of messages with the files behind it.                         *)
(***************************************************************************)
EXTENDS SharedLocks, MessageCache, SequenceFacts

(***************************************************************************)
(* SharedLocks: tasks can wait for each other for ever only over           *)
(* session_paths, for any number of requests and whatever each handler     *)
(* does.                                                                   *)
(*                                                                         *)
(* All handlers take their locks in one order, Rank, but for two: one is   *)
(* what the theorem excuses, the other is startup, which reads the plan    *)
(* mapping while it holds the managed paths.  That is harmless, for whoever*)
(* else takes the two has the manager for itself.  LocksInv says that each *)
(* task is on its way through a program that keeps to this, that queues and*)
(* guards are consistent, and NoKnot that then nobody of a circle waits for*)
(* the last lock in the order.                                             *)
(***************************************************************************)

Guards == [op : {"read", "write"}, lock : Locks]
Steps == [op : {"read", "write", "free"}, lock : Locks]

\* The order in which tasks lock, but for two exceptions.
Rank(l) ==
    CASE l = "session_manager" -> 0
      [] l = "ecs" -> 1
      [] l = "session_paths" -> 2
      [] l = "session_cli_types" -> 3
      [] l = "message_count_hints" -> 4
      [] l = "session_plan_mapping" -> 5
      [] l = "managed_session_paths" -> 6
      [] OTHER -> 7

Manager == Step("write", "session_manager")
Plans(op) == Step(op, "session_plan_mapping")
Paths(op) == Step(op, "managed_session_paths")

\* One exception is the one of the theorem.
Excused(stack, w) ==
    /\ \E i \in DOMAIN stack : stack[i].lock = "session_paths"
    /\ w.lock \in {"ecs", "session_paths"}

\* In order, and whoever creates a session has the manager for itself.
ByRank(h, stack, w) ==
    /\ \A i \in DOMAIN stack : Rank(stack[i].lock) < Rank(w.lock) /\ stack[i] # Plans("write")
    /\ w = Paths("write") =>
          h \in {"session", "rescan"} \/ \E i \in DOMAIN stack : stack[i] = Manager
    /\ w.lock = "session_plan_mapping" =>
          h = "startup" \/ \E i \in DOMAIN stack : stack[i] = Manager

\* The other: startup holds the managed paths while it reads the plan mapping.
AtStartup(h, stack, w) == h = "startup" /\ stack = <<Paths("read")>> /\ w = Plans("read")

MayAsk(h, stack, w) == Excused(stack, w) \/ ByRank(h, stack, w) \/ AtStartup(h, stack, w)

\* A handler that has these guards can take these steps, one after the other, and has
\* those guards then: f lists the guards in between.
Leads(h, before, steps, after, f) ==
    /\ f[0] = before /\ f[Len(steps)] = after
    /\ \A i \in 0 .. Len(steps) : f[i] \in Seq(Guards)
    /\ \A i \in 1 .. Len(steps) :
          IF steps[i].op = "free" THEN f[i - 1] # <<>> /\ f[i] = Front(f[i - 1])
          ELSE f[i] = Append(f[i - 1], steps[i]) /\ MayAsk(h, f[i - 1], steps[i])
Led(h, before, steps, after) == \E f : Leads(h, before, steps, after, f)
Fine(h, base, steps) == base \in Seq(Guards) /\ steps \in Seq(Steps) /\ Led(h, base, steps, base)

LEMMA FrontOfAppend ==
    ASSUME NEW S, NEW s \in Seq(S), NEW x \in S
    PROVE  Append(s, x) # <<>> /\ Front(Append(s, x)) = s
<1>1. PICK t : t = Append(s, x)
  OBVIOUS
<1>2. PICK n \in Nat : n = Len(s)
  OBVIOUS
<1>3. Len(t) = n + 1 /\ \A i \in 1 .. n : t[i] = s[i]
  BY <1>1, <1>2, AppendProperties
<1>4. Front(t) = [i \in 1 .. n |-> t[i]]
  BY <1>3 DEF Front
<1>5. s = [i \in 1 .. n |-> s[i]]
  BY <1>2
<1>6. t # <<>>
  BY <1>1, AppendProperties
<1> QED BY <1>1, <1>3, <1>4, <1>5, <1>6

LEMMA FineNothing == ASSUME NEW h, NEW base \in Seq(Guards) PROVE Fine(h, base, Nothing)
<1>1. Nothing \in Seq(Steps) /\ Len(Nothing) = 0
  BY NoneIsSeq DEF Nothing
<1>2. PICK f : f = [i \in {0} |-> base]
  OBVIOUS
<1>3. Leads(h, base, Nothing, base, f)
  BY <1>1, <1>2 DEF Leads
<1> QED BY <1>1, <1>3 DEF Fine, Led

LEMMA FineThen ==
    ASSUME NEW h, NEW base, NEW x, NEW y, Fine(h, base, x), Fine(h, base, y)
    PROVE  Fine(h, base, x \o y)
<1>1. PICK f : Leads(h, base, x, base, f)
  BY DEF Fine, Led
<1>2. PICK g : Leads(h, base, y, base, g)
  BY DEF Fine, Led
<1>3. x \in Seq(Steps) /\ y \in Seq(Steps)
  BY DEF Fine
<1>4. PICK m \in Nat, n \in Nat : m = Len(x) /\ n = Len(y)
  BY <1>3
<1>5. PICK z \in Seq(Steps) : z = x \o y /\ Len(z) = m + n
  BY <1>3, <1>4, ConcatProperties
<1>6. /\ \A i \in 1 .. m : z[i] = x[i]
      /\ \A i \in m + 1 .. m + n : z[i] = y[i - m]
  BY <1>3, <1>4, <1>5, ConcatProperties
<1>7. PICK e : e = [i \in 0 .. m + n |-> IF i <= m THEN f[i] ELSE g[i - m]]
  OBVIOUS
<1>8. /\ \A i \in 0 .. m : e[i] = f[i]
      /\ \A i \in m .. m + n : e[i] = g[i - m]
  <2>1. f[m] = base /\ g[0] = base
    BY <1>1, <1>2, <1>4 DEF Leads
  <2>2. \A i \in 0 .. m : e[i] = f[i]
    BY <1>7
  <2>3. ASSUME NEW i \in m .. m + n PROVE e[i] = g[i - m]
    <3>1. CASE i = m
      <4>1. i - m = 0 /\ e[i] = f[m]
        BY <2>2, <3>1
      <4> QED BY <2>1, <4>1
    <3>2. CASE i > m
      BY <1>7, <3>2
    <3> QED BY <3>1, <3>2
  <2> QED BY <2>2, <2>3
<1>9. e[0] = base /\ e[m + n] = base
  <2>1. f[0] = base /\ g[n] = base
    BY <1>1, <1>2, <1>4 DEF Leads
  <2>2. 0 \in 0 .. m /\ m + n \in m .. m + n /\ (m + n) - m = n
    OBVIOUS
  <2> QED BY <1>8, <2>1, <2>2
<1>10. \A i \in 0 .. m + n : e[i] \in Seq(Guards)
  <2>1. \A i \in 0 .. m + n : i \in 0 .. m \/ (i \in m .. m + n /\ i - m \in 0 .. n)
    OBVIOUS
  <2> QED BY <1>1, <1>2, <1>4, <1>8, <2>1 DEF Leads
<1>11. ASSUME NEW i \in 1 .. m + n
       PROVE  IF z[i].op = "free" THEN e[i - 1] # <<>> /\ e[i] = Front(e[i - 1])
              ELSE e[i] = Append(e[i - 1], z[i]) /\ MayAsk(h, e[i - 1], z[i])
  <2>1. CASE i <= m
    <3>1. i \in 1 .. m /\ z[i] = x[i] /\ e[i] = f[i] /\ e[i - 1] = f[i - 1]
      BY <1>6, <1>8, <2>1
    <3> QED BY <1>1, <1>4, <3>1 DEF Leads
  <2>2. CASE i > m
    <3>1. i - m \in 1 .. n /\ z[i] = y[i - m] /\ e[i] = g[i - m] /\ e[i - 1] = g[(i - m) - 1]
      <4>1. (i - 1) - m = (i - m) - 1 /\ i - 1 \in m .. m + n /\ i \in m + 1 .. m + n
        BY <2>2
      <4>2. i - m \in 1 .. n /\ i \in m .. m + n
        BY <2>2
      <4>3. e[i - 1] = g[(i - 1) - m]
        BY <1>8, <4>1
      <4> QED BY <1>6, <1>8, <4>1, <4>2, <4>3
    <3> QED BY <1>2, <1>4, <3>1 DEF Leads
  <2> QED BY <2>1, <2>2
<1>12. Leads(h, base, z, base, e)
  BY <1>5, <1>9, <1>10, <1>11 DEF Leads
<1> QED BY <1>5, <1>12 DEF Fine, Led

\* A guard around something fine.
LEMMA FineAround ==
    ASSUME NEW h, NEW base \in Seq(Guards), NEW g \in Guards, NEW body, NEW l \in Locks,
           MayAsk(h, base, g), Fine(h, Append(base, g), body)
    PROVE  Fine(h, base, <<g>> \o body \o <<Step("free", l)>>)
<1>1. PICK e : Leads(h, Append(base, g), body, Append(base, g), e)
  BY DEF Fine, Led
<1>2. body \in Seq(Steps)
  BY DEF Fine
<1>3. PICK n \in Nat : n = Len(body)
  BY <1>2
<1>4. PICK d \in Seq(Guards) : d = Append(base, g)
  BY AppendProperties
<1>5. d # <<>> /\ Front(d) = base
  BY <1>4, FrontOfAppend
<1>6. PICK free : free = Step("free", l)
  OBVIOUS
<1>7. free \in Steps /\ free.op = "free" /\ g \in Steps /\ g.op # "free"
  BY <1>6 DEF Step, Guards, Steps
<1>8. PICK z : z = <<g>> \o body \o <<free>>
  OBVIOUS
<1>9. /\ z \in Seq(Steps) /\ Len(z) = n + 2
      /\ z[1] = g /\ z[n + 2] = free /\ \A i \in 1 .. n : z[i + 1] = body[i]
  <2> HIDE DEF Steps
  <2> QED BY <1>2, <1>3, <1>7, <1>8, AroundSeq
<1>10. PICK f : f = [i \in 0 .. n + 2 |-> IF i = 0 \/ i = n + 2 THEN base ELSE e[i - 1]]
  OBVIOUS
<1>11. /\ f[0] = base /\ f[n + 2] = base
       /\ \A i \in 0 .. n : f[i + 1] = e[i]
  <2>1. \A i \in 0 .. n : i + 1 \in 0 .. n + 2 /\ i + 1 # 0 /\ i + 1 # n + 2 /\ (i + 1) - 1 = i
    OBVIOUS
  <2> QED BY <1>10, <2>1
<1>12. e[0] = d /\ e[n] = d
  BY <1>1, <1>3, <1>4 DEF Leads
<1>13. \A i \in 0 .. n + 2 : f[i] \in Seq(Guards)
  <2>1. \A i \in 0 .. n + 2 : i = 0 \/ i = n + 2 \/ (i - 1 \in 0 .. n /\ i = (i - 1) + 1)
    OBVIOUS
  <2>2. \A i \in 0 .. n : e[i] \in Seq(Guards)
    BY <1>1, <1>3 DEF Leads
  <2> QED BY <1>11, <2>1, <2>2
<1>14. ASSUME NEW i \in 1 .. n + 2
       PROVE  IF z[i].op = "free" THEN f[i - 1] # <<>> /\ f[i] = Front(f[i - 1])
              ELSE f[i] = Append(f[i - 1], z[i]) /\ MayAsk(h, f[i - 1], z[i])
  <2>1. CASE i = 1
    <3>1. f[i - 1] = base /\ f[i] = d /\ z[i] = g
      <4>1. 0 \in 0 .. n /\ i = 0 + 1 /\ i - 1 = 0
        BY <2>1
      <4> QED BY <1>9, <1>11, <1>12, <4>1
    <3> QED BY <1>4, <1>7, <3>1
  <2>2. CASE i = n + 2
    <3>1. f[i - 1] = d /\ f[i] = base /\ z[i] = free
      <4>1. n \in 0 .. n /\ i - 1 = n + 1
        BY <2>2
      <4> QED BY <1>9, <1>11, <1>12, <2>2, <4>1
    <3> QED BY <1>5, <1>7, <3>1
  <2>3. CASE i # 1 /\ i # n + 2
    <3>1. PICK k \in 1 .. n : i = k + 1
      <4>1. i - 1 \in 1 .. n /\ i = (i - 1) + 1
        BY <2>3
      <4> QED BY <4>1
    <3>2. f[i] = e[k] /\ f[i - 1] = e[k - 1] /\ z[i] = body[k]
      <4>1. k \in 0 .. n /\ k - 1 \in 0 .. n /\ i - 1 = (k - 1) + 1
        BY <3>1
      <4> QED BY <1>9, <1>11, <3>1, <4>1
    <3> QED BY <1>1, <1>3, <3>2 DEF Leads
  <2> QED BY <2>1, <2>2, <2>3
<1>15. Leads(h, base, z, base, f)
  BY <1>9, <1>11, <1>13, <1>14 DEF Leads
<1> QED BY <1>6, <1>8, <1>9, <1>15 DEF Fine, Led

-----------------------------------------------------------------------------
(* The handlers' programs keep to the order. *)

LEMMA FineStep ==
    ASSUME NEW h, NEW base \in Seq(Guards), NEW op \in {"read", "write"}, NEW l \in Locks, NEW body,
           MayAsk(h, base, Step(op, l)), Fine(h, Append(base, Step(op, l)), body)
    PROVE  Fine(h, base, <<Step(op, l)>> \o body \o <<Step("free", l)>>)
<1>1. PICK g \in Guards : g = Step(op, l)
  BY DEF Step, Guards
<1> QED BY <1>1, FineAround

LEMMA FineReading ==
    ASSUME NEW h, NEW base \in Seq(Guards), NEW l \in Locks, NEW body,
           MayAsk(h, base, Step("read", l)), Fine(h, Append(base, Step("read", l)), body)
    PROVE  Fine(h, base, Reading(l, body))
BY FineStep DEF Reading

LEMMA FineWriting ==
    ASSUME NEW h, NEW base \in Seq(Guards), NEW l \in Locks, NEW body,
           MayAsk(h, base, Step("write", l)), Fine(h, Append(base, Step("write", l)), body)
    PROVE  Fine(h, base, Writing(l, body))
BY FineStep DEF Writing

LEMMA FineJust ==
    ASSUME NEW h, NEW base \in Seq(Guards), NEW l \in Locks
    PROVE  /\ MayAsk(h, base, Step("read", l)) => Fine(h, base, JustRead(l))
           /\ MayAsk(h, base, Step("write", l)) => Fine(h, base, JustWrite(l))
<1>1. Step("read", l) \in Guards /\ Step("write", l) \in Guards
  BY DEF Step, Guards
<1>2. Append(base, Step("read", l)) \in Seq(Guards) /\ Append(base, Step("write", l)) \in Seq(Guards)
  BY <1>1, AppendProperties
<1>3. Fine(h, Append(base, Step("read", l)), Nothing) /\ Fine(h, Append(base, Step("write", l)), Nothing)
  BY <1>2, FineNothing
<1> QED BY <1>3, FineReading, FineWriting DEF JustRead, JustWrite

LEMMA AppendSecond == ASSUME NEW a, NEW b PROVE <<a, b>> = Append(<<a>>, b)
OBVIOUS

LEMMA AppendThird == ASSUME NEW a, NEW b, NEW c PROVE <<a, b, c>> = Append(<<a, b>>, c)
OBVIOUS

\* Guards in hand, and what may be asked for with them.
LEMMA Stacks ==
    ASSUME NEW a \in Guards, NEW b \in Guards, NEW c \in Guards
    PROVE  /\ <<>> \in Seq(Guards) /\ <<a>> \in Seq(Guards) /\ <<a, b>> \in Seq(Guards)
           /\ <<a, b, c>> \in Seq(Guards)
           /\ Append(<<>>, a) = <<a>> /\ <<a, b>> = Append(<<a>>, b) /\ <<a, b, c>> = Append(<<a, b>>, c)
<1>1. PICK U : U = Guards
  OBVIOUS
<1>2. a \in U /\ b \in U /\ c \in U
  BY <1>1
<1>3. <<>> \in Seq(U) /\ <<a>> \in Seq(U)
  BY <1>2
<1>4. <<a, b>> \in Seq(U)
  BY <1>2
<1>5. <<a, b, c>> \in Seq(U)
  BY <1>2
<1>6. /\ <<>> \in Seq(Guards) /\ <<a>> \in Seq(Guards) /\ <<a, b>> \in Seq(Guards)
      /\ <<a, b, c>> \in Seq(Guards)
  BY <1>1, <1>3, <1>4, <1>5
<1>7. Append(<<>>, a) = <<a>>
  BY AppendFirst
<1>8. <<a, b>> = Append(<<a>>, b)
  BY AppendSecond
<1>9. <<a, b, c>> = Append(<<a, b>>, c)
  BY AppendThird
<1> QED BY <1>6, <1>7, <1>8, <1>9

LEMMA StepIsGuard == ASSUME NEW l \in Locks PROVE Step("read", l) \in Guards /\ Step("write", l) \in Guards
BY DEF Step, Guards

LEMMA StepFields == ASSUME NEW op, NEW l PROVE Step(op, l).op = op /\ Step(op, l).lock = l
BY DEF Step

Plain == Locks \ {"session_plan_mapping", "managed_session_paths"}

LEMMA PlainMay ==
    ASSUME NEW h, NEW base, NEW op, NEW l \in Plain,
           \A i \in DOMAIN base : Rank(base[i].lock) < Rank(l) /\ base[i] # Plans("write")
    PROVE  MayAsk(h, base, Step(op, l))
BY StepFields DEF MayAsk, ByRank, Plain, Plans, Paths

LEMMA FirstMay == ASSUME NEW h, NEW op, NEW l \in Plain PROVE MayAsk(h, <<>>, Step(op, l))
BY PlainMay

LEMMA FirstFine ==
    ASSUME NEW h, NEW l \in Plain
    PROVE  Fine(h, <<>>, JustRead(l)) /\ Fine(h, <<>>, JustWrite(l))
<1>1. <<>> \in Seq(Guards) /\ l \in Locks
  BY NoneIsSeq DEF Plain
<1> QED BY <1>1, FirstMay, FineJust

LEMMA SecondMay ==
    ASSUME NEW h, NEW op, NEW l \in Plain, NEW a, Rank(a.lock) < Rank(l), a # Plans("write")
    PROVE  MayAsk(h, <<a>>, Step(op, l))
<1>1. \A i \in DOMAIN <<a>> : <<a>>[i] = a
  OBVIOUS
<1> QED BY <1>1, PlainMay

\* A lock of its own, inside another.
LEMMA SecondFine ==
    ASSUME NEW h, NEW k \in Plain, NEW l \in Plain, NEW op, Rank(k) < Rank(l), op \in {"read", "write"}
    PROVE  Fine(h, <<Step(op, k)>>, JustRead(l)) /\ Fine(h, <<Step(op, k)>>, JustWrite(l))
<1>1. PICK a \in Guards : a = Step(op, k) /\ a.lock = k
  <2>1. Step(op, k) \in Guards
    BY DEF Plain, Step, Guards
  <2> QED BY <2>1, StepFields
<1>2. a # Plans("write")
  BY <1>1, StepFields DEF Plans, Plain
<1>3. <<a>> \in Seq(Guards) /\ l \in Locks
  BY Stacks DEF Plain
<1>4. MayAsk(h, <<a>>, Step("read", l)) /\ MayAsk(h, <<a>>, Step("write", l))
  BY <1>1, <1>2, SecondMay
<1> QED BY <1>1, <1>3, <1>4, FineJust

\* Around what is fine inside.
LEMMA OuterFine ==
    ASSUME NEW h, NEW l \in Plain, NEW body
    PROVE  /\ Fine(h, <<Step("read", l)>>, body) => Fine(h, <<>>, Reading(l, body))
           /\ Fine(h, <<Step("write", l)>>, body) => Fine(h, <<>>, Writing(l, body))
<1>1. <<>> \in Seq(Guards) /\ l \in Locks
  BY NoneIsSeq DEF Plain
<1>2. \A op \in {"read", "write"} : Append(<<>>, Step(op, l)) = <<Step(op, l)>>
  BY AppendFirst
<1> QED BY <1>1, <1>2, FirstMay, FineReading, FineWriting

BlockFine(h, block) == \A s \in block : Fine(h, <<>>, s)
Lawful(h, p) == p \in Seq(SUBSET Seq(Steps)) /\ \A m \in 1 .. Len(p) : BlockFine(h, p[m])

LEMMA BlockType == ASSUME NEW h, NEW b, BlockFine(h, b) PROVE b \in SUBSET Seq(Steps)
BY DEF BlockFine, Fine

LEMMA LawfulOne == ASSUME NEW h, NEW b, BlockFine(h, b) PROVE Lawful(h, <<b>>)
<1>1. PICK U : U = SUBSET Seq(Steps)
  OBVIOUS
<1>2. b \in U
  BY <1>1, BlockType
<1>3. <<b>> \in Seq(U) /\ Len(<<b>>) = 1 /\ \A m \in 1 .. 1 : <<b>>[m] = b
  BY <1>2
<1> QED BY <1>1, <1>3 DEF Lawful

LEMMA LawfulThen == ASSUME NEW h, NEW p, NEW q, Lawful(h, p), Lawful(h, q) PROVE Lawful(h, p \o q)
<1>1. PICK U : U = SUBSET Seq(Steps)
  OBVIOUS
<1>2. p \in Seq(U) /\ q \in Seq(U)
  BY <1>1 DEF Lawful
<1>3. PICK m \in Nat, n \in Nat : m = Len(p) /\ n = Len(q)
  BY <1>2
<1>4. PICK z \in Seq(U) : z = p \o q
  BY <1>2, ConcatProperties
<1>5. Len(z) = m + n
  BY <1>2, <1>3, <1>4, ConcatProperties
<1>6. \A i \in 1 .. m + n : z[i] = IF i <= m THEN p[i] ELSE q[i - m]
  BY <1>2, <1>3, <1>4, <1>5
<1>7. \A i \in 1 .. m + n : i \in 1 .. m \/ (~(i <= m) /\ i - m \in 1 .. n)
  OBVIOUS
<1>8. \A i \in 1 .. m + n : BlockFine(h, z[i])
  <2> TAKE i \in 1 .. m + n
  <2>1. CASE i \in 1 .. m
    <3>1. z[i] = p[i]
      BY <1>6, <2>1
    <3> QED BY <1>3, <2>1, <3>1 DEF Lawful
  <2>2. CASE ~(i <= m) /\ i - m \in 1 .. n
    <3>1. z[i] = q[i - m]
      BY <1>6, <2>2
    <3> QED BY <1>3, <2>2, <3>1 DEF Lawful
  <2> QED BY <1>7, <2>1, <2>2
<1> QED BY <1>1, <1>4, <1>5, <1>8 DEF Lawful

LEMMA LawfulMore == ASSUME NEW h, NEW p, NEW b, Lawful(h, p), BlockFine(h, b) PROVE Lawful(h, Append(p, b))
<1>1. PICK U : U = SUBSET Seq(Steps)
  OBVIOUS
<1>2. p \in Seq(U) /\ b \in U
  BY <1>1, BlockType DEF Lawful
<1>3. Append(p, b) = p \o <<b>>
  BY <1>2, AppendIsConcat
<1> QED BY <1>3, LawfulOne, LawfulThen

LEMMA LawfulBlocks ==
    ASSUME NEW h, NEW a, NEW b, NEW c, NEW d, NEW e,
           BlockFine(h, a), BlockFine(h, b), BlockFine(h, c), BlockFine(h, d), BlockFine(h, e)
    PROVE  /\ Lawful(h, <<a>>) /\ Lawful(h, <<a, b>>) /\ Lawful(h, <<a, b, c>>)
           /\ Lawful(h, <<a, b, c, d>>) /\ Lawful(h, <<a, b, c, d, e>>)
<1>1. Lawful(h, <<a>>)
  BY LawfulOne
<1>2. Lawful(h, <<a, b>>)
  <2>1. <<a, b>> = Append(<<a>>, b)
    OBVIOUS
  <2> QED BY <1>1, <2>1, LawfulMore
<1>3. Lawful(h, <<a, b, c>>)
  <2>1. <<a, b, c>> = Append(<<a, b>>, c)
    OBVIOUS
  <2> QED BY <1>2, <2>1, LawfulMore
<1>4. Lawful(h, <<a, b, c, d>>)
  <2>1. <<a, b, c, d>> = Append(<<a, b, c>>, d)
    OBVIOUS
  <2> QED BY <1>3, <2>1, LawfulMore
<1>5. Lawful(h, <<a, b, c, d, e>>)
  <2>1. <<a, b, c, d, e>> = Append(<<a, b, c, d>>, e)
    OBVIOUS
  <2> QED BY <1>4, <2>1, LawfulMore
<1> QED BY <1>1, <1>2, <1>3, <1>4, <1>5

LEMMA Ranks ==
    /\ Rank("session_manager") = 0 /\ Rank("ecs") = 1 /\ Rank("session_paths") = 2
    /\ Rank("session_cli_types") = 3 /\ Rank("message_count_hints") = 4
    /\ Rank("session_plan_mapping") = 5 /\ Rank("managed_session_paths") = 6
    /\ Rank("managed_pending_by_cli") = 7 /\ Rank("project_watches") = 7 /\ Rank("offsets") = 7
    /\ Rank("pending_images") = 7 /\ Rank("pty") = 7
BY DEF Rank

LEMMA Plains ==
    /\ "session_manager" \in Plain /\ "ecs" \in Plain /\ "session_paths" \in Plain
    /\ "session_cli_types" \in Plain /\ "message_count_hints" \in Plain
    /\ "managed_pending_by_cli" \in Plain /\ "project_watches" \in Plain /\ "offsets" \in Plain
    /\ "pending_images" \in Plain /\ "pty" \in Plain
BY DEF Plain, Locks

\* What a handler may do with nothing in hand.
LEMMA FineAlone ==
    ASSUME NEW h
    PROVE  /\ Fine(h, <<>>, Nothing)
           /\ \A l \in Plain : Fine(h, <<>>, JustRead(l)) /\ Fine(h, <<>>, JustWrite(l))
           /\ \A x, y : Fine(h, <<>>, x) /\ Fine(h, <<>>, y) => Fine(h, <<>>, x \o y)
<1>1. <<>> \in Seq(Guards)
  BY NoneIsSeq
<1> QED BY <1>1, FineNothing, FirstFine, FineThen

\* With the paths in hand, the world and the paths may be asked for.
LEMMA FineUnderPaths ==
    ASSUME NEW h
    PROVE  /\ Fine(h, <<>>, Reading("session_paths", JustRead("ecs")))
           /\ Fine(h, <<>>, Reading("session_paths", Reading("ecs", JustRead("session_paths"))))
<1> USE Plains
<1>1. PICK p \in Guards : p = Step("read", "session_paths") /\ p.lock = "session_paths"
  BY StepIsGuard, StepFields DEF Plain
<1>2. PICK e \in Guards : e = Step("read", "ecs") /\ e.lock = "ecs"
  BY StepIsGuard, StepFields DEF Plain
<1>3. "ecs" \in Locks /\ "session_paths" \in Locks
  BY DEF Locks
<1>4. MayAsk(h, <<p>>, e)
  BY <1>1, <1>2 DEF MayAsk, Excused
<1>5. MayAsk(h, <<p, e>>, p)
  BY <1>1, <1>2 DEF MayAsk, Excused
<1>6. Fine(h, <<p>>, JustRead("ecs"))
  BY <1>2, <1>3, <1>4, Stacks, FineJust
<1>7. Fine(h, <<p, e>>, JustRead("session_paths"))
  BY <1>1, <1>3, <1>5, Stacks, FineJust
<1>8. Fine(h, <<p>>, Reading("ecs", JustRead("session_paths")))
  BY <1>2, <1>3, <1>4, <1>7, Stacks, FineReading
<1> QED BY <1>1, <1>6, <1>8, OuterFine, Plains

LEMMA ReadersLawful ==
    ASSUME NEW h
    PROVE  /\ Lawful(h, api_get_sessions) /\ Lawful(h, api_get_messages)
           /\ Lawful(h, api_get_session_stats) /\ Lawful(h, resolve_session_project_root)
           /\ Lawful(h, resolve_git_repo) /\ Lawful(h, api_serve_file) /\ Lawful(h, api_append_message)
<1> USE Plains, FineAlone, FineUnderPaths
<1>1. BlockFine(h, {})
  BY DEF BlockFine
<1>2. Lawful(h, api_get_sessions)
  <2>1. PICK e \in Guards, c \in Guards : e = Step("read", "ecs") /\ c = Step("read", "session_cli_types")
    BY StepIsGuard DEF Plain
  <2>2. MayAsk(h, <<e>>, c)
    BY <2>1, Ranks, StepFields, SecondMay DEF Plans
  <2>3. MayAsk(h, <<e, c>>, Step("read", "message_count_hints"))
    <3>1. \A i \in DOMAIN <<e, c>> : <<e, c>>[i] = e \/ <<e, c>>[i] = c
      OBVIOUS
    <3> QED BY <2>1, <3>1, Ranks, StepFields, PlainMay DEF Plans
  <2>4. Fine(h, <<e, c>>, JustRead("message_count_hints"))
    BY <2>3, Stacks, FineJust DEF Plain
  <2>5. Fine(h, <<e>>, Reading("session_cli_types", JustRead("message_count_hints")))
    BY <2>1, <2>2, <2>4, Stacks, FineReading DEF Plain
  <2>6. BlockFine(h, {Reading("ecs", Reading("session_cli_types", JustRead("message_count_hints")))})
    BY <2>1, <2>5, OuterFine DEF BlockFine
  <2> QED BY <2>6, LawfulOne DEF api_get_sessions
<1>3. Lawful(h, api_get_messages)
  <2>1. BlockFine(h, {JustRead("session_paths"), Reading("session_paths", JustRead("ecs"))})
    BY DEF BlockFine
  <2>2. BlockFine(h, {JustRead("session_cli_types")})
    BY DEF BlockFine
  <2>3. BlockFine(h, {Nothing, JustWrite("ecs")}) /\ BlockFine(h, {Nothing, JustRead("ecs")})
    BY DEF BlockFine
  <2> QED BY <1>1, <2>1, <2>2, <2>3, LawfulBlocks DEF api_get_messages
<1>4. Lawful(h, api_get_session_stats)
  <2>1. BlockFine(h, {JustRead("session_cli_types")}) /\ BlockFine(h, {JustRead("session_paths")})
    BY DEF BlockFine
  <2>2. BlockFine(h, {Nothing, JustWrite("ecs")}) /\ BlockFine(h, {JustRead("ecs")})
    BY DEF BlockFine
  <2> QED BY <1>1, <2>1, <2>2, LawfulBlocks DEF api_get_session_stats
<1>5. Lawful(h, resolve_session_project_root)
  BY LawfulOne DEF resolve_session_project_root, BlockFine
<1>6. Lawful(h, resolve_git_repo)
  BY LawfulOne DEF resolve_git_repo, BlockFine
<1>7. Lawful(h, api_serve_file)
  <2>1. PICK e \in Guards : e = Step("read", "ecs")
    BY StepIsGuard DEF Plain
  <2>2. Fine(h, <<e>>, JustRead("session_paths"))
    BY <2>1, SecondFine, Ranks
  <2>3. Fine(h, <<>>, Reading("ecs", JustRead("session_paths")))
    BY <2>1, <2>2, OuterFine
  <2> QED BY <2>3, LawfulOne DEF api_serve_file, BlockFine
<1>8. Lawful(h, api_append_message)
  BY LawfulOne DEF api_append_message, BlockFine
<1> QED BY <1>2, <1>3, <1>4, <1>5, <1>6, <1>7, <1>8

\* The managed paths, which come after all that is not plain, and the plan mapping.
LEMMA PathsMay ==
    ASSUME NEW h, NEW base, NEW op,
           \A i \in DOMAIN base : Rank(base[i].lock) < 6 /\ base[i] # Plans("write"),
           op = "write" => h \in {"session", "rescan"} \/ \E i \in DOMAIN base : base[i] = Manager
    PROVE  MayAsk(h, base, Step(op, "managed_session_paths"))
<1>1. Step(op, "managed_session_paths").lock = "managed_session_paths"
  BY StepFields
<1>2. Step(op, "managed_session_paths") = Paths("write") => op = "write"
  BY StepFields DEF Paths
<1> QED BY <1>1, <1>2, Ranks DEF MayAsk, ByRank

LEMMA FinePathsRead ==
    ASSUME NEW h
    PROVE  /\ Fine(h, <<>>, JustRead("managed_session_paths"))
           /\ \A k \in Plain, op \in {"read", "write"} :
                 Rank(k) < 6 => Fine(h, <<Step(op, k)>>, JustRead("managed_session_paths"))
<1>1. "managed_session_paths" \in Locks
  BY DEF Locks
<1>2. Fine(h, <<>>, JustRead("managed_session_paths"))
  <2>1. MayAsk(h, <<>>, Step("read", "managed_session_paths"))
    BY PathsMay
  <2> QED BY <1>1, <2>1, NoneIsSeq, FineJust
<1>3. ASSUME NEW k \in Plain, NEW op \in {"read", "write"}, Rank(k) < 6
      PROVE  Fine(h, <<Step(op, k)>>, JustRead("managed_session_paths"))
  <2>1. PICK a \in Guards : a = Step(op, k) /\ a.lock = k
    BY StepIsGuard, StepFields DEF Plain
  <2>2. \A i \in DOMAIN <<a>> : <<a>>[i] = a
    OBVIOUS
  <2>3. a # Plans("write")
    BY <2>1, StepFields DEF Plans, Plain
  <2>4. MayAsk(h, <<a>>, Step("read", "managed_session_paths"))
    BY <1>3, <2>1, <2>2, <2>3, PathsMay
  <2> QED BY <1>1, <2>1, <2>4, Stacks, FineJust
<1> QED BY <1>2, <1>3

\* What may be done with one plain lock in hand, one thing after the other.
LEMMA FineInside ==
    ASSUME NEW h, NEW k \in Plain, NEW op \in {"read", "write"}
    PROVE  /\ Fine(h, <<Step(op, k)>>, Nothing)
           /\ \A l \in Plain : Rank(k) < Rank(l) =>
                 Fine(h, <<Step(op, k)>>, JustRead(l)) /\ Fine(h, <<Step(op, k)>>, JustWrite(l))
           /\ \A x, y : Fine(h, <<Step(op, k)>>, x) /\ Fine(h, <<Step(op, k)>>, y) =>
                 Fine(h, <<Step(op, k)>>, x \o y)
<1>1. PICK a \in Guards : a = Step(op, k)
  BY StepIsGuard DEF Plain
<1>2. <<a>> \in Seq(Guards)
  BY Stacks
<1>3. Fine(h, <<a>>, Nothing)
  BY <1>2, FineNothing
<1> QED BY <1>1, <1>3, SecondFine, FineThen

LEMMA ManagedLawful ==
    ASSUME NEW h
    PROVE  /\ Lawful(h, api_send_message) /\ Lawful(h, api_send_input) /\ Lawful(h, api_close_session)
           /\ Lawful(h, api_queue_images) /\ Lawful(h, api_delete_session)
<1> USE Plains, FineAlone, FineUnderPaths
<1>1. BlockFine(h, {})
  BY DEF BlockFine
<1> DEFINE m == <<Step("read", "session_manager")>>
<1>2. Fine(h, m, JustRead("session_cli_types")) /\ Fine(h, m, JustWrite("pty"))
  <2>1. Rank("session_manager") < Rank("session_cli_types") /\ Rank("session_manager") < Rank("pty")
    BY Ranks
  <2> QED BY <2>1, FineInside
<1>3. Fine(h, m, JustWrite("pty") \o JustWrite("pty"))
  BY <1>2, FineInside
<1>4. Fine(h, m, JustRead("session_cli_types") \o JustWrite("pty") \o JustWrite("pty"))
  <2>1. Fine(h, m, JustRead("session_cli_types") \o JustWrite("pty"))
    BY <1>2, FineInside
  <2> QED BY <1>2, <2>1, FineInside
<1>5. Fine(h, m, JustRead("managed_session_paths"))
  <2>1. Rank("session_manager") < 6
    BY Ranks
  <2> QED BY <2>1, FinePathsRead
<1>6. Lawful(h, api_send_message)
  <2>1. BlockFine(h, {Reading("session_manager", JustRead("session_cli_types") \o JustWrite("pty") \o JustWrite("pty")),
                      JustRead("session_manager") \o JustRead("session_paths")})
    BY <1>4, OuterFine DEF BlockFine
  <2> QED BY <2>1, LawfulOne DEF api_send_message
<1>7. Lawful(h, api_send_input)
  <2>1. BlockFine(h, {JustRead("session_manager"), Reading("session_manager", JustWrite("pty"))})
    BY <1>2, OuterFine DEF BlockFine
  <2> QED BY <2>1, LawfulOne DEF api_send_input
<1>8. Lawful(h, api_close_session)
  <2>1. BlockFine(h, {JustRead("session_manager"), Reading("session_manager", JustWrite("pty") \o JustWrite("pty"))})
    BY <1>3, OuterFine DEF BlockFine
  <2> QED BY <2>1, LawfulOne DEF api_close_session
<1>9. Lawful(h, api_queue_images)
  <2>1. BlockFine(h, {JustRead("session_manager"), Reading("session_manager", JustRead("managed_session_paths"))})
    BY <1>5, OuterFine DEF BlockFine
  <2>2. BlockFine(h, {JustWrite("pending_images")})
    BY DEF BlockFine
  <2> QED BY <1>1, <2>1, <2>2, LawfulBlocks DEF api_queue_images
<1>10. Lawful(h, api_delete_session)
  <2>1. Fine(h, <<Step("read", "session_paths")>>, JustWrite("session_cli_types"))
    <3>1. Rank("session_paths") < Rank("session_cli_types")
      BY Ranks
    <3> QED BY <3>1, FineInside
  <2>2. BlockFine(h, {JustRead("session_paths") \o JustWrite("session_paths") \o JustWrite("session_cli_types"),
                      Reading("session_paths", JustWrite("session_cli_types"))})
    BY <2>1, OuterFine DEF BlockFine
  <2>3. BlockFine(h, {JustWrite("ecs")})
    BY DEF BlockFine
  <2> QED BY <1>1, <2>2, <2>3, LawfulBlocks DEF api_delete_session
<1> QED BY <1>6, <1>7, <1>8, <1>9, <1>10

LEMMA MappingMay ==
    ASSUME NEW h, NEW base, NEW op,
           \A i \in DOMAIN base : Rank(base[i].lock) < 5 /\ base[i] # Plans("write"),
           h = "startup" \/ \E i \in DOMAIN base : base[i] = Manager
    PROVE  MayAsk(h, base, Step(op, "session_plan_mapping"))
<1>1. Step(op, "session_plan_mapping").lock = "session_plan_mapping"
  BY StepFields
<1>2. Step(op, "session_plan_mapping") # Paths("write")
  BY StepFields DEF Paths
<1> QED BY <1>1, <1>2, Ranks DEF MayAsk, ByRank

\* Whoever creates a session has the manager for itself, whatever else it locks.
LEMMA CreatorLawful == ASSUME NEW h PROVE Lawful(h, api_create_managed_session)
<1> DEFINE m == <<Step("write", "session_manager")>>
<1> USE Plains
<1>1. PICK w \in Guards : w = Step("write", "session_manager") /\ w = Manager /\ w.lock = "session_manager"
  BY StepIsGuard, StepFields DEF Plain, Manager
<1>2. \A i \in DOMAIN <<w>> : <<w>>[i] = w
  OBVIOUS
<1>3. w # Plans("write")
  BY <1>1, StepFields DEF Plans
<1>4. 1 \in DOMAIN <<w>> /\ <<w>>[1] = Manager
  BY <1>1
<1>5. "managed_session_paths" \in Locks /\ "session_plan_mapping" \in Locks
  BY DEF Locks
<1>6. Fine(h, m, JustWrite("managed_session_paths"))
  <2>1. Rank(w.lock) < 6
    BY <1>1, Ranks
  <2>2. MayAsk(h, <<w>>, Step("write", "managed_session_paths"))
    BY <1>2, <1>3, <1>4, <2>1, PathsMay
  <2> QED BY <1>1, <1>5, <2>2, Stacks, FineJust
<1>7. Fine(h, m, JustWrite("session_plan_mapping"))
  <2>1. Rank(w.lock) < 5
    BY <1>1, Ranks
  <2>2. MayAsk(h, <<w>>, Step("write", "session_plan_mapping"))
    BY <1>2, <1>3, <1>4, <2>1, MappingMay
  <2> QED BY <1>1, <1>5, <2>2, Stacks, FineJust
<1>8. Fine(h, m, Reading("session_plan_mapping", JustRead("managed_session_paths")))
  <2>1. PICK p \in Guards : p = Step("read", "session_plan_mapping")
                             /\ p.lock = "session_plan_mapping" /\ p.op = "read"
    BY <1>5, StepIsGuard, StepFields
  <2>2. MayAsk(h, <<w>>, p)
    <3>1. Rank(w.lock) < 5
      BY <1>1, Ranks
    <3> QED BY <1>2, <1>3, <1>4, <2>1, <3>1, MappingMay
  <2>3. MayAsk(h, <<w, p>>, Step("read", "managed_session_paths"))
    <3>1. \A i \in DOMAIN <<w, p>> : <<w, p>>[i] = w \/ <<w, p>>[i] = p
      OBVIOUS
    <3>2. Rank(w.lock) < 6 /\ Rank(p.lock) < 6
      BY <1>1, <2>1, Ranks
    <3>3. p # Plans("write")
      BY <2>1, StepFields DEF Plans
    <3>4. \A i \in DOMAIN <<w, p>> : Rank(<<w, p>>[i].lock) < 6 /\ <<w, p>>[i] # Plans("write")
      BY <1>3, <3>1, <3>2, <3>3
    <3> QED BY <1>3, <3>4, PathsMay
  <2>4. Fine(h, <<w, p>>, JustRead("managed_session_paths"))
    BY <1>5, <2>3, Stacks, FineJust
  <2>5. <<w>> \in Seq(Guards) /\ <<w, p>> = Append(<<w>>, p)
    BY Stacks
  <2>6. Fine(h, <<w>>, Reading("session_plan_mapping", JustRead("managed_session_paths")))
    <3>1. "session_plan_mapping" \in Locks
      BY DEF Locks
    <3>2. MayAsk(h, <<w>>, Step("read", "session_plan_mapping"))
      BY <2>1, <2>2
    <3>3. Fine(h, Append(<<w>>, Step("read", "session_plan_mapping")), JustRead("managed_session_paths"))
      BY <2>1, <2>4, <2>5
    <3>4. PICK q \in Seq(Guards) : q = <<w>>
      BY <2>5
    <3> QED BY <3>1, <3>2, <3>3, <3>4, FineReading
  <2> QED BY <1>1, <1>5, <2>6
<1>9. /\ Fine(h, m, Nothing) /\ Fine(h, m, JustWrite("ecs")) /\ Fine(h, m, JustWrite("session_cli_types"))
      /\ Fine(h, m, JustWrite("project_watches")) /\ Fine(h, m, JustWrite("managed_pending_by_cli"))
  <2>1. /\ Rank("session_manager") < Rank("ecs") /\ Rank("session_manager") < Rank("session_cli_types")
        /\ Rank("session_manager") < Rank("project_watches")
        /\ Rank("session_manager") < Rank("managed_pending_by_cli")
    BY Ranks
  <2> QED BY <2>1, FineInside
<1>10. \A x, y : Fine(h, m, x) /\ Fine(h, m, y) => Fine(h, m, x \o y)
  BY FineThen
<1> HIDE DEF m
<1>11. ASSUME NEW plan \in {Nothing, JustWrite("session_plan_mapping")},
              NEW pending \in {Nothing, JustWrite("managed_pending_by_cli")}
       PROVE  Fine(h, m, JustWrite("ecs") \o JustWrite("managed_session_paths")
                  \o JustWrite("session_cli_types") \o JustWrite("project_watches") \o plan \o pending
                  \o Reading("session_plan_mapping", JustRead("managed_session_paths")))
  <2>1. Fine(h, m, JustWrite("ecs") \o JustWrite("managed_session_paths"))
    BY <1>6, <1>9, <1>10
  <2>2. Fine(h, m, JustWrite("ecs") \o JustWrite("managed_session_paths") \o JustWrite("session_cli_types"))
    BY <1>9, <1>10, <2>1
  <2>3. PICK x : x = JustWrite("ecs") \o JustWrite("managed_session_paths")
                     \o JustWrite("session_cli_types") \o JustWrite("project_watches")
    OBVIOUS
  <2>4. Fine(h, m, x)
    BY <1>9, <1>10, <2>2, <2>3
  <2>5. Fine(h, m, plan) /\ Fine(h, m, pending)
    BY <1>7, <1>9
  <2>6. Fine(h, m, x \o plan)
    BY <1>10, <2>4, <2>5
  <2>7. Fine(h, m, (x \o plan) \o pending)
    BY <1>10, <2>5, <2>6
  <2> QED BY <1>8, <1>10, <2>3, <2>7
<1>12. Fine(h, <<>>, JustWrite("session_manager"))
  BY FirstFine
<1>13. \A body : Fine(h, m, body) => Fine(h, <<>>, Writing("session_manager", body))
  BY OuterFine DEF m
<1>14. \A s \in {JustWrite("session_manager")} \cup
           {Writing("session_manager",
               JustWrite("ecs") \o JustWrite("managed_session_paths")
                  \o JustWrite("session_cli_types") \o JustWrite("project_watches") \o plan \o pending
                  \o Reading("session_plan_mapping", JustRead("managed_session_paths"))) :
               plan \in {Nothing, JustWrite("session_plan_mapping")},
               pending \in {Nothing, JustWrite("managed_pending_by_cli")}} : Fine(h, <<>>, s)
  BY <1>11, <1>12, <1>13
<1> QED BY <1>14, LawfulOne DEF api_create_managed_session, BlockFine

-----------------------------------------------------------------------------
(* The server's own tasks. *)

\* The two locks that are not plain, with nothing in hand.
LEMMA FineMapping ==
    /\ Fine("startup", <<>>, JustWrite("session_plan_mapping"))
    /\ Fine("startup", <<>>, Reading("managed_session_paths", JustRead("session_plan_mapping")))
<1>1. "managed_session_paths" \in Locks /\ "session_plan_mapping" \in Locks
  BY DEF Locks
<1>2. MayAsk("startup", <<>>, Step("write", "session_plan_mapping"))
  BY MappingMay
<1>3. PICK p \in Guards : p = Step("read", "managed_session_paths") /\ p = Paths("read")
  BY <1>1, StepIsGuard DEF Paths
<1>4. MayAsk("startup", <<p>>, Step("read", "session_plan_mapping"))
  BY <1>3 DEF MayAsk, AtStartup, Plans
<1>5. Fine("startup", <<p>>, JustRead("session_plan_mapping"))
  BY <1>1, <1>4, Stacks, FineJust
<1>6. MayAsk("startup", <<>>, p)
  BY <1>3, PathsMay
<1> QED BY <1>1, <1>2, <1>3, <1>5, <1>6, Stacks, FineJust, FineReading

LEMMA FineRegistration ==
    ASSUME NEW h
    PROVE  Fine(h, <<>>, Writing("ecs", Writing("session_paths",
                            Writing("session_cli_types", JustWrite("message_count_hints")))))
<1> USE Plains
<1>1. PICK e \in Guards, p \in Guards, c \in Guards :
          e = Step("write", "ecs") /\ p = Step("write", "session_paths")
          /\ c = Step("write", "session_cli_types")
  BY StepIsGuard DEF Plain
<1>2. e.lock = "ecs" /\ p.lock = "session_paths" /\ c.lock = "session_cli_types"
  BY <1>1, StepFields
<1>3. e # Plans("write") /\ p # Plans("write") /\ c # Plans("write")
  BY <1>2, StepFields DEF Plans
<1>4. MayAsk(h, <<e, p, c>>, Step("write", "message_count_hints"))
  <2>1. \A i \in DOMAIN <<e, p, c>> : <<e, p, c>>[i] \in {e, p, c}
    OBVIOUS
  <2>2. \A x \in {e, p, c} : Rank(x.lock) < Rank("message_count_hints") /\ x # Plans("write")
    BY <1>2, <1>3, Ranks
  <2>3. \A i \in DOMAIN <<e, p, c>> : Rank(<<e, p, c>>[i].lock) < Rank("message_count_hints")
                                       /\ <<e, p, c>>[i] # Plans("write")
    BY <2>1, <2>2
  <2> QED BY <2>3, PlainMay
<1>5. MayAsk(h, <<e, p>>, c)
  <2>1. \A i \in DOMAIN <<e, p>> : <<e, p>>[i] \in {e, p}
    OBVIOUS
  <2>2. \A x \in {e, p} : Rank(x.lock) < Rank("session_cli_types") /\ x # Plans("write")
    BY <1>2, <1>3, Ranks
  <2>3. \A i \in DOMAIN <<e, p>> : Rank(<<e, p>>[i].lock) < Rank("session_cli_types")
                                    /\ <<e, p>>[i] # Plans("write")
    BY <2>1, <2>2
  <2> QED BY <1>1, <2>3, PlainMay
<1>6. MayAsk(h, <<e>>, p)
  <2>1. Rank(e.lock) < Rank("session_paths")
    BY <1>2, Ranks
  <2> QED BY <1>1, <1>3, <2>1, SecondMay
<1>7. Fine(h, <<e, p, c>>, JustWrite("message_count_hints"))
  BY <1>4, Stacks, FineJust DEF Plain
<1>8. Fine(h, <<e, p>>, Writing("session_cli_types", JustWrite("message_count_hints")))
  <2>1. PICK q \in Seq(Guards) : q = <<e, p>> /\ <<e, p, c>> = Append(q, c)
    <3>1. <<e, p>> \in Seq(Guards)
      BY Stacks
    <3>2. <<e, p, c>> = Append(<<e, p>>, c)
      BY Stacks
    <3> QED BY <3>1, <3>2
  <2> QED BY <1>1, <1>5, <1>7, <2>1, FineWriting DEF Plain
<1>9. Fine(h, <<e>>, Writing("session_paths", Writing("session_cli_types", JustWrite("message_count_hints"))))
  <2>1. PICK q \in Seq(Guards) : q = <<e>> /\ <<e, p>> = Append(q, p)
    <3>1. <<e>> \in Seq(Guards)
      BY Stacks
    <3>2. <<e, p>> = Append(<<e>>, p)
      BY Stacks
    <3> QED BY <3>1, <3>2
  <2> QED BY <1>1, <1>6, <1>8, <2>1, FineWriting DEF Plain
<1> QED BY <1>1, <1>9, OuterFine

LEMMA RegistrationLawful == Lawful("startup", Registration)
<1> USE Plains, FineAlone, FineMapping, FineRegistration
<1>1. BlockFine("startup", {Reading("managed_session_paths", JustRead("session_plan_mapping"))})
  BY DEF BlockFine
<1>2. BlockFine("startup", {Writing("ecs", Writing("session_paths",
                              Writing("session_cli_types", JustWrite("message_count_hints"))))})
  BY DEF BlockFine
<1>3. BlockFine("startup", {Nothing, JustWrite("session_plan_mapping")})
  BY DEF BlockFine
<1>4. BlockFine("startup", {JustWrite("project_watches")}) /\ BlockFine("startup", {JustWrite("offsets")})
  BY DEF BlockFine
<1> QED BY <1>1, <1>2, <1>3, <1>4, LawfulBlocks DEF Registration

\* Only the watcher loop and the rescan forget the path of a managed session.
LEMMA EffectiveLawful == ASSUME NEW h \in {"session", "rescan"} PROVE Lawful(h, EffectiveSession)
<1> USE Plains, FineAlone
<1> DEFINE w == <<Step("write", "ecs")>>
<1>1. Fine(h, w, JustWrite("managed_session_paths"))
  <2>1. "managed_session_paths" \in Locks
    BY DEF Locks
  <2>2. PICK a \in Guards : a = Step("write", "ecs") /\ a.lock = "ecs"
    BY StepIsGuard, StepFields DEF Plain
  <2>3. \A i \in DOMAIN <<a>> : <<a>>[i] = a
    OBVIOUS
  <2>4. Rank(a.lock) < 6 /\ a # Plans("write")
    BY <2>2, Ranks, StepFields DEF Plans
  <2>5. MayAsk(h, <<a>>, Step("write", "managed_session_paths"))
    BY <2>3, <2>4, PathsMay
  <2> QED BY <2>1, <2>2, <2>5, Stacks, FineJust
<1>2. Fine(h, w, Nothing) /\ Fine(h, w, JustWrite("managed_pending_by_cli"))
  <2>1. Rank("ecs") < Rank("managed_pending_by_cli")
    BY Ranks
  <2> QED BY <2>1, FineInside
<1>3. \A x, y : Fine(h, w, x) /\ Fine(h, w, y) => Fine(h, w, x \o y)
  BY FineThen
<1>4. \A body : Fine(h, w, body) => Fine(h, <<>>, Writing("ecs", body))
  BY OuterFine
<1> HIDE DEF w
<1>5. BlockFine(h, Link)
  BY <1>1, <1>2, <1>3, <1>4 DEF Link, BlockFine
<1>6. BlockFine(h, {JustRead("ecs")}) /\ BlockFine(h, {Nothing, JustRead("managed_pending_by_cli")})
  BY DEF BlockFine
<1>7. BlockFine(h, {Nothing, JustRead("managed_session_paths")})
  BY FinePathsRead DEF BlockFine
<1> QED BY <1>5, <1>6, <1>7, LawfulBlocks DEF EffectiveSession

LEMMA SessionFileLawful == Lawful("session", SessionFileEvent)
<1> USE Plains, FineAlone
<1> DEFINE h == "session"
<1>1. Fine(h, <<>>, Writing("ecs", JustWrite("offsets")))
  <2>1. Rank("ecs") < Rank("offsets")
    BY Ranks
  <2>2. Fine(h, <<Step("write", "ecs")>>, JustWrite("offsets"))
    BY <2>1, FineInside
  <2> QED BY <2>2, OuterFine
<1> HIDE DEF h
<1>2. BlockFine(h, {JustRead("ecs")}) /\ BlockFine(h, {JustWrite("session_paths")})
      /\ BlockFine(h, {JustWrite("session_cli_types")}) /\ BlockFine(h, {Nothing, JustWrite("ecs")})
      /\ BlockFine(h, {Nothing, JustWrite("project_watches")})
  BY DEF BlockFine
<1>3. BlockFine(h, {JustWrite("offsets")}) /\ BlockFine(h, {Nothing, JustWrite("offsets")})
      /\ BlockFine(h, {Nothing, Writing("ecs", JustWrite("offsets"))})
      /\ BlockFine(h, {Nothing, JustRead("ecs") \o JustWrite("ecs")})
  BY <1>1 DEF BlockFine
<1>4. PICK a, b, c, d, e : a = {JustRead("ecs")} /\ b = {JustWrite("session_paths")}
          /\ c = {JustWrite("session_cli_types")} /\ d = {Nothing, JustWrite("ecs")}
          /\ e = {Nothing, JustWrite("project_watches")}
  OBVIOUS
<1>5. PICK f, g, i, j : f = {JustWrite("offsets")} /\ g = {Nothing, JustWrite("offsets")}
          /\ i = {Nothing, Writing("ecs", JustWrite("offsets"))}
          /\ j = {Nothing, JustRead("ecs") \o JustWrite("ecs")}
  OBVIOUS
<1>6. Lawful(h, <<a, b, c, d, e>>) /\ Lawful(h, <<f, g, d, i, j>>)
  BY <1>2, <1>3, <1>4, <1>5, LawfulBlocks
<1>7. Lawful(h, <<a, b, c, d, e>> \o <<f, g, d, i, j>>)
  BY <1>6, LawfulThen
<1>8. <<a, b, c, d, e, f, g, d, i, j>> = <<a, b, c, d, e>> \o <<f, g, d, i, j>>
  OBVIOUS
<1>9. Lawful(h, EffectiveSession)
  BY EffectiveLawful DEF h
<1>10. Lawful(h, EffectiveSession \o <<a, b, c, d, e, f, g, d, i, j>>)
  BY <1>7, <1>8, <1>9, LawfulThen
<1> QED BY <1>4, <1>5, <1>10 DEF h, SessionFileEvent

LEMMA RescanLawful == Lawful("rescan", RescannedFile)
<1> USE Plains, FineAlone
<1> DEFINE h == "rescan"
<1> HIDE DEF h
<1>1. BlockFine(h, {JustWrite("session_paths")}) /\ BlockFine(h, {JustWrite("session_cli_types")})
      /\ BlockFine(h, {Nothing, JustWrite("message_count_hints")}) /\ BlockFine(h, {JustRead("ecs")})
      /\ BlockFine(h, {Nothing, JustWrite("ecs"), JustWrite("ecs") \o JustWrite("offsets")})
  BY DEF BlockFine
<1>2. Lawful(h, EffectiveSession)
  BY EffectiveLawful DEF h
<1> QED BY <1>1, <1>2, LawfulBlocks, LawfulThen DEF h, RescannedFile

LEMMA WatcherLawful == Lawful("deleted", DeletedFileEvent) /\ Lawful("project", ProjectFileEvent)
<1> USE Plains, FineAlone
<1>1. BlockFine("deleted", {JustWrite("offsets")})
  BY DEF BlockFine
<1>2. BlockFine("project", {JustRead("project_watches")})
      /\ BlockFine("project", {Nothing, JustWrite("ecs"), JustWrite("ecs") \o JustRead("ecs")})
  BY DEF BlockFine
<1> QED BY <1>1, <1>2, LawfulBlocks DEF DeletedFileEvent, ProjectFileEvent

LEMMA ProgramLawful == ASSUME NEW h \in DOMAIN Program PROVE Lawful(h, Program[h])
<1>1. DOMAIN Program = {"sessions", "messages", "stats", "root", "git", "serve", "append", "send", "input",
         "close", "images", "create", "delete", "startup", "session", "deleted", "project", "rescan"}
  BY DEF Program
<1>2. CASE h \in {"sessions", "messages", "stats", "root", "git", "serve", "append"}
  BY <1>2, ReadersLawful DEF Program
<1>3. CASE h \in {"send", "input", "close", "images", "delete"}
  BY <1>3, ManagedLawful DEF Program
<1>4. CASE h \in {"create", "startup", "session", "deleted", "project", "rescan"}
  BY <1>4, CreatorLawful, RegistrationLawful, SessionFileLawful, RescanLawful, WatcherLawful DEF Program
<1> QED BY <1>1, <1>2, <1>3, <1>4

-----------------------------------------------------------------------------
(* What has been taken leaves something to go on with. *)

LEMMA LedRest ==
    ASSUME NEW h, NEW s, NEW steps \in Seq(Steps), NEW f, Leads(h, s, steps, <<>>, f),
           NEW k \in Nat, k <= Len(steps)
    PROVE  /\ SubSeq(steps, k + 1, Len(steps)) \in Seq(Steps)
           /\ Led(h, f[k], SubSeq(steps, k + 1, Len(steps)), <<>>)
<1>1. PICK n \in Nat : n = Len(steps)
  OBVIOUS
<1>2. PICK z : z = SubSeq(steps, k + 1, n)
  OBVIOUS
<1>3. PICK U : U = Steps
  OBVIOUS
<1>4. z \in Seq(U) /\ Len(z) = n - k /\ \A i \in 1 .. n - k : z[i] = steps[k + i]
  <2>1. steps \in Seq(U) /\ k + 1 \in 1 .. n + 1 /\ n = Len(steps)
    BY <1>1, <1>3
  <2>2. \A i \in k + 1 .. n : steps[i] \in U
    BY <2>1
  <2>3. z = [i \in 1 .. n - k |-> steps[i + k]]
    <3>1. z = [i \in 1 .. (n - (k + 1)) + 1 |-> steps[(i + (k + 1)) - 1]]
      BY <1>2
    <3>2. (n - (k + 1)) + 1 = n - k /\ \A i \in 1 .. n - k : (i + (k + 1)) - 1 = i + k
      OBVIOUS
    <3> QED BY <3>1, <3>2
  <2>4. \A i \in 1 .. n - k : i + k \in k + 1 .. n /\ k + i = i + k
    OBVIOUS
  <2>5. \A i \in 1 .. n - k : z[i] = steps[k + i] /\ z[i] \in U
    BY <2>2, <2>3, <2>4
  <2>6. n - k \in Nat
    BY <1>1
  <2>7. z = [i \in 1 .. n - k |-> z[i]]
    BY <2>3
  <2> QED BY <2>5, <2>6, <2>7, MadeSeq
<1>5. PICK g : g = [i \in 0 .. n - k |-> f[k + i]]
  OBVIOUS
<1>6. g[0] = f[k] /\ g[n - k] = <<>>
  <2>1. 0 \in 0 .. n - k /\ n - k \in 0 .. n - k /\ k + 0 = k /\ k + (n - k) = n
    BY <1>1
  <2> QED BY <1>1, <1>5, <2>1 DEF Leads
<1>7. \A i \in 0 .. n - k : g[i] \in Seq(Guards)
  <2>1. \A i \in 0 .. n - k : k + i \in 0 .. n
    OBVIOUS
  <2> QED BY <1>1, <1>5, <2>1 DEF Leads
<1>8. ASSUME NEW i \in 1 .. n - k
      PROVE  IF z[i].op = "free" THEN g[i - 1] # <<>> /\ g[i] = Front(g[i - 1])
             ELSE g[i] = Append(g[i - 1], z[i]) /\ MayAsk(h, g[i - 1], z[i])
  <2>1. k + i \in 1 .. n /\ k + (i - 1) = (k + i) - 1 /\ i - 1 \in 0 .. n - k /\ i \in 0 .. n - k
    OBVIOUS
  <2>2. g[i] = f[k + i] /\ g[i - 1] = f[(k + i) - 1] /\ z[i] = steps[k + i]
    BY <1>4, <1>5, <2>1
  <2> QED BY <1>1, <2>1, <2>2 DEF Leads
<1>9. Leads(h, f[k], z, <<>>, g)
  BY <1>4, <1>6, <1>7, <1>8 DEF Leads
<1> QED BY <1>1, <1>2, <1>3, <1>4, <1>9 DEF Led

LEMMA LedStep ==
    ASSUME NEW h, NEW s \in Seq(Guards), NEW steps \in Seq(Steps), steps # <<>>, Head(steps).op # "free",
           Led(h, s, steps, <<>>)
    PROVE  /\ MayAsk(h, s, Head(steps)) /\ Head(steps) \in Guards
           /\ Tail(steps) \in Seq(Steps)
           /\ Led(h, Append(s, Head(steps)), Tail(steps), <<>>)
<1>1. PICK f : Leads(h, s, steps, <<>>, f)
  BY DEF Led
<1>2. PICK n \in Nat : n = Len(steps) /\ n > 0
  BY EmptyIfNone
<1>3. Head(steps) = steps[1] /\ steps[1] \in Steps
  BY <1>2
<1>4. f[0] = s /\ f[1] = Append(s, Head(steps)) /\ MayAsk(h, s, Head(steps))
  <2>1. 1 \in 1 .. n /\ 1 - 1 = 0
    BY <1>2
  <2> QED BY <1>1, <1>2, <1>3, <2>1 DEF Leads
<1>5. Tail(steps) = SubSeq(steps, 1 + 1, n)
  <2>1. Tail(steps) = SubSeq(steps, 2, n)
    BY <1>2, TailIsSubSeq
  <2>2. 1 + 1 = 2
    OBVIOUS
  <2> QED BY <2>1, <2>2
<1>6. SubSeq(steps, 1 + 1, n) \in Seq(Steps) /\ Led(h, f[1], SubSeq(steps, 1 + 1, n), <<>>)
  <2>1. 1 \in Nat /\ 1 <= n
    BY <1>2
  <2> QED BY <1>1, <1>2, <2>1, LedRest
<1>7. Head(steps) \in Guards
  BY <1>3 DEF Steps, Guards
<1> QED BY <1>4, <1>5, <1>6, <1>7

LEMMA LedEnd ==
    ASSUME NEW h, NEW s, Led(h, s, <<>>, <<>>)
    PROVE  s = <<>>
<1>1. PICK f : Leads(h, s, <<>>, <<>>, f)
  BY DEF Led
<1>2. Len(<<>>) = 0
  OBVIOUS
<1> QED BY <1>1, <1>2 DEF Leads

\* Freeing n guards at once is freeing them one by one.
LEMMA LedFree ==
    ASSUME NEW h, NEW s \in Seq(Guards), NEW steps \in Seq(Steps), Led(h, s, steps, <<>>),
           NEW n \in Nat, n <= Len(steps), \A j \in 1 .. n : steps[j].op = "free"
    PROVE  /\ SubSeq(s, 1, Len(s) - n) \in Seq(Guards)
           /\ \A i \in DOMAIN SubSeq(s, 1, Len(s) - n) :
                 i \in DOMAIN s /\ SubSeq(s, 1, Len(s) - n)[i] = s[i]
           /\ SubSeq(steps, n + 1, Len(steps)) \in Seq(Steps)
           /\ Led(h, SubSeq(s, 1, Len(s) - n), SubSeq(steps, n + 1, Len(steps)), <<>>)
<1>1. PICK f : Leads(h, s, steps, <<>>, f)
  BY DEF Led
<1>2. PICK m \in Nat : m = Len(s)
  OBVIOUS
<1>3. PICK e \in Nat : e = Len(steps)
  OBVIOUS
<1> DEFINE Same(k) == k <= m /\ f[k] \in Seq(Guards) /\ Len(f[k]) = m - k
                         /\ \A i \in 1 .. m - k : f[k][i] = s[i]
           T == {k \in Nat : k <= n => Same(k)}
<1>4. 0 \in T
  <2>1. f[0] = s
    BY <1>1 DEF Leads
  <2> QED BY <1>2, <2>1
<1>5. ASSUME NEW k \in Nat, k \in T PROVE k + 1 \in T
  <2> HIDE DEF Same
  <2>1. SUFFICES ASSUME k + 1 <= n PROVE Same(k + 1)
    OBVIOUS
  <2> USE DEF Same
  <2>2. Same(k)
    BY <1>5, <2>1
  <2>3. k + 1 \in 1 .. e /\ (k + 1) - 1 = k /\ steps[k + 1].op = "free"
    BY <1>3, <2>1
  <2>4. f[k] # <<>> /\ f[k + 1] = Front(f[k])
    BY <1>1, <1>3, <2>3 DEF Leads
  <2>5. PICK p \in Seq(Guards) : p = f[k] /\ Len(p) = m - k /\ \A i \in 1 .. m - k : p[i] = s[i]
    BY <2>2
  <2>6. m - k # 0
    BY <2>4, <2>5, EmptyIfNone
  <2>7. k + 1 <= m /\ (m - k) - 1 = m - (k + 1) /\ m - (k + 1) \in Nat
    BY <2>2, <2>6
  <2>8. Front(p) = [i \in 1 .. m - (k + 1) |-> p[i]]
    BY <2>5, <2>7 DEF Front
  <2>9. \A i \in 1 .. m - (k + 1) : i \in 1 .. m - k /\ p[i] \in Guards
    <3>1. \A i \in 1 .. m - (k + 1) : i \in 1 .. m - k
      BY <2>7
    <3>2. \A i \in 1 .. m - k : p[i] \in Guards
      BY <2>5
    <3> QED BY <3>1, <3>2
  <2>10. Front(p) \in Seq(Guards) /\ Len(Front(p)) = m - (k + 1)
    <3>1. PICK v : v = Front(p)
      OBVIOUS
    <3>2. v = [i \in 1 .. m - (k + 1) |-> v[i]] /\ \A i \in 1 .. m - (k + 1) : v[i] \in Guards
      BY <2>8, <2>9, <3>1
    <3>3. PICK U : U = Guards
      OBVIOUS
    <3>4. v \in Seq(U) /\ Len(v) = m - (k + 1)
      BY <2>7, <3>2, <3>3, MadeSeq
    <3> QED BY <3>1, <3>3, <3>4
  <2> QED BY <2>4, <2>5, <2>7, <2>8, <2>9, <2>10
<1>6. Nat \subseteq T
  <2> HIDE DEF T
  <2> QED BY <1>4, <1>5, NatSet
<1>7. Same(n)
  BY <1>6
<1>8. SubSeq(s, 1, m - n) = f[n]
  <2>1. f[n] = [i \in 1 .. m - n |-> f[n][i]]
    BY <1>7
  <2>2. f[n] = [i \in 1 .. m - n |-> s[i]]
    BY <1>7, <2>1
  <2>3. SubSeq(s, 1, m - n) = [i \in 1 .. ((m - n) - 1) + 1 |-> s[(i + 1) - 1]]
    OBVIOUS
  <2>4. ((m - n) - 1) + 1 = m - n /\ \A i \in 1 .. m - n : (i + 1) - 1 = i
    BY <1>7
  <2> QED BY <2>2, <2>3, <2>4
<1>9. \A i \in DOMAIN f[n] : i \in DOMAIN s /\ f[n][i] = s[i]
  <2>1. DOMAIN f[n] = 1 .. m - n /\ DOMAIN s = 1 .. m
    BY <1>2, <1>7
  <2>2. \A i \in 1 .. m - n : i \in 1 .. m
    BY <1>7
  <2> QED BY <1>7, <2>1, <2>2
<1>10. SubSeq(steps, n + 1, e) \in Seq(Steps) /\ Led(h, f[n], SubSeq(steps, n + 1, e), <<>>)
  BY <1>1, <1>3, LedRest
<1> QED BY <1>2, <1>3, <1>7, <1>8, <1>9, <1>10

-----------------------------------------------------------------------------
(* The invariant. *)

Entries == [task : Tasks, op : {"read", "write"}]
Handlers == DOMAIN Program \cup {"none"}

LocksTypeOK ==
    /\ runs \in [Tasks -> [handler : Handlers, block : Nat]]
    /\ todo \in [Tasks -> Seq(Steps)]
    /\ held \in [Tasks -> Seq(Guards)]
    /\ queue \in [Locks -> Seq(Entries)]

\* The handlers a task may run.
Mine(t) ==
    IF t = "main" THEN {"startup", "session", "deleted", "project"}
    ELSE IF t = "rescan" THEN {"rescan"} ELSE DOMAIN Program \ OwnTasks

\* Every task goes on in order from the guards it has.
OnTheWay(t, run, stack, steps) ==
    /\ Led(run.handler, stack, steps, <<>>)
    /\ run.handler \in Mine(t) \cup {"none"}
    /\ run.handler = "none" => steps = Nothing

TasksInv ==
    /\ \A t \in Tasks : OnTheWay(t, runs[t], held[t], todo[t])
    /\ runs["main"].handler = "startup" => runs["rescan"].handler = "none"

\* Who stands in a queue wants that lock in that way, and stands there once.
Asks(u, step) == todo[u] # Nothing /\ Wanted(u) = step
QueuesInv ==
    \A l \in Locks :
        /\ \A i \in DOMAIN queue[l] : Asks(queue[l][i].task, Step(queue[l][i].op, l))
        /\ \A i, j \in DOMAIN queue[l] : queue[l][i].task = queue[l][j].task => i = j

\* No two tasks have guards that exclude each other.
Compatible(a, b) ==
    \A i \in DOMAIN a, j \in DOMAIN b : a[i].lock = b[j].lock => ~Conflict(a[i].op, b[j].op)
GuardsInv == \A t, u \in Tasks : t # u => Compatible(held[t], held[u])

LocksInv == LocksTypeOK /\ TasksInv /\ QueuesInv /\ GuardsInv

-----------------------------------------------------------------------------
(* What the invariant says of tasks that wait. *)

LEMMA RankIn == ASSUME NEW l PROVE Rank(l) \in 0 .. 7
BY DEF Rank

\* Whoever waits asks for something it may ask for.
LEMMA Asking ==
    ASSUME LocksInv, NEW t \in Tasks, Waits(t)
    PROVE  /\ Wanted(t) \in Guards
           /\ MayAsk(runs[t].handler, held[t], Wanted(t))
           /\ \A i \in DOMAIN held[t] : held[t][i] \in Guards
<1>1. held[t] \in Seq(Guards) /\ todo[t] \in Seq(Steps)
  BY DEF LocksInv, LocksTypeOK
<1>2. Led(runs[t].handler, held[t], todo[t], <<>>)
  BY DEF LocksInv, TasksInv, OnTheWay
<1>3. todo[t] # <<>> /\ Head(todo[t]).op # "free"
  BY DEF Waits, Wanted, Nothing
<1>4. MayAsk(runs[t].handler, held[t], Head(todo[t])) /\ Head(todo[t]) \in Guards
  BY <1>1, <1>2, <1>3, LedStep
<1>5. \A i \in DOMAIN held[t] : held[t][i] \in Guards
  BY <1>1
<1> QED BY <1>4, <1>5 DEF Wanted

\* In a queue, each entry is for a task that wants just that.
LEMMA Standing ==
    ASSUME LocksInv, NEW l \in Locks, NEW i \in DOMAIN queue[l]
    PROVE  /\ queue[l][i].task \in Tasks /\ queue[l][i].op \in {"read", "write"}
           /\ todo[queue[l][i].task] # Nothing
           /\ Wanted(queue[l][i].task) = Step(queue[l][i].op, l)
           /\ Wanted(queue[l][i].task).lock = l
           /\ i \in Nat
<1>1. queue[l] \in Seq(Entries)
  BY DEF LocksInv, LocksTypeOK
<1>2. queue[l][i] \in Entries /\ i \in Nat
  BY <1>1
<1>3. Asks(queue[l][i].task, Step(queue[l][i].op, l))
  BY DEF LocksInv, QueuesInv
<1> QED BY <1>2, <1>3, StepFields DEF Entries, Asks

LEMMA WhoMay ==
    ASSUME LocksInv, NEW t \in Tasks
    PROVE  /\ runs[t].handler = "startup" => t = "main"
           /\ runs[t].handler = "session" => t = "main"
           /\ runs[t].handler = "rescan" => t = "rescan"
<1>1. runs[t].handler \in Mine(t) \cup {"none"}
  BY DEF LocksInv, TasksInv, OnTheWay
<1> QED BY <1>1 DEF Mine, OwnTasks

LEMMA NoKnot == LocksInv => StuckOverPathsOnly
<1> SUFFICES ASSUME LocksInv, NEW S \in SUBSET {t \in Tasks : Waits(t)}, Knot(S),
                    \A t \in S : ~(Holds(t, "session_paths") /\ Wanted(t).lock \in {"ecs", "session_paths"})
             PROVE  FALSE
  BY DEF StuckOverPathsOnly
<1>1. \A t \in S : t \in Tasks /\ Waits(t)
  OBVIOUS
<1>2. ASSUME NEW t \in S
      PROVE  \/ ByRank(runs[t].handler, held[t], Wanted(t))
             \/ AtStartup(runs[t].handler, held[t], Wanted(t))
  <2>1. MayAsk(runs[t].handler, held[t], Wanted(t))
    BY <1>1, Asking
  <2>2. ~Excused(held[t], Wanted(t))
    BY DEF Excused, Holds
  <2> QED BY <2>1, <2>2 DEF MayAsk
<1>3. PICK m \in S : \A t \in S : Rank(Wanted(t).lock) <= Rank(Wanted(m).lock)
  <2> DEFINE T == {7 - Rank(Wanted(t).lock) : t \in S}
  <2>1. \A t \in S : Rank(Wanted(t).lock) \in 0 .. 7
    BY RankIn
  <2>2. T \subseteq Nat /\ T # {}
    BY <2>1 DEF Knot
  <2>3. PICK x \in T : \A y \in T : x <= y
    <3> HIDE DEF T
    <3> QED BY <2>2, LeastOf
  <2>4. PICK n \in S : x = 7 - Rank(Wanted(n).lock)
    OBVIOUS
  <2>5. ASSUME NEW t \in S PROVE Rank(Wanted(t).lock) <= Rank(Wanted(n).lock)
    <3>1. 7 - Rank(Wanted(n).lock) <= 7 - Rank(Wanted(t).lock)
      BY <2>3, <2>4
    <3>2. PICK a \in 0 .. 7, b \in 0 .. 7 : a = Rank(Wanted(n).lock) /\ b = Rank(Wanted(t).lock)
      BY <2>1
    <3> QED BY <3>1, <3>2
  <2> QED BY <2>5
<1>4. PICK l \in Locks : l = Wanted(m).lock
  <2>1. Wanted(m) \in Guards
    BY <1>1, Asking
  <2> QED BY <2>1 DEF Guards
\* The first of them in the queue for the last of the locks.
<1>5. PICK i \in DOMAIN queue[l] : queue[l][i].task \in S
                /\ \A j \in DOMAIN queue[l] : queue[l][j].task \in S => i <= j
  <2> DEFINE T == {j \in DOMAIN queue[l] : queue[l][j].task \in S}
  <2>1. T \subseteq Nat
    BY Standing
  <2>2. T # {}
    BY <1>1, <1>4 DEF Waits
  <2>3. PICK x \in T : \A y \in T : x <= y
    <3> HIDE DEF T
    <3> QED BY <2>1, <2>2, LeastOf
  <2> QED BY <2>3
<1>6. PICK t \in S : t = queue[l][i].task
  BY <1>5
<1>7. Wanted(t).lock = l
  BY <1>6, Standing
<1>8. PICK u \in S : u \in WaitsFor(t)
  BY DEF Knot
<1>9. PICK k \in DOMAIN held[u] : held[u][k].lock = l /\ Conflict(held[u][k].op, Wanted(t).op)
  <2>1. ASSUME NEW n \in DOMAIN queue[l], queue[l][n].task = t,
               NEW j \in 1 .. (n - 1), queue[l][j].task = u
        PROVE  FALSE
    <3>1. n = i
      BY <1>6, <2>1 DEF LocksInv, QueuesInv
    <3>2. j \in DOMAIN queue[l] /\ j < i
      <4>1. queue[l] \in Seq(Entries)
        BY DEF LocksInv, LocksTypeOK
      <4>2. i \in 1 .. Len(queue[l]) /\ Len(queue[l]) \in Nat /\ DOMAIN queue[l] = 1 .. Len(queue[l])
        BY <4>1
      <4> QED BY <3>1, <4>2
    <3>3. i <= j
      BY <1>5, <2>1, <3>2
    <3> QED BY <3>1, <3>2, <3>3, Standing
  <2> QED BY <1>7, <1>8, <2>1 DEF WaitsFor
<1>10. ~ByRank(runs[u].handler, held[u], Wanted(u))
  <2>1. ByRank(runs[u].handler, held[u], Wanted(u)) => Rank(l) < Rank(Wanted(u).lock)
    BY <1>9 DEF ByRank
  <2>2. Rank(Wanted(u).lock) <= Rank(l)
    BY <1>3, <1>4
  <2>3. Rank(l) \in 0 .. 7 /\ Rank(Wanted(u).lock) \in 0 .. 7
    BY RankIn
  <2> QED BY <2>1, <2>2, <2>3
\* It waits for startup, which has the managed paths and wants the mapping.
<1>11. AtStartup(runs[u].handler, held[u], Wanted(u))
  BY <1>2, <1>10
<1>12. u = "main" /\ runs["main"].handler = "startup"
  BY <1>1, <1>11, WhoMay DEF AtStartup
<1>13. /\ held[u] = <<Paths("read")>> /\ Wanted(u) = Plans("read")
       /\ held[u][k] = Paths("read") /\ l = "managed_session_paths"
  <2>1. held[u] = <<Paths("read")>> /\ Wanted(u) = Plans("read")
    BY <1>11 DEF AtStartup
  <2>2. held[u][k] = Paths("read")
    BY <2>1
  <2> QED BY <1>9, <2>1, <2>2, StepFields DEF Paths
<1>14. Wanted(t) = Paths("write")
  <2>1. Wanted(t) \in Guards
    BY <1>1, Asking
  <2>2. Wanted(t).op = "write"
    BY <1>9, <1>13, StepFields DEF Conflict, Paths
  <2> QED BY <1>7, <1>13, <2>1, <2>2 DEF Guards, Paths, Step
<1>15. PICK a \in DOMAIN held[t] : held[t][a] = Manager
  <2>1. ~AtStartup(runs[t].handler, held[t], Wanted(t))
    BY <1>14, StepFields DEF AtStartup, Paths, Plans
  <2>2. ByRank(runs[t].handler, held[t], Wanted(t))
    BY <1>2, <2>1
  <2>3. runs[t].handler # "session" /\ runs[t].handler # "rescan"
    BY <1>1, <1>12, WhoMay DEF LocksInv, TasksInv
  <2> QED BY <1>14, <2>2, <2>3 DEF ByRank
\* Nobody is in the way of startup but another who creates a session.
<1>16. PICK v \in S : v \in WaitsFor(u)
  BY DEF Knot
<1>17. Wanted(u).lock = "session_plan_mapping" /\ Wanted(u).op = "read"
  BY <1>13, StepFields DEF Plans
<1>18. ASSUME NEW j \in DOMAIN held[v], held[v][j].lock = "session_plan_mapping",
              Conflict(held[v][j].op, "read")
       PROVE  FALSE
  <2>1. held[v][j] \in Guards
    BY <1>1, Asking
  <2>2. held[v][j] = Plans("write")
    BY <1>18, <2>1 DEF Conflict, Guards, Plans, Step
  <2>3. ~ByRank(runs[v].handler, held[v], Wanted(v))
    BY <2>2 DEF ByRank
  <2>4. held[v] = <<Paths("read")>>
    BY <1>2, <2>3 DEF AtStartup
  <2>5. held[v][j] = Paths("read")
    BY <2>4
  <2> QED BY <1>18, <2>5, StepFields DEF Paths
<1>19. PICK n \in DOMAIN queue["session_plan_mapping"] :
           /\ queue["session_plan_mapping"][n].task = u
           /\ \E j \in 1 .. (n - 1) : queue["session_plan_mapping"][j].task = v
  BY <1>16, <1>17, <1>18 DEF WaitsFor
<1>20. PICK j \in 1 .. (n - 1) : queue["session_plan_mapping"][j].task = v
  BY <1>19
<1>21. j \in DOMAIN queue["session_plan_mapping"] /\ j # n /\ "session_plan_mapping" \in Locks
  <2>1. "session_plan_mapping" \in Locks
    BY DEF Locks
  <2>2. queue["session_plan_mapping"] \in Seq(Entries)
    BY <2>1 DEF LocksInv, LocksTypeOK
  <2>3. n \in 1 .. Len(queue["session_plan_mapping"]) /\ Len(queue["session_plan_mapping"]) \in Nat
        /\ DOMAIN queue["session_plan_mapping"] = 1 .. Len(queue["session_plan_mapping"])
    BY <2>2
  <2> QED BY <2>1, <2>3
<1>22. v # u /\ Wanted(v).lock = "session_plan_mapping"
  <2>1. v # u
    BY <1>19, <1>21, <1>20 DEF LocksInv, QueuesInv
  <2> QED BY <1>21, <1>20, <2>1, Standing
<1>23. PICK b \in DOMAIN held[v] : held[v][b] = Manager
  <2>1. runs[v].handler # "startup"
    BY <1>1, <1>12, <1>22, WhoMay
  <2>2. ByRank(runs[v].handler, held[v], Wanted(v))
    BY <1>2, <2>1 DEF AtStartup
  <2> QED BY <1>22, <2>1, <2>2 DEF ByRank
<1>24. t # v
  BY <1>7, <1>13, <1>22
<1>25. Compatible(held[t], held[v])
  BY <1>1, <1>24 DEF LocksInv, GuardsInv
<1> QED BY <1>15, <1>23, <1>25 DEF Compatible, Conflict, Manager, Step

-----------------------------------------------------------------------------
(* Every step keeps the invariant. *)

LEMMA IdleOnTheWay == ASSUME NEW t PROVE OnTheWay(t, Idle, <<>>, Nothing)
<1>1. Led("none", <<>>, Nothing, <<>>)
  <2>1. <<>> \in Seq(Guards)
    BY NoneIsSeq
  <2> QED BY <2>1, FineNothing DEF Fine
<1> QED BY <1>1 DEF OnTheWay, Idle

LEMMA InitLocksInv == LocksInit => LocksInv
<1> SUFFICES ASSUME LocksInit PROVE LocksInv
  OBVIOUS
<1>1. PICK steps \in Registration[1] :
          todo = [t \in Tasks |-> IF t = "main" THEN steps ELSE Nothing]
  BY DEF LocksInit
<1>2. Fine("startup", <<>>, steps)
  <2>1. Len(Registration) = 5
    BY DEF Registration
  <2>2. 1 \in 1 .. 5
    OBVIOUS
  <2>3. BlockFine("startup", Registration[1])
    BY <2>1, <2>2, RegistrationLawful DEF Lawful
  <2> QED BY <2>3 DEF BlockFine
<1>3. /\ runs = [t \in Tasks |-> IF t = "main" THEN [handler |-> "startup", block |-> 1] ELSE Idle]
      /\ held = [t \in Tasks |-> <<>>] /\ queue = [l \in Locks |-> <<>>]
  BY DEF LocksInit
<1>4. "startup" \in Handlers /\ "none" \in Handlers
  BY DEF Handlers, Program
<1>5. LocksTypeOK
  <2>1. <<>> \in Seq(Guards) /\ <<>> \in Seq(Entries) /\ Nothing \in Seq(Steps) /\ steps \in Seq(Steps)
    BY <1>2, NoneIsSeq DEF Fine, Nothing
  <2>2. Idle \in [handler : Handlers, block : Nat]
        /\ [handler |-> "startup", block |-> 1] \in [handler : Handlers, block : Nat]
    BY <1>4 DEF Idle
  <2> QED BY <1>1, <1>3, <2>1, <2>2 DEF LocksTypeOK
<1>6. TasksInv
  <2>1. \A t \in Tasks \ {"main"} : OnTheWay(t, runs[t], held[t], todo[t])
    BY <1>1, <1>3, IdleOnTheWay
  <2>2. "main" \in Tasks /\ "rescan" \in Tasks
    BY DEF Tasks
  <2>3. OnTheWay("main", runs["main"], held["main"], todo["main"])
    <3>1. "startup" \in Mine("main")
      BY DEF Mine
    <3> QED BY <1>1, <1>2, <1>3, <2>2, <3>1 DEF OnTheWay, Fine
  <2>4. runs["rescan"].handler = "none"
    BY <1>3, <2>2 DEF Idle
  <2> QED BY <2>1, <2>3, <2>4 DEF TasksInv
<1>7. QueuesInv
  BY <1>3 DEF QueuesInv
<1>8. GuardsInv
  BY <1>3 DEF GuardsInv, Compatible
<1> QED BY <1>5, <1>6, <1>7, <1>8 DEF LocksInv

\* A handler that has done a block goes on with one of its own, or ends.
Resumes(t, h, stack, others) ==
    \E run \in [handler : Handlers, block : Nat], rest \in Seq(Steps) :
           /\ runs' = [runs EXCEPT ![t] = run]
           /\ todo' = [others EXCEPT ![t] = rest]
           /\ run.handler \in {h, "none"}
           /\ OnTheWay(t, run, stack, rest)

LEMMA Going ==
    ASSUME NEW t \in Tasks, NEW h \in DOMAIN Program, h \in Mine(t), NEW n \in Nat,
           NEW stack \in Seq(Guards), NEW steps \in Seq(Steps), Led(h, stack, steps, <<>>),
           NEW others \in [Tasks -> Seq(Steps)],
           GoesOn(t, h, n, steps, others)
    PROVE  Resumes(t, h, stack, others)
<1>1. h \in Handlers /\ h # "none"
  BY DEF Handlers, Program
<1>2. CASE steps # Nothing /\ runs' = [runs EXCEPT ![t] = [handler |-> h, block |-> n]]
             /\ todo' = [others EXCEPT ![t] = steps]
  <2>1. PICK run \in [handler : Handlers, block : Nat] : run = [handler |-> h, block |-> n]
    BY <1>1
  <2>2. run.handler = h
    BY <2>1
  <2>3. OnTheWay(t, run, stack, steps)
    BY <1>1, <2>2 DEF OnTheWay
  <2> QED BY <1>2, <2>1, <2>2, <2>3 DEF Resumes
<1>3. ASSUME steps = Nothing PROVE stack = <<>>
  BY <1>3, LedEnd DEF Nothing
<1>4. ASSUME steps = Nothing, NEW m \in (n + 1) .. Len(Program[h]), NEW next \in Program[h][m] \ {Nothing},
             runs' = [runs EXCEPT ![t] = [handler |-> h, block |-> m]],
             todo' = [others EXCEPT ![t] = next]
      PROVE  Resumes(t, h, stack, others)
  <2>1. Lawful(h, Program[h])
    BY ProgramLawful
  <2>2. m \in 1 .. Len(Program[h]) /\ m \in Nat
    <3>1. PICK p \in Seq(SUBSET Seq(Steps)) : p = Program[h]
      BY <2>1 DEF Lawful
    <3>2. Len(p) \in Nat
      OBVIOUS
    <3> QED BY <3>1, <3>2
  <2>3. Fine(h, <<>>, next)
    BY <2>1, <2>2 DEF Lawful, BlockFine
  <2>4. PICK run \in [handler : Handlers, block : Nat] : run = [handler |-> h, block |-> m]
    BY <1>1, <2>2
  <2>5. run.handler = h
    BY <2>4
  <2>6. OnTheWay(t, run, stack, next)
    BY <1>1, <1>3, <1>4, <2>3, <2>5 DEF OnTheWay, Fine
  <2>7. next \in Seq(Steps)
    BY <2>3 DEF Fine
  <2> QED BY <1>4, <2>4, <2>5, <2>6, <2>7 DEF Resumes
<1>5. CASE steps = Nothing /\ runs' = [runs EXCEPT ![t] = Idle] /\ todo' = [others EXCEPT ![t] = Nothing]
  <2>1. Idle \in [handler : Handlers, block : Nat] /\ Idle.handler = "none"
    BY DEF Idle, Handlers
  <2>2. OnTheWay(t, Idle, stack, Nothing)
    BY <1>3, <1>5, IdleOnTheWay
  <2>3. Nothing \in Seq(Steps)
    BY <1>5
  <2> QED BY <1>5, <2>1, <2>2, <2>3 DEF Resumes
<1>6. \/ steps # Nothing /\ runs' = [runs EXCEPT ![t] = [handler |-> h, block |-> n]]
             /\ todo' = [others EXCEPT ![t] = steps]
      \/ steps = Nothing /\ \E m \in (n + 1) .. Len(Program[h]) :
             \E next \in Program[h][m] \ {Nothing} :
                 runs' = [runs EXCEPT ![t] = [handler |-> h, block |-> m]] /\ todo' = [others EXCEPT ![t] = next]
      \/ steps = Nothing /\ runs' = [runs EXCEPT ![t] = Idle] /\ todo' = [others EXCEPT ![t] = Nothing]
  BY DEF GoesOn
<1>7. CASE steps = Nothing /\ \E m \in (n + 1) .. Len(Program[h]) :
             \E next \in Program[h][m] \ {Nothing} :
                 runs' = [runs EXCEPT ![t] = [handler |-> h, block |-> m]] /\ todo' = [others EXCEPT ![t] = next]
  <2>1. PICK m \in (n + 1) .. Len(Program[h]) :
             \E next \in Program[h][m] \ {Nothing} :
                 runs' = [runs EXCEPT ![t] = [handler |-> h, block |-> m]] /\ todo' = [others EXCEPT ![t] = next]
    BY <1>7
  <2>2. PICK next \in Program[h][m] \ {Nothing} :
                 runs' = [runs EXCEPT ![t] = [handler |-> h, block |-> m]] /\ todo' = [others EXCEPT ![t] = next]
    BY <2>1
  <2> QED BY <1>4, <1>7, <2>2
<1> QED BY <1>2, <1>5, <1>6, <1>7

\* Startup is never taken up again, and the rescan waits until it is over.
LEMMA StartupOnce ==
    ASSUME LocksInv, NEW t \in Tasks, NEW run, runs' = [runs EXCEPT ![t] = run],
           run.handler = "startup" => runs[t].handler = "startup",
           t = "rescan" /\ runs["main"].handler = "startup" => run.handler = "none"
    PROVE  runs'["main"].handler = "startup" => runs'["rescan"].handler = "none"
<1>1. "main" \in Tasks /\ "rescan" \in Tasks
  BY DEF Tasks
<1>2. runs["main"].handler = "startup" => runs["rescan"].handler = "none"
  BY DEF LocksInv, TasksInv
<1>3. runs \in [Tasks -> [handler : Handlers, block : Nat]]
  BY DEF LocksInv, LocksTypeOK
<1> QED BY <1>1, <1>2, <1>3

\* Whoever stands in a queue does not move by itself.
LEMMA QueuesStay ==
    ASSUME LocksInv, queue' = queue,
           \A l \in Locks : \A i \in DOMAIN queue[l] : todo'[queue[l][i].task] = todo[queue[l][i].task]
    PROVE  QueuesInv'
<1>1. ASSUME NEW l \in Locks, NEW i \in DOMAIN queue[l]
      PROVE  Asks(queue[l][i].task, Step(queue[l][i].op, l))'
  <2>1. Asks(queue[l][i].task, Step(queue[l][i].op, l))
    BY DEF LocksInv, QueuesInv
  <2> QED BY <2>1 DEF Asks, Wanted
<1> QED BY <1>1 DEF LocksInv, QueuesInv

LEMMA BeginKeeps == ASSUME NEW t \in Tasks PROVE LocksInv /\ Begin(t) => LocksInv'
<1> SUFFICES ASSUME LocksInv, Begin(t) PROVE LocksInv'
  OBVIOUS
<1>1. runs[t] = Idle /\ UNCHANGED <<held, queue>>
  BY DEF Begin
<1>2. PICK h \in May(t) : GoesOn(t, h, 0, Nothing, todo)
  BY DEF Begin
<1>3. h \in DOMAIN Program /\ h \in Mine(t) /\ h # "startup"
      /\ (t = "rescan" => runs["main"].handler # "startup")
  <2>1. {"session", "deleted", "project", "rescan"} \subseteq DOMAIN Program
    BY DEF Program
  <2> QED BY <2>1 DEF May, Mine, OwnTasks
<1>4. todo[t] = Nothing /\ held[t] = <<>>
  <2>1. OnTheWay(t, Idle, held[t], todo[t])
    BY <1>1 DEF LocksInv, TasksInv
  <2> QED BY <2>1, LedEnd DEF OnTheWay, Idle, Nothing
<1>5. PICK run \in [handler : Handlers, block : Nat], rest \in Seq(Steps) :
              /\ runs' = [runs EXCEPT ![t] = run]
              /\ todo' = [todo EXCEPT ![t] = rest]
              /\ run.handler \in {h, "none"}
              /\ OnTheWay(t, run, <<>>, rest)
  <2>1. Fine(h, <<>>, Nothing)
    BY FineAlone
  <2>2. todo \in [Tasks -> Seq(Steps)]
    BY DEF LocksInv, LocksTypeOK
  <2>3. 0 \in Nat
    OBVIOUS
  <2>4. Resumes(t, h, <<>>, todo)
    BY <1>2, <1>3, <2>1, <2>2, <2>3, Going DEF Fine
  <2> QED BY <2>4 DEF Resumes
<1>6. LocksTypeOK'
  BY <1>1, <1>5 DEF LocksInv, LocksTypeOK
<1>7. TasksInv'
  <2>1. ASSUME NEW u \in Tasks PROVE OnTheWay(u, runs'[u], held'[u], todo'[u])
    <3>1. CASE u = t
      BY <1>1, <1>4, <1>5, <3>1 DEF LocksInv, LocksTypeOK
    <3>2. CASE u # t
      <4>1. runs'[u] = runs[u] /\ todo'[u] = todo[u] /\ held'[u] = held[u]
        BY <1>1, <1>5, <3>2 DEF LocksInv, LocksTypeOK
      <4> QED BY <4>1 DEF LocksInv, TasksInv
    <3> QED BY <3>1, <3>2
  <2>2. runs'["main"].handler = "startup" => runs'["rescan"].handler = "none"
    BY <1>3, <1>5, StartupOnce
  <2>3. (\A u \in Tasks : OnTheWay(u, runs[u], held[u], todo[u]))'
    BY <2>1
  <2> QED BY <2>2, <2>3 DEF TasksInv
<1>8. QueuesInv'
  <2>1. ASSUME NEW l \in Locks, NEW i \in DOMAIN queue[l]
        PROVE  todo'[queue[l][i].task] = todo[queue[l][i].task]
    <3>1. queue[l][i].task \in Tasks /\ todo[queue[l][i].task] # Nothing
      BY Standing
    <3> QED BY <1>4, <1>5, <3>1 DEF LocksInv, LocksTypeOK
  <2> QED BY <1>1, <2>1, QueuesStay
<1>9. GuardsInv'
  BY <1>1 DEF LocksInv, GuardsInv
<1> QED BY <1>6, <1>7, <1>8, <1>9 DEF LocksInv

LEMMA CompatibleBothWays == ASSUME NEW a, NEW b, Compatible(a, b) PROVE Compatible(b, a)
BY DEF Compatible, Conflict

LEMMA CompatibleMore ==
    ASSUME NEW a \in Seq(Guards), NEW b, NEW g \in Guards, Compatible(a, b),
           \A j \in DOMAIN b : b[j].lock = g.lock => ~Conflict(b[j].op, g.op)
    PROVE  Compatible(Append(a, g), b)
<1>1. PICK n \in Nat : n = Len(a) /\ DOMAIN a = 1 .. n
  OBVIOUS
<1>2. PICK z : z = Append(a, g)
  OBVIOUS
<1>3. DOMAIN z = 1 .. n + 1 /\ z[n + 1] = g /\ \A i \in 1 .. n : z[i] = a[i]
  BY <1>1, <1>2, AppendProperties
<1>4. \A i \in DOMAIN z : (i \in DOMAIN a /\ z[i] = a[i]) \/ z[i] = g
  BY <1>1, <1>3
<1>5. \A x, y : Conflict(x, y) => Conflict(y, x)
  BY DEF Conflict
<1> QED BY <1>2, <1>4, <1>5 DEF Compatible

LEMMA AcquireKeeps == ASSUME NEW t \in Tasks PROVE LocksInv /\ Acquire(t) => LocksInv'
<1> SUFFICES ASSUME LocksInv, Acquire(t) PROVE LocksInv'
  OBVIOUS
<1>1. PICK step : step = Wanted(t)
  OBVIOUS
<1>2. todo[t] # <<>> /\ step.op # "free" /\ ~Waits(t) /\ runs' = runs
  BY <1>1 DEF Acquire, Nothing
<1>3. held[t] \in Seq(Guards) /\ todo[t] \in Seq(Steps) /\ held \in [Tasks -> Seq(Guards)]
      /\ todo \in [Tasks -> Seq(Steps)] /\ queue \in [Locks -> Seq(Entries)]
  BY DEF LocksInv, LocksTypeOK
<1>4. /\ OnTheWay(t, runs[t], held[t], todo[t])
      /\ Led(runs[t].handler, held[t], todo[t], <<>>)
  BY DEF LocksInv, TasksInv, OnTheWay
<1>5. step \in Guards /\ Tail(todo[t]) \in Seq(Steps)
      /\ Led(runs[t].handler, Append(held[t], step), Tail(todo[t]), <<>>)
  <2>1. Head(todo[t]) = step
    BY <1>1 DEF Wanted
  <2> QED BY <1>2, <1>3, <1>4, <2>1, LedStep
<1>6. step.lock \in Locks /\ step.op \in {"read", "write"} /\ step = Step(step.op, step.lock)
  BY <1>5 DEF Guards, Step
<1>7. ASSUME NEW l \in Locks, NEW i \in DOMAIN queue[l] PROVE queue[l][i].task # t
  <2>1. SUFFICES ASSUME queue[l][i].task = t PROVE FALSE
    OBVIOUS
  <2>2. Wanted(t).lock = l
    BY <2>1, Standing
  <2> QED BY <1>1, <1>2, <2>1, <2>2 DEF Waits, Nothing
<1>8. CASE /\ Admits(held, step) /\ held' = [held EXCEPT ![t] = Append(@, step)]
           /\ todo' = [todo EXCEPT ![t] = Tail(@)] /\ queue' = queue
  <2>1. Append(held[t], step) \in Seq(Guards)
    BY <1>3, <1>5, AppendProperties
  <2>2. /\ held'[t] = Append(held[t], step) /\ todo'[t] = Tail(todo[t])
        /\ \A u \in Tasks \ {t} : held'[u] = held[u] /\ todo'[u] = todo[u]
    BY <1>3, <1>8
  <2>3. LocksTypeOK'
    BY <1>2, <1>3, <1>5, <1>8, <2>1 DEF LocksInv, LocksTypeOK
  <2>4. TasksInv'
    <3>1. OnTheWay(t, runs[t], held'[t], todo'[t])
      BY <1>2, <1>4, <1>5, <2>2 DEF OnTheWay, Nothing
    <3>2. \A u \in Tasks : OnTheWay(u, runs[u], held'[u], todo'[u])
      BY <2>2, <3>1 DEF LocksInv, TasksInv
    <3>3. (\A u \in Tasks : OnTheWay(u, runs[u], held[u], todo[u]))'
      BY <1>2, <3>2
    <3> QED BY <1>2, <3>3 DEF LocksInv, TasksInv
  <2>5. QueuesInv'
    <3>1. \A l \in Locks : \A i \in DOMAIN queue[l] : todo'[queue[l][i].task] = todo[queue[l][i].task]
      BY <1>7, <2>2, Standing
    <3> QED BY <1>8, <3>1, QueuesStay
  <2>6. GuardsInv'
    <3>1. ASSUME NEW u \in Tasks \ {t} PROVE Compatible(held'[t], held'[u])
      <4>1. Compatible(held[t], held[u])
        BY DEF LocksInv, GuardsInv
      <4>2. \A j \in DOMAIN held[u] : held[u][j].lock = step.lock => ~Conflict(held[u][j].op, step.op)
        BY <1>8 DEF Admits
      <4> QED BY <1>3, <1>5, <2>2, <4>1, <4>2, CompatibleMore
    <3>2. \A u, v \in Tasks : u # v => Compatible(held'[u], held'[v])
      BY <2>2, <3>1, CompatibleBothWays DEF LocksInv, GuardsInv
    <3> QED BY <3>2 DEF GuardsInv
  <2> QED BY <2>3, <2>4, <2>5, <2>6 DEF LocksInv
<1>9. CASE /\ queue' = [queue EXCEPT ![step.lock] = Append(@, [task |-> t, op |-> step.op])]
           /\ UNCHANGED <<held, todo>>
  <2>1. PICK entry \in Entries : entry = [task |-> t, op |-> step.op]
    <3>1. [task |-> t, op |-> step.op] \in Entries
      BY <1>6 DEF Entries
    <3> QED BY <3>1
  <2>2. entry.task = t /\ entry.op = step.op
    BY <2>1
  <2>3. PICK line \in Seq(Entries) : line = queue[step.lock]
    BY <1>3, <1>6
  <2>4. PICK n \in Nat : n = Len(line) /\ DOMAIN line = 1 .. n
    OBVIOUS
  <2>5. PICK longer \in Seq(Entries) : longer = Append(line, entry)
    BY AppendProperties
  <2>6. /\ DOMAIN longer = 1 .. n + 1 /\ longer[n + 1] = entry
        /\ \A i \in 1 .. n : longer[i] = line[i]
    BY <2>4, <2>5, AppendProperties
  <2>7. queue'[step.lock] = longer /\ \A l \in Locks \ {step.lock} : queue'[l] = queue[l]
    BY <1>3, <1>6, <1>9, <2>1, <2>3, <2>5
  <2>8. queue' \in [Locks -> Seq(Entries)]
    BY <1>3, <1>9, <2>1, <2>3, <2>5
  <2>9. LocksTypeOK'
    BY <1>2, <1>9, <2>8 DEF LocksInv, LocksTypeOK
  <2>10. TasksInv'
    <3>1. (\A u \in Tasks : OnTheWay(u, runs[u], held[u], todo[u]))'
      BY <1>2, <1>9 DEF LocksInv, TasksInv
    <3> QED BY <1>2, <3>1 DEF LocksInv, TasksInv
  <2>11. GuardsInv'
    BY <1>9 DEF LocksInv, GuardsInv
  <2>12. \A i \in 1 .. n + 1 : i \in 1 .. n \/ i = n + 1
    OBVIOUS
  <2>13. ASSUME NEW i \in 1 .. n + 1 PROVE Asks(longer[i].task, Step(longer[i].op, step.lock))
    <3>1. CASE i \in 1 .. n
      <4>1. longer[i] = queue[step.lock][i] /\ i \in DOMAIN queue[step.lock]
        BY <2>3, <2>4, <2>6, <3>1
      <4>2. Asks(queue[step.lock][i].task, Step(queue[step.lock][i].op, step.lock))
        BY <1>6, <4>1 DEF LocksInv, QueuesInv
      <4> QED BY <4>1, <4>2
    <3>2. CASE i = n + 1
      BY <1>1, <1>2, <1>6, <2>2, <2>6, <3>2 DEF Asks, Nothing
    <3> QED BY <2>12, <3>1, <3>2
  <2>14. ASSUME NEW i \in 1 .. n + 1, NEW j \in 1 .. n + 1, longer[i].task = longer[j].task PROVE i = j
    <3>0. \A k \in 1 .. n : longer[k] = line[k] /\ k \in DOMAIN line
      BY <2>4, <2>6
    <3>1. \A k \in 1 .. n : longer[k].task # t
      <4>1. \A k \in DOMAIN line : line[k].task # t
        BY <1>6, <1>7, <2>3
      <4> QED BY <3>0, <4>1
    <3>2. \A k, m \in 1 .. n : longer[k].task = longer[m].task => k = m
      <4>1. \A k, m \in DOMAIN line : line[k].task = line[m].task => k = m
        BY <1>6, <2>3 DEF LocksInv, QueuesInv
      <4> QED BY <3>0, <4>1
    <3>3. longer[n + 1].task = t
      BY <2>2, <2>6
    <3> QED BY <2>12, <2>14, <3>1, <3>2, <3>3
  <2>15. ASSUME NEW u, NEW want PROVE Asks(u, want)' <=> Asks(u, want)
    BY <1>9 DEF Asks, Wanted
  <2>16. ASSUME NEW l \in Locks
         PROVE  /\ \A i \in DOMAIN queue'[l] : Asks(queue'[l][i].task, Step(queue'[l][i].op, l))
                /\ \A i, j \in DOMAIN queue'[l] : queue'[l][i].task = queue'[l][j].task => i = j
    <3>1. CASE l = step.lock
      BY <2>6, <2>7, <2>13, <2>14, <3>1
    <3>2. CASE l # step.lock
      BY <2>7, <3>2 DEF LocksInv, QueuesInv
    <3> QED BY <3>1, <3>2
  <2>17. QueuesInv'
    BY <2>15, <2>16 DEF QueuesInv
  <2> QED BY <2>9, <2>10, <2>11, <2>17 DEF LocksInv
<1> QED BY <1>1, <1>8, <1>9 DEF Acquire

\* A queue that some have left.
Once(line) == \A i, j \in DOMAIN line : line[i].task = line[j].task => i = j
Left(line, rest, served) ==
    /\ rest \in Seq(Entries)
    /\ \A i \in DOMAIN rest : rest[i].task \notin served /\ \E j \in DOMAIN line : rest[i] = line[j]
    /\ Once(line) => Once(rest)

LEMMA LeftMore ==
    ASSUME NEW line \in Seq(Entries), NEW rest, NEW served, NEW e \in Entries, Left(line, rest, served)
    PROVE  /\ e.task \in served => Left(Append(line, e), rest, served)
           /\ e.task \notin served => Left(Append(line, e), Append(rest, e), served)
<1>1. rest \in Seq(Entries)
  BY DEF Left
<1>2. PICK n \in Nat, m \in Nat : n = Len(line) /\ DOMAIN line = 1 .. n /\ m = Len(rest) /\ DOMAIN rest = 1 .. m
  BY <1>1
<1>3. PICK y : y = Append(line, e)
  OBVIOUS
<1>4. DOMAIN y = 1 .. n + 1 /\ y[n + 1] = e /\ \A i \in 1 .. n : y[i] = line[i] /\ i \in 1 .. n + 1
  BY <1>2, <1>3, AppendProperties
<1>5. Once(y) => Once(line)
  BY <1>2, <1>4 DEF Once
<1>6. CASE e.task \in served
  BY <1>2, <1>3, <1>4, <1>5, <1>6 DEF Left
<1>7. CASE e.task \notin served
  <2>1. PICK z \in Seq(Entries) : z = Append(rest, e)
    BY <1>1, AppendProperties
  <2>2. DOMAIN z = 1 .. m + 1 /\ z[m + 1] = e /\ \A i \in 1 .. m : z[i] = rest[i]
    BY <1>1, <1>2, <2>1, AppendProperties
  <2>3. \A i \in 1 .. m + 1 : i \in 1 .. m \/ i = m + 1
    OBVIOUS
  <2>4. \A i \in DOMAIN rest : \E j \in DOMAIN line : rest[i] = line[j]
    BY DEF Left
  <2>5. ASSUME NEW i \in DOMAIN z PROVE z[i].task \notin served /\ \E j \in DOMAIN y : z[i] = y[j]
    <3>1. CASE i \in 1 .. m
      <4>1. PICK j \in 1 .. n : rest[i] = line[j]
        BY <1>2, <2>4, <3>1
      <4>2. z[i] = y[j] /\ j \in DOMAIN y
        BY <1>4, <2>2, <3>1, <4>1
      <4> QED BY <1>2, <2>2, <3>1, <4>2 DEF Left
    <3>2. CASE i = m + 1
      <4>1. n + 1 \in DOMAIN y /\ z[i] = y[n + 1]
        BY <1>4, <2>2, <3>2
      <4> QED BY <1>4, <1>7, <4>1
    <3> QED BY <2>2, <2>3, <3>1, <3>2
  <2>6. ASSUME Once(y) PROVE Once(z)
    <3>1. Once(rest)
      BY <1>5, <2>6 DEF Left
    <3>2. ASSUME NEW i \in 1 .. m PROVE rest[i].task # e.task
      <4>1. PICK j \in 1 .. n : rest[i] = line[j]
        BY <1>2, <2>4
      <4>2. j # n + 1 /\ j \in DOMAIN y /\ n + 1 \in DOMAIN y
        BY <1>4
      <4> QED BY <1>4, <2>6, <4>1, <4>2 DEF Once
    <3> QED BY <1>2, <2>2, <2>3, <3>1, <3>2 DEF Once
  <2>7. Left(y, z, served)
    BY <2>5, <2>6 DEF Left
  <2> QED BY <1>3, <1>7, <2>1, <2>7
<1> QED BY <1>6, <1>7

LEMMA WithoutLeft ==
    ASSUME NEW served PROVE \A line \in Seq(Entries) : Left(line, Without(line, served), served)
<1>1. PICK f : f = [e \in Entries |-> IF e.task \in served THEN <<>> ELSE <<e>>]
  OBVIOUS
<1>2. Gatherer(f, Entries, Entries)
  <2>1. PICK U : U = Entries
    OBVIOUS
  <2>2. \A e \in U : <<>> \in Seq(U) /\ <<e>> \in Seq(U)
    OBVIOUS
  <2>3. \A e \in Entries : f[e] \in Seq(Entries)
    BY <1>1, <2>1, <2>2
  <2> QED BY <1>1, <2>3 DEF Gatherer
<1>3. \A line \in Seq(Entries) : Without(line, served) = Gathered(f, line)
  <2>1. \A z \in Seq(Entries) : \A i \in DOMAIN z : z[i] \in Entries
    OBVIOUS
  <2>2. ASSUME NEW z \in Seq(Entries)
        PROVE  [i \in DOMAIN z |-> IF z[i].task \in served THEN <<>> ELSE <<z[i]>>] = [i \in DOMAIN z |-> f[z[i]]]
    BY <1>1, <2>1
  <2> QED BY <2>2 DEF Without, Gathered
<1> DEFINE G == {line \in Seq(Entries) : Left(line, Gathered(f, line), served)}
<1>4. <<>> \in G
  <2>1. Gathered(f, <<>>) = <<>> /\ <<>> \in Seq(Entries)
    BY GatheredNothing, NoneIsSeq
  <2>2. PICK z \in Seq(Entries) : z = <<>>
    BY <2>1
  <2>3. DOMAIN z = {}
    BY <2>2
  <2>4. Left(z, z, served)
    BY <2>3 DEF Left
  <2> QED BY <2>1, <2>2, <2>4
<1>5. ASSUME NEW line \in Seq(Entries), NEW e \in Entries, line \in G PROVE Append(line, e) \in G
  <2>1. Gathered(f, line) \in Seq(Entries) /\ Gathered(f, Append(line, e)) = Gathered(f, line) \o f[e]
    BY <1>2, GatheredMore
  <2>2. PICK g \in Seq(Entries) : g = Gathered(f, line) /\ Gathered(f, Append(line, e)) = g \o f[e]
    BY <2>1
  <2>3. e.task \in served => g \o f[e] = g
    BY <1>1, ConcatEmptySeq
  <2>4. e.task \notin served => g \o f[e] = Append(g, e)
    BY <1>1, AppendIsConcat
  <2>5. Left(line, g, served)
    BY <1>5, <2>2
  <2>6. Left(Append(line, e), g \o f[e], served)
    BY <2>3, <2>4, <2>5, LeftMore
  <2>7. Append(line, e) \in Seq(Entries)
    BY AppendProperties
  <2> QED BY <2>2, <2>6, <2>7
<1>6. Seq(Entries) \subseteq G
  <2> HIDE DEF G
  <2> QED BY <1>4, <1>5, SeqSet
<1> QED BY <1>3, <1>6

\* The guards that end at one place: the frees up to the next lock, or the end.
LEMMA LastFree ==
    ASSUME NEW steps \in Seq(Steps), steps # <<>>, Head(steps).op = "free"
    PROVE  \E i \in DOMAIN steps :
              /\ \A j \in 1 .. i : steps[j].op = "free"
              /\ i = Len(steps) \/ steps[i + 1].op # "free"
<1>1. PICK n \in Nat : n = Len(steps) /\ DOMAIN steps = 1 .. n /\ n # 0
  BY EmptyIfNone
<1>2. steps[1].op = "free"
  BY <1>1
<1> SUFFICES ASSUME \A i \in 1 .. n : (\A j \in 1 .. i : steps[j].op = "free") =>
                        i # n /\ steps[i + 1].op = "free"
             PROVE  FALSE
  BY <1>1
<1> DEFINE T == {k \in Nat : k + 1 <= n => \A j \in 1 .. k + 1 : steps[j].op = "free"}
<1>3. 0 \in T
  BY <1>2
<1>4. ASSUME NEW k \in Nat, k \in T PROVE k + 1 \in T
  <2>1. ASSUME (k + 1) + 1 <= n PROVE \A j \in 1 .. (k + 1) + 1 : steps[j].op = "free"
    <3>1. \A j \in 1 .. k + 1 : steps[j].op = "free"
      BY <1>4, <2>1
    <3>2. k + 1 \in 1 .. n
      BY <2>1
    <3>3. steps[(k + 1) + 1].op = "free"
      BY <3>1, <3>2
    <3>4. \A j \in 1 .. (k + 1) + 1 : j \in 1 .. k + 1 \/ j = (k + 1) + 1
      OBVIOUS
    <3> QED BY <3>1, <3>3, <3>4
  <2>2. k + 1 \in Nat
    OBVIOUS
  <2> QED BY <2>1, <2>2
<1>5. Nat \subseteq T
  <2> HIDE DEF T
  <2> QED BY <1>3, <1>4, NatSet
<1>6. \A j \in 1 .. n : steps[j].op = "free"
  <2>1. n - 1 \in Nat /\ (n - 1) + 1 = n
    BY <1>1
  <2>2. n - 1 \in T
    BY <1>5, <2>1
  <2> QED BY <2>1, <2>2
<1>7. n \in 1 .. n
  BY <1>1
<1> QED BY <1>6, <1>7

LEMMA ReleaseKeeps == ASSUME NEW t \in Tasks PROVE LocksInv /\ Release(t) => LocksInv'
<1> SUFFICES ASSUME LocksInv, Release(t) PROVE LocksInv'
  OBVIOUS
<1>1. /\ held \in [Tasks -> Seq(Guards)] /\ todo \in [Tasks -> Seq(Steps)]
      /\ queue \in [Locks -> Seq(Entries)] /\ runs \in [Tasks -> [handler : Handlers, block : Nat]]
  BY DEF LocksInv, LocksTypeOK
<1>2. PICK steps \in Seq(Steps) : steps = todo[t] /\ steps # <<>> /\ Head(steps).op = "free"
  BY <1>1 DEF Release, Wanted, Nothing
<1>3. PICK h : h = runs[t].handler
  OBVIOUS
<1>4. h \in DOMAIN Program /\ h \in Mine(t) /\ Led(h, held[t], steps, <<>>) /\ runs[t].block \in Nat
  <2>1. OnTheWay(t, runs[t], held[t], todo[t])
    BY DEF LocksInv, TasksInv
  <2>2. h # "none"
    BY <1>2, <1>3, <2>1 DEF OnTheWay, Nothing
  <2>3. h \in Handlers /\ runs[t].block \in Nat
    BY <1>1, <1>3
  <2> QED BY <1>2, <1>3, <2>1, <2>2, <2>3 DEF OnTheWay, Handlers
<1>5. PICK n : n = CHOOSE i \in DOMAIN todo[t] :
                      /\ \A j \in 1 .. i : todo[t][j].op = "free"
                      /\ i = Len(todo[t]) \/ todo[t][i + 1].op # "free"
  OBVIOUS
<1>6. n \in DOMAIN steps /\ \A j \in 1 .. n : steps[j].op = "free"
  BY <1>2, <1>5, LastFree
<1>7. n \in Nat /\ n <= Len(steps) /\ 1 .. n \subseteq DOMAIN steps
  BY <1>6
<1>8. PICK kept : kept = [held EXCEPT ![t] = SubSeq(@, 1, Len(@) - n)]
  OBVIOUS
<1>9. PICK served : served = UNION {Served(kept, steps[i].lock) : i \in 1 .. n}
  OBVIOUS
<1>10. PICK rest : rest = SubSeq(steps, n + 1, Len(steps))
  OBVIOUS
<1>11. PICK others : others = [u \in Tasks |-> IF u \in served THEN Tail(todo[u]) ELSE todo[u]]
  OBVIOUS
<1>12. /\ held' = [u \in Tasks |-> IF u \in served THEN Append(kept[u], Wanted(u)) ELSE kept[u]]
       /\ queue' = [l \in Locks |-> Without(queue[l], served)]
       /\ GoesOn(t, h, runs[t].block, rest, others)
  <2> DEFINE N == CHOOSE i \in DOMAIN todo[t] :
                     /\ \A j \in 1 .. i : todo[t][j].op = "free"
                     /\ i = Len(todo[t]) \/ todo[t][i + 1].op # "free"
             K == [held EXCEPT ![t] = SubSeq(@, 1, Len(@) - N)]
             D == UNION {Served(K, todo[t][i].lock) : i \in 1 .. N}
  <2>1. /\ held' = [u \in Tasks |-> IF u \in D THEN Append(K[u], Wanted(u)) ELSE K[u]]
        /\ queue' = [l \in Locks |-> Without(queue[l], D)]
        /\ GoesOn(t, runs[t].handler, runs[t].block, SubSeq(todo[t], N + 1, Len(todo[t])),
                  [u \in Tasks |-> IF u \in D THEN Tail(todo[u]) ELSE todo[u]])
    BY DEF Release
  <2>2. N = n
    BY <1>5
  <2> HIDE DEF N
  <2>3. K = kept
    BY <1>8, <2>2
  <2> HIDE DEF K
  <2>4. D = served
    BY <1>2, <1>9, <2>2, <2>3
  <2> HIDE DEF D
  <2> QED BY <1>2, <1>3, <1>10, <1>11, <2>1, <2>2, <2>3, <2>4
\* What t keeps.
<1>13. /\ kept[t] \in Seq(Guards)
       /\ \A i \in DOMAIN kept[t] : i \in DOMAIN held[t] /\ kept[t][i] = held[t][i]
       /\ rest \in Seq(Steps) /\ Led(h, kept[t], rest, <<>>)
  <2>1. held[t] \in Seq(Guards) /\ kept[t] = SubSeq(held[t], 1, Len(held[t]) - n)
    BY <1>1, <1>8
  <2>2. PICK s \in Seq(Guards) : s = held[t] /\ Led(h, s, steps, <<>>)
    BY <1>4, <2>1
  <2>3. /\ SubSeq(s, 1, Len(s) - n) \in Seq(Guards)
        /\ \A i \in DOMAIN SubSeq(s, 1, Len(s) - n) :
              i \in DOMAIN s /\ SubSeq(s, 1, Len(s) - n)[i] = s[i]
        /\ SubSeq(steps, n + 1, Len(steps)) \in Seq(Steps)
        /\ Led(h, SubSeq(s, 1, Len(s) - n), SubSeq(steps, n + 1, Len(steps)), <<>>)
    BY <1>6, <1>7, <2>2, LedFree
  <2> QED BY <1>10, <2>1, <2>2, <2>3
<1>14. /\ kept \in [Tasks -> Seq(Guards)]
       /\ \A u \in Tasks \ {t} : kept[u] = held[u]
       /\ \A u \in Tasks : \A i \in DOMAIN kept[u] : i \in DOMAIN held[u] /\ kept[u][i] = held[u][i]
  <2>1. \A u \in Tasks \ {t} : kept[u] = held[u]
    BY <1>1, <1>8
  <2>2. PICK stack \in Seq(Guards) : stack = kept[t]
    BY <1>13
  <2>3. kept = [held EXCEPT ![t] = stack]
    BY <1>1, <1>8, <2>2
  <2>4. kept \in [Tasks -> Seq(Guards)]
    BY <1>1, <2>3
  <2>5. \A u \in Tasks : \A i \in DOMAIN kept[u] : i \in DOMAIN held[u] /\ kept[u][i] = held[u][i]
    BY <1>13, <2>1
  <2> QED BY <2>1, <2>4, <2>5
<1>15. ASSUME NEW u \in Tasks, NEW v \in Tasks, u # v PROVE Compatible(kept[u], kept[v])
  <2>1. Compatible(held[u], held[v])
    BY <1>15 DEF LocksInv, GuardsInv
  <2> QED BY <1>14, <2>1 DEF Compatible
\* Whoever is given a lock stood in its queue, and may have it.
<1>16. ASSUME NEW u \in served
       PROVE  \E l \in Locks : \E m \in DOMAIN queue[l] :
                 /\ u = queue[l][m].task /\ u \in Tasks /\ todo[u] # Nothing
                 /\ Wanted(u) = Step(queue[l][m].op, l) /\ queue[l][m].op \in {"read", "write"}
                 /\ Admits(kept, Wanted(u))
                 /\ m = 1 \/ \A k \in 1 .. m : queue[l][k].op = "read"
  <2>1. PICK i \in 1 .. n : u \in Served(kept, steps[i].lock)
    BY <1>9
  <2>2. PICK l \in Locks : l = steps[i].lock
    <3>1. steps[i] \in Steps
      BY <1>7
    <3> QED BY <3>1 DEF Steps
  <2>3. PICK m \in DOMAIN queue[l] :
            /\ u = queue[l][m].task
            /\ Admits(kept, Step(queue[l][m].op, l))
            /\ m = 1 \/ \A k \in 1 .. m : queue[l][k].op = "read"
    BY <2>1, <2>2 DEF Served
  <2> QED BY <2>3, Standing
<1>17. t \notin served /\ served \subseteq Tasks
  <2>1. Wanted(t).op = "free"
    BY DEF Release
  <2> QED BY <1>16, <2>1, StepFields
<1>18. ASSUME NEW u \in served
       PROVE  /\ u \in Tasks /\ kept[u] = held[u] /\ todo[u] # Nothing
              /\ Wanted(u) \in Guards /\ Tail(todo[u]) \in Seq(Steps)
              /\ Append(held[u], Wanted(u)) \in Seq(Guards)
              /\ OnTheWay(u, runs[u], Append(held[u], Wanted(u)), Tail(todo[u]))
              /\ \A x \in Tasks : \A j \in DOMAIN kept[x] :
                    kept[x][j].lock = Wanted(u).lock => ~Conflict(kept[x][j].op, Wanted(u).op)
  <2>1. PICK l \in Locks : \E m \in DOMAIN queue[l] :
            /\ u \in Tasks /\ todo[u] # Nothing
            /\ Wanted(u) = Step(queue[l][m].op, l) /\ queue[l][m].op \in {"read", "write"}
            /\ Admits(kept, Wanted(u))
    BY <1>16
  <2>2. u \in Tasks /\ todo[u] # <<>> /\ Wanted(u).op # "free" /\ Admits(kept, Wanted(u))
    BY <2>1, StepFields DEF Nothing
  <2>3. OnTheWay(u, runs[u], held[u], todo[u])
    BY <2>2 DEF LocksInv, TasksInv
  <2>4. /\ Head(todo[u]) \in Guards /\ Tail(todo[u]) \in Seq(Steps)
        /\ Led(runs[u].handler, Append(held[u], Head(todo[u])), Tail(todo[u]), <<>>)
    <3>1. held[u] \in Seq(Guards) /\ todo[u] \in Seq(Steps) /\ Led(runs[u].handler, held[u], todo[u], <<>>)
      BY <1>1, <2>2, <2>3 DEF OnTheWay
    <3>2. Head(todo[u]).op # "free"
      BY <2>2 DEF Wanted
    <3> QED BY <2>2, <3>1, <3>2, LedStep
  <2>5. Append(held[u], Wanted(u)) \in Seq(Guards)
    <3>1. held[u] \in Seq(Guards)
      BY <1>1, <2>2
    <3> QED BY <2>4, <3>1, AppendProperties DEF Wanted
  <2>6. OnTheWay(u, runs[u], Append(held[u], Wanted(u)), Tail(todo[u]))
    BY <2>2, <2>3, <2>4 DEF OnTheWay, Wanted, Nothing
  <2>7. kept[u] = held[u]
    BY <1>14, <1>17, <2>2
  <2> QED BY <2>2, <2>4, <2>5, <2>6, <2>7 DEF Admits, Wanted, Nothing
<1>19. ASSUME NEW u \in served, NEW v \in served, u # v, Wanted(u).lock = Wanted(v).lock
       PROVE  ~Conflict(Wanted(u).op, Wanted(v).op)
  <2>1. PICK l \in Locks : \E m \in DOMAIN queue[l] :
            /\ u = queue[l][m].task /\ Wanted(u) = Step(queue[l][m].op, l)
            /\ Admits(kept, Wanted(u))
            /\ m = 1 \/ \A k \in 1 .. m : queue[l][k].op = "read"
    BY <1>16
  <2>2. PICK k \in Locks : \E m \in DOMAIN queue[k] :
            /\ v = queue[k][m].task /\ Wanted(v) = Step(queue[k][m].op, k)
            /\ Admits(kept, Wanted(v))
            /\ m = 1 \/ \A i \in 1 .. m : queue[k][i].op = "read"
    BY <1>16
  <2>3. k = l
    BY <1>19, <2>1, <2>2, StepFields
  <2>4. PICK a \in DOMAIN queue[l] : /\ u = queue[l][a].task /\ Wanted(u) = Step(queue[l][a].op, l)
                                     /\ a = 1 \/ \A i \in 1 .. a : queue[l][i].op = "read"
    BY <2>1
  <2>5. PICK b \in DOMAIN queue[l] : /\ v = queue[l][b].task /\ Wanted(v) = Step(queue[l][b].op, l)
                                     /\ b = 1 \/ \A i \in 1 .. b : queue[l][i].op = "read"
    BY <2>2, <2>3
  <2>6. a # b /\ a \in Nat /\ b \in Nat /\ a >= 1 /\ b >= 1
    <3>1. queue[l] \in Seq(Entries)
      BY <1>1
    <3>2. DOMAIN queue[l] = 1 .. Len(queue[l]) /\ Len(queue[l]) \in Nat
      BY <3>1
    <3> QED BY <1>19, <2>4, <2>5, <3>2
  <2>7. queue[l][a].op = "read" /\ queue[l][b].op = "read"
    <3>1. CASE a = 1
      <4>1. b # 1 /\ a \in 1 .. b /\ b \in 1 .. b
        BY <2>6, <3>1
      <4> QED BY <2>5, <4>1
    <3>2. CASE b = 1
      <4>1. a # 1 /\ b \in 1 .. a /\ a \in 1 .. a
        BY <2>6, <3>2
      <4> QED BY <2>4, <4>1
    <3>3. CASE a # 1 /\ b # 1
      <4>1. a \in 1 .. a /\ b \in 1 .. b
        BY <2>6
      <4> QED BY <2>4, <2>5, <3>3, <4>1
    <3> QED BY <3>1, <3>2, <3>3
  <2> QED BY <2>4, <2>5, <2>7, StepFields DEF Conflict
<1>20. others \in [Tasks -> Seq(Steps)] /\ \A u \in Tasks \ served : others[u] = todo[u]
  BY <1>1, <1>11, <1>18
<1>21. PICK run \in [handler : Handlers, block : Nat], left \in Seq(Steps) :
           /\ runs' = [runs EXCEPT ![t] = run]
           /\ todo' = [others EXCEPT ![t] = left]
           /\ run.handler \in {h, "none"}
           /\ OnTheWay(t, run, kept[t], left)
  <2>1. Resumes(t, h, kept[t], others)
    BY <1>4, <1>12, <1>13, <1>20, Going
  <2> QED BY <2>1 DEF Resumes
<1>22. /\ runs'[t] = run /\ todo'[t] = left /\ held'[t] = kept[t]
       /\ \A u \in Tasks \ {t} : runs'[u] = runs[u] /\ todo'[u] = others[u]
       /\ \A u \in Tasks \ served : held'[u] = kept[u]
       /\ \A u \in served : held'[u] = Append(kept[u], Wanted(u)) /\ others[u] = Tail(todo[u])
  BY <1>1, <1>11, <1>12, <1>17, <1>20, <1>21
<1>23. \A l \in Locks : queue'[l] = Without(queue[l], served) /\ Left(queue[l], queue'[l], served)
  BY <1>1, <1>12, WithoutLeft
<1>24. LocksTypeOK'
  <2>1. held' \in [Tasks -> Seq(Guards)]
    BY <1>12, <1>14, <1>18
  <2>2. queue' \in [Locks -> Seq(Entries)]
    <3>1. \A l \in Locks : Without(queue[l], served) \in Seq(Entries)
      BY <1>23 DEF Left
    <3> QED BY <1>12, <3>1
  <2>3. runs' \in [Tasks -> [handler : Handlers, block : Nat]]
    BY <1>1, <1>21
  <2>4. todo' \in [Tasks -> Seq(Steps)]
    BY <1>20, <1>21
  <2> QED BY <2>1, <2>2, <2>3, <2>4 DEF LocksTypeOK
<1>25. TasksInv'
  <2>1. ASSUME NEW u \in Tasks PROVE OnTheWay(u, runs'[u], held'[u], todo'[u])
    <3>1. CASE u = t
      BY <1>21, <1>22, <3>1
    <3>2. CASE u \in served
      <4>1. runs'[u] = runs[u] /\ todo'[u] = Tail(todo[u]) /\ held'[u] = Append(held[u], Wanted(u))
        BY <1>17, <1>18, <1>22, <3>2
      <4> QED BY <1>18, <3>2, <4>1
    <3>3. CASE u # t /\ u \notin served
      <4>1. runs'[u] = runs[u] /\ todo'[u] = todo[u] /\ held'[u] = held[u]
        BY <1>14, <1>20, <1>22, <3>3
      <4> QED BY <4>1 DEF LocksInv, TasksInv
    <3> QED BY <3>1, <3>2, <3>3
  <2>2. runs'["main"].handler = "startup" => runs'["rescan"].handler = "none"
    <3>1. run.handler = "startup" => runs[t].handler = "startup"
      BY <1>3, <1>21
    <3>2. t = "rescan" => runs["main"].handler # "startup"
      <4>1. h # "none"
        BY <1>4 DEF Program
      <4> QED BY <1>3, <4>1 DEF LocksInv, TasksInv
    <3> QED BY <1>21, <3>1, <3>2, StartupOnce
  <2>3. (\A u \in Tasks : OnTheWay(u, runs[u], held[u], todo[u]))'
    BY <2>1
  <2> QED BY <2>2, <2>3 DEF TasksInv
<1>26. QueuesInv'
  <2>1. ASSUME NEW l \in Locks, NEW i \in DOMAIN queue'[l]
        PROVE  Asks(queue[l][i].task, Step(queue[l][i].op, l))'
    <3>1. PICK j \in DOMAIN queue[l] : queue'[l][i] = queue[l][j]
      BY <1>23 DEF Left
    <3>2. PICK u : u = queue[l][j].task
      OBVIOUS
    <3>3. u \notin served /\ u \in Tasks /\ todo[u] # Nothing
          /\ Wanted(u) = Step(queue[l][j].op, l) /\ queue[l][j].op \in {"read", "write"}
      BY <1>23, <3>1, <3>2, Standing DEF Left
    <3>4. u # t
      <4>1. Wanted(t).op = "free"
        BY DEF Release
      <4> QED BY <3>3, <4>1, StepFields
    <3>5. todo'[u] = todo[u]
      BY <1>20, <1>22, <3>3, <3>4
    <3> QED BY <3>1, <3>2, <3>3, <3>5 DEF Asks, Wanted
  <2>2. ASSUME NEW l \in Locks PROVE \A i, j \in DOMAIN queue'[l] : queue'[l][i].task = queue'[l][j].task => i = j
    <3>1. Once(queue[l])
      BY DEF LocksInv, QueuesInv, Once
    <3> QED BY <1>23, <3>1 DEF Left, Once
  <2> QED BY <2>1, <2>2 DEF QueuesInv
<1>27. GuardsInv'
  <2>1. ASSUME NEW u \in served, NEW v \in Tasks, u # v
        PROVE  Compatible(Append(kept[u], Wanted(u)), kept[v])
    <3>1. u \in Tasks /\ kept[u] \in Seq(Guards) /\ Wanted(u) \in Guards
      BY <1>14, <1>18
    <3> QED BY <1>15, <1>18, <2>1, <3>1, CompatibleMore
  <2>2. ASSUME NEW u \in served, NEW v \in served, u # v
        PROVE  Compatible(Append(kept[u], Wanted(u)), Append(kept[v], Wanted(v)))
    <3>1. u \in Tasks /\ v \in Tasks /\ kept[u] \in Seq(Guards) /\ Wanted(u) \in Guards
      BY <1>14, <1>18
    <3>2. PICK b \in Seq(Guards) : b = Append(kept[v], Wanted(v))
      BY <1>18
    <3>3. Compatible(kept[u], b)
      BY <2>1, <2>2, <3>1, <3>2, CompatibleBothWays
    <3>4. ASSUME NEW j \in DOMAIN b, b[j].lock = Wanted(u).lock PROVE ~Conflict(b[j].op, Wanted(u).op)
      <4>1. kept[v] \in Seq(Guards) /\ Wanted(v) \in Guards
        BY <1>14, <1>18
      <4>2. PICK m \in Nat : m = Len(kept[v]) /\ DOMAIN kept[v] = 1 .. m
        BY <4>1
      <4>3. DOMAIN b = 1 .. m + 1 /\ b[m + 1] = Wanted(v) /\ \A i \in 1 .. m : b[i] = kept[v][i]
        BY <3>2, <4>1, <4>2, AppendProperties
      <4>4. CASE j \in 1 .. m
        BY <1>18, <3>1, <3>4, <4>2, <4>3, <4>4
      <4>5. CASE j = m + 1
        BY <1>19, <2>2, <3>4, <4>3, <4>5
      <4> QED BY <4>3, <4>4, <4>5
    <3> QED BY <3>1, <3>2, <3>3, <3>4, CompatibleMore
  <2>3. ASSUME NEW u \in Tasks, NEW v \in Tasks, u # v PROVE Compatible(held'[u], held'[v])
    <3>1. CASE u \in served /\ v \in served
      BY <1>22, <2>2, <2>3, <3>1
    <3>2. CASE u \in served /\ v \notin served
      BY <1>22, <2>1, <2>3, <3>2
    <3>3. CASE u \notin served /\ v \in served
      BY <1>22, <2>1, <2>3, <3>3, CompatibleBothWays
    <3>4. CASE u \notin served /\ v \notin served
      BY <1>15, <1>22, <2>3, <3>4
    <3> QED BY <3>1, <3>2, <3>3, <3>4
  <2> QED BY <2>3 DEF GuardsInv
<1> QED BY <1>24, <1>25, <1>26, <1>27 DEF LocksInv

LEMMA NextLocksInv == LocksInv /\ [LocksNext]_locksVars => LocksInv'
<1> SUFFICES ASSUME LocksInv, [LocksNext]_locksVars PROVE LocksInv'
  OBVIOUS
<1>1. ASSUME NEW t \in Tasks, Begin(t) PROVE LocksInv'
  BY <1>1, BeginKeeps
<1>2. ASSUME NEW t \in Tasks, Acquire(t) PROVE LocksInv'
  BY <1>2, AcquireKeeps
<1>3. ASSUME NEW t \in Tasks, Release(t) PROVE LocksInv'
  BY <1>3, ReleaseKeeps
<1>4. CASE UNCHANGED locksVars
  <2>1. LocksTypeOK'
    BY <1>4 DEF locksVars, LocksInv, LocksTypeOK
  <2>2. TasksInv'
    BY <1>4 DEF locksVars, LocksInv, TasksInv, OnTheWay
  <2>3. QueuesInv'
    BY <1>4 DEF locksVars, LocksInv, QueuesInv, Asks, Wanted
  <2>4. GuardsInv'
    BY <1>4 DEF locksVars, LocksInv, GuardsInv
  <2> QED BY <2>1, <2>2, <2>3, <2>4 DEF LocksInv
<1> QED BY <1>1, <1>2, <1>3, <1>4 DEF LocksNext

(* However many requests, and in whatever order they come: tasks can wait  *)
(* for each other for ever only over session_paths, one that holds it      *)
(* waiting for the world or for the paths again.  Nobody else has to fear  *)
(* the order in which main.rs takes its locks.                             *)
THEOREM OnlyPathsKnot == LocksSpec => []StuckOverPathsOnly
<1>1. LocksInit => LocksInv
  BY InitLocksInv
<1>2. LocksInv /\ [LocksNext]_locksVars => LocksInv'
  BY NextLocksInv
<1>3. LocksInv => StuckOverPathsOnly
  BY NoKnot
<1> QED BY <1>1, <1>2, <1>3, PTL DEF LocksSpec

-----------------------------------------------------------------------------
(***************************************************************************)
(* The list of warm sessions, the caches and the messages, whatever the    *)
(* watcher, requests and evictions do.                                     *)
(***************************************************************************)
CachesAgree == lru \in Seq(Sessions) /\ DOMAIN messages = Sessions /\ CacheIsConsistent

(* lru_touch: the session is the last of the list, and there once.         *)
LEMMA Touched ==
    ASSUME NEW list \in Seq(Sessions), IsInjective(list), NEW s \in Sessions
    PROVE  /\ Touch(list, s) \in Seq(Sessions) /\ IsInjective(Touch(list, s))
           /\ Range(Touch(list, s)) \subseteq Range(list) \cup {s}
<1>1. PICK l \in Nat : l = Len(list) /\ DOMAIN list = 1 .. l
  OBVIOUS
<1>2. PICK rest \in Seq(Sessions) :
         /\ rest = RemoveFirst(list, s) /\ IsInjective(rest)
         /\ s \notin Range(rest) /\ Range(rest) \subseteq Range(list)
  <2>1. CASE \E i \in 1 .. l : list[i] = s
    <3> DEFINE I == {i \in 1 .. l : list[i] = s}
    <3>1. PICK k \in 1 .. l : k = Min(I) /\ list[k] = s
      <4>1. I \in SUBSET Nat /\ I # {}
        BY <2>1
      <4>2. Min(I) \in I
        <5> HIDE DEF I
        <5> QED BY <4>1, LeastOf
      <4> QED BY <4>2
    <3>2. SelectInSeq(list, LAMBDA v : v = s) = k
      BY <1>1, <2>1, <3>1 DEF SelectInSeq
    <3>3. RemoveFirst(list, s) = RemoveAt(list, k)
      BY <1>1, <2>1, <3>2 DEF RemoveFirst
    <3>4. PICK r \in Seq(Sessions) : r = RemoveAt(list, k) /\ Others(r, list, k)
      BY <1>1, <3>1, WithoutOne
    <3>5. PICK m : /\ \A j \in DOMAIN r : m[j] \in 1 .. l /\ m[j] # k /\ r[j] = list[m[j]]
                   /\ \A j, i \in DOMAIN r : m[j] = m[i] => j = i
      BY <1>1, <3>4 DEF Others
    <3>6. IsInjective(r)
      <4>1. ASSUME NEW j \in DOMAIN r, NEW i \in DOMAIN r, r[j] = r[i] PROVE j = i
        <5>1. m[j] = m[i]
          BY <1>1, <3>5, <4>1 DEF IsInjective
        <5> QED BY <3>5, <5>1
      <4> QED BY <4>1 DEF IsInjective
    <3>7. Range(r) \subseteq Range(list)
      BY <1>1, <3>5 DEF Range
    <3>8. s \notin Range(r)
      <4>1. ASSUME NEW j \in DOMAIN r, r[j] = s PROVE FALSE
        <5>1. m[j] = k
          BY <1>1, <3>1, <3>5, <4>1 DEF IsInjective
        <5> QED BY <3>5, <5>1
      <4> QED BY <4>1 DEF Range
    <3> QED BY <3>3, <3>4, <3>6, <3>7, <3>8
  <2>2. CASE ~\E i \in 1 .. l : list[i] = s
    <3>1. RemoveFirst(list, s) = list
      BY <1>1, <2>2 DEF RemoveFirst
    <3>2. s \notin Range(list)
      BY <1>1, <2>2 DEF Range
    <3> QED BY <3>1, <3>2
  <2> QED BY <2>1, <2>2
<1>3. Touch(list, s) = Append(rest, s)
  BY <1>2 DEF Touch
<1> QED BY <1>2, <1>3, RangeOfAppend

(* lru_evict: some first ones of the list, at most all of it.              *)
LEMMA VictimsComeFirst ==
    ASSUME lru \in Seq(Sessions)
    PROVE  \E n \in 0 .. Len(lru) : Victims = SubSeq(lru, 1, n)
<1>1. PICK l \in Nat : l = Len(lru)
  OBVIOUS
<1> DEFINE A == {n \in 0 .. Len(lru) :
                   /\ Len(lru) - n <= MaxWarm
                   /\ n = Len(lru) \/ Held(Sessions \ ToSet(SubSeq(lru, 1, n))) <= MaxCached}
<1>2. Len(lru) \in A /\ A \in SUBSET Nat /\ A \subseteq 0 .. Len(lru)
  BY CacheAssumption, <1>1 DEF CacheAssumption
<1>3. Victims = SubSeq(lru, 1, Min(A))
  BY DEF Victims
<1>4. Min(A) \in A
  <2> HIDE DEF A
  <2> QED BY <1>2, LeastOf
<1> HIDE DEF A
<1> QED BY <1>2, <1>3, <1>4

(* ensure_warm of a cold session.                                          *)
LEMMA EnsureWarmAgrees ==
    ASSUME CachesAgree, NEW s \in Sessions, EnsureWarm(s)
    PROVE  CachesAgree'
<1>1. /\ lru \in Seq(Sessions) /\ DOMAIN messages = Sessions
      /\ Range(lru) \subseteq warm /\ IsInjective(lru)
      /\ \A x \in Sessions \ warm : messages[x] = <<>>
  BY DEF CachesAgree, CacheIsConsistent, LruIsWarm, ColdIsEmpty, ToSet, Range
<1>2. PICK n \in 0 .. Len(lru) : Victims = SubSeq(lru, 1, n)
  BY <1>1, VictimsComeFirst
<1>3. /\ Kept \in Seq(Sessions) /\ IsInjective(Kept)
      /\ Range(Kept) \subseteq Range(lru) /\ Range(Victims) \cap Range(Kept) = {}
  <2>1. Splits(lru, n, Victims, Kept)
    BY <1>2 DEF Splits, Kept
  <2> QED BY <1>1, <2>1, SplitAt
<1>4. PICK victims : victims = Range(Victims)
  OBVIOUS
<1>5. ToSet(Victims) = victims
  BY <1>4 DEF ToSet, Range
<1>6. PICK new : messages' = [Evicted(messages, victims) EXCEPT ![s] = new]
  BY <1>5 DEF EnsureWarm
<1>7. warm' = (warm \ victims) \cup {s} /\ lru' = Touch(Kept, s)
  BY <1>5 DEF EnsureWarm
<1>8. lru' \in Seq(Sessions) /\ IsInjective(lru') /\ Range(lru') \subseteq Range(Kept) \cup {s}
  BY <1>3, <1>7, Touched
<1>9. Range(lru') \subseteq warm'
  BY <1>1, <1>3, <1>4, <1>7, <1>8
<1>10. DOMAIN messages' = Sessions
  BY <1>6 DEF Evicted
<1>11. ASSUME NEW x \in Sessions \ warm' PROVE messages'[x] = <<>>
  <2>1. x # s /\ x \in Sessions /\ (x \notin warm \/ x \in victims)
    BY <1>7
  <2>2. messages'[x] = Evicted(messages, victims)[x]
    BY <1>6, <2>1 DEF Evicted
  <2>3. Evicted(messages, victims)[x] = IF x \in victims THEN <<>> ELSE messages[x]
    BY <2>1 DEF Evicted
  <2> QED BY <1>1, <2>1, <2>2, <2>3
<1>12. LruIsWarm'
  BY <1>8, <1>9 DEF LruIsWarm, ToSet, Range
<1>13. ColdIsEmpty'
  BY <1>11 DEF ColdIsEmpty
<1> QED BY <1>8, <1>10, <1>12, <1>13 DEF CachesAgree, CacheIsConsistent

LEMMA CachesAgreeInitially == Init => CachesAgree
<1> SUFFICES ASSUME Init PROVE CachesAgree
  OBVIOUS
<1>1. lru = <<>> /\ warm = {} /\ messages = [s \in Sessions |-> <<>>]
  BY DEF Init
<1>2. lru \in Seq(Sessions) /\ Range(lru) = {} /\ IsInjective(lru)
  BY <1>1, NoneIsSeq, NothingTwice
<1> QED BY <1>1, <1>2 DEF CachesAgree, CacheIsConsistent, LruIsWarm, ColdIsEmpty, ToSet, Range

LEMMA CachesAgreeStep == CachesAgree /\ [Next]_vars => CachesAgree'
<1> SUFFICES ASSUME CachesAgree, [Next]_vars PROVE CachesAgree'
  OBVIOUS
<1>1. ASSUME lru' = lru, warm' = warm, messages' = messages PROVE CachesAgree'
  BY <1>1 DEF CachesAgree, CacheIsConsistent, LruIsWarm, ColdIsEmpty
<1>2. CASE StoreMessages
  <2>1. PICK s, new : messages' = [messages EXCEPT ![s] = new] /\ warm' = warm \cup {s} /\ lru' = lru
    BY <1>2 DEF StoreMessages
  <2>2. DOMAIN messages' = Sessions /\ \A x \in Sessions : x # s => messages'[x] = messages[x]
    BY <2>1 DEF CachesAgree
  <2>3. LruIsWarm'
    BY <2>1 DEF CachesAgree, CacheIsConsistent, LruIsWarm
  <2>4. ColdIsEmpty'
    BY <2>1, <2>2 DEF CachesAgree, CacheIsConsistent, ColdIsEmpty
  <2>5. lru' \in Seq(Sessions)
    BY <2>1 DEF CachesAgree
  <2> QED BY <2>2, <2>3, <2>4, <2>5 DEF CachesAgree, CacheIsConsistent
<1>3. ASSUME NEW s \in Sessions, GetMessages(s) PROVE CachesAgree'
  <2>1. CASE s \in warm
    <3>1. lru' = Touch(lru, s) /\ warm' = warm /\ messages' = messages
      BY <1>3, <2>1 DEF GetMessages
    <3>2. lru \in Seq(Sessions) /\ IsInjective(lru) /\ Range(lru) \subseteq warm
      BY DEF CachesAgree, CacheIsConsistent, LruIsWarm, ToSet, Range
    <3>3. lru' \in Seq(Sessions) /\ IsInjective(lru') /\ Range(lru') \subseteq warm
      BY <2>1, <3>1, <3>2, Touched
    <3>4. LruIsWarm'
      BY <3>1, <3>3 DEF LruIsWarm, ToSet, Range
    <3>5. ColdIsEmpty' /\ DOMAIN messages' = Sessions
      BY <3>1 DEF CachesAgree, CacheIsConsistent, ColdIsEmpty
    <3> QED BY <3>3, <3>4, <3>5 DEF CachesAgree, CacheIsConsistent
  <2>2. CASE s \notin warm
    BY <1>3, <2>2, EnsureWarmAgrees DEF GetMessages
  <2> QED BY <2>1, <2>2
<1>4. ASSUME NEW s \in Sessions, Write(s) \/ LoseEvent(s) \/ Notice(s) PROVE CachesAgree'
  BY <1>1, <1>4 DEF Write, LoseEvent, Notice, cacheVars
<1>5. CASE ReadOffset \/ ParseNew \/ PublishMessages
  BY <1>1, <1>5 DEF ReadOffset, ParseNew, PublishMessages, cacheVars
<1>6. CASE Scan \/ (\E entry \in found : Look(entry)) \/ Adopt
  BY <1>1, <1>6 DEF Scan, Look, Adopt, cacheVars
<1>7. CASE UNCHANGED vars
  BY <1>1, <1>7 DEF vars, cacheVars
<1> QED BY <1>2, <1>3, <1>4, <1>5, <1>6, <1>7 DEF Next, WatcherStep

(* The list names warm sessions, each once, and a cold session has nothing *)
(* left in the world, whatever the watcher, requests and evictions do.     *)
THEOREM CachesStayConsistent == Spec => []CacheIsConsistent
<1>1. Init => CachesAgree
  BY CachesAgreeInitially
<1>2. CachesAgree /\ [Next]_vars => CachesAgree'
  BY CachesAgreeStep
<1>3. CachesAgree => CacheIsConsistent
  BY DEF CachesAgree
<1> QED BY <1>1, <1>2, <1>3, PTL DEF Spec

-----------------------------------------------------------------------------
(***************************************************************************)
(* That lines arrive, if the agents write whole lines.  A session has five *)
(* places that must agree: the file, the offset, what was pushed, what the *)
(* watcher has in hand, and the cache.                                     *)
(***************************************************************************)
Whole(n) == \E k \in Nat : n = 2 * k
Rising(q) == \A i, j \in DOMAIN q : i < j => q[i] < q[j]
Below(A, B) == \A a \in A, b \in B : a < b
AnyLine == 1 .. MaxPieces

(* What was pushed and what is in hand to be pushed are the lines up to    *)
(* the offset; what is cached and what is in hand to be cached are those   *)
(* from where the cache became warm.                                       *)
Tallies(len, off, pushed, toPush, toStore, isWarm, since, cached) ==
    /\ len \in Nat /\ off \in Nat /\ Whole(len) /\ Whole(off) /\ Old0 <= off /\ off <= len
    /\ pushed \in Seq(AnyLine) /\ cached \in Seq(AnyLine)
    /\ Rising(pushed) /\ Below(Range(pushed), toPush)
    /\ Range(pushed) \cup toPush = Lines(Old0, off)
    /\ isWarm => Lines(since, off) \ toStore \subseteq Range(cached)

LEMMA Ordered ==
    ASSUME NEW A \in SUBSET AnyLine
    PROVE  InOrder(A) \in Seq(AnyLine) /\ Range(InOrder(A)) = A /\ Rising(InOrder(A))
<1>1. A \in SUBSET (0 .. (MaxPieces + 1) - 1) /\ MaxPieces + 1 \in Nat
  BY CacheAssumption DEF CacheAssumption, AnyLine
<1>2. IsFiniteSet(A) /\ \E q : Increasing(q, A)
  BY <1>1, IncreasingExists
<1>3. PICK q : q = InOrder(A) /\ Increasing(q, A)
  BY <1>2 DEF InOrder, Increasing
<1>4. A \in SUBSET Nat
  BY DEF AnyLine
<1>5. q \in Seq(A) /\ Range(q) = A
  BY <1>2, <1>3, <1>4, IncreasingIsAll
<1>6. q \in Seq(AnyLine)
  BY <1>5
<1> QED BY <1>3, <1>5, <1>6 DEF Increasing, Rising

LEMMA RisesOn ==
    ASSUME NEW p \in Seq(AnyLine), NEW q \in Seq(AnyLine),
           Rising(p), Rising(q), Below(Range(p), Range(q))
    PROVE  Rising(p \o q)
<1>1. PICK m \in Nat, n \in Nat : m = Len(p) /\ n = Len(q)
  OBVIOUS
<1>2. PICK r \in Seq(AnyLine) : r = p \o q
  BY ConcatProperties
<1>3. DOMAIN p = 1 .. m /\ DOMAIN q = 1 .. n /\ DOMAIN r = 1 .. m + n
  BY <1>1, <1>2, ConcatProperties
<1>4. /\ \A i \in 1 .. m : r[i] = p[i]
      /\ \A i \in m + 1 .. m + n : i - m \in 1 .. n /\ r[i] = q[i - m]
  BY <1>1, <1>2
<1>5. ASSUME NEW i \in 1 .. m + n, NEW j \in 1 .. m + n, i < j PROVE r[i] < r[j]
  <2>1. CASE j <= m
    <3>1. i \in 1 .. m /\ j \in 1 .. m
      BY <1>5, <2>1
    <3>2. p[i] < p[j]
      BY <1>3, <1>5, <3>1 DEF Rising
    <3> QED BY <1>4, <3>1, <3>2
  <2>2. CASE i > m
    <3>1. /\ i \in m + 1 .. m + n /\ j \in m + 1 .. m + n
          /\ i - m \in 1 .. n /\ j - m \in 1 .. n /\ i - m < j - m
      BY <1>5, <2>2
    <3>2. q[i - m] < q[j - m]
      BY <1>3, <3>1 DEF Rising
    <3> QED BY <1>4, <3>1, <3>2
  <2>3. CASE i <= m /\ j > m
    <3>1. i \in 1 .. m /\ j \in m + 1 .. m + n /\ j - m \in 1 .. n
      BY <2>3
    <3>2. p[i] \in Range(p) /\ q[j - m] \in Range(q)
      BY <1>3, <3>1 DEF Range
    <3>3. p[i] < q[j - m]
      BY <3>2 DEF Below
    <3> QED BY <1>4, <3>1, <3>3
  <2> QED BY <2>1, <2>2, <2>3
<1> QED BY <1>2, <1>3, <1>5 DEF Rising

(* An offset at the end of a line splits the lines.                        *)
LEMMA LinesSplit ==
    ASSUME NEW off \in Nat, Whole(off), NEW to \in Nat, off <= to, NEW from
    PROVE  /\ Lines(from, to) \subseteq Lines(from, off) \cup Lines(off, to)
           /\ Lines(to, off) = {}
           /\ Below(Lines(from, off), Lines(off, to))
<1>1. PICK k \in Nat : off = 2 * k
  BY DEF Whole
<1>2. \A i \in AnyLine : 2 * i - 1 > off \/ 2 * i <= off
  BY <1>1 DEF AnyLine
<1>3. Lines(from, to) \subseteq Lines(from, off) \cup Lines(off, to)
  BY <1>2 DEF Lines, AnyLine
<1>4. Lines(to, off) = {}
  BY DEF Lines
<1>5. Below(Lines(from, off), Lines(off, to))
  BY DEF Lines, Below
<1> QED BY <1>3, <1>4, <1>5

LEMMA LinesUpTo ==
    ASSUME NEW from \in Nat, NEW off \in Nat, Whole(off), from <= off, NEW to \in Nat, off <= to
    PROVE  Lines(from, off) \cup Lines(off, to) = Lines(from, to)
<1>1. Lines(from, off) \subseteq Lines(from, to) /\ Lines(off, to) \subseteq Lines(from, to)
  BY DEF Lines
<1> QED BY <1>1, LinesSplit

LEMMA Old0IsNat == Old0 \in Nat /\ Whole(Old0)
BY CacheAssumption DEF CacheAssumption, Old0, Whole

LEMMA StartTallies ==
    ASSUME NEW len, len = Old0 \/ len = Old0 + 2
    PROVE  Tallies(len, Old0, <<>>, {}, {}, FALSE, 0, <<>>)
<1>1. Whole(Old0) /\ Old0 \in Nat
  BY Old0IsNat
<1>2. PICK k \in Nat : Old0 = 2 * k
  BY <1>1 DEF Whole
<1>3. len = 2 * k \/ len = 2 * (k + 1)
  BY <1>2
<1>4. len \in Nat /\ Whole(len) /\ Old0 <= len
  <2>1. k + 1 \in Nat /\ len \in Nat /\ Old0 <= len
    BY <1>2, <1>3
  <2>2. Whole(len)
    BY <1>3, <2>1 DEF Whole
  <2> QED BY <2>1, <2>2
<1>5. Lines(Old0, Old0) = {}
  BY <1>1 DEF Lines
<1>6. <<>> \in Seq(AnyLine) /\ Range(<<>>) = {}
  BY NoneIsSeq, NothingTwice
<1> QED BY <1>1, <1>4, <1>5, <1>6 DEF Tallies, Rising, Below

LEMMA LongerTallies ==
    ASSUME NEW l, NEW o, NEW p, NEW a, NEW b, NEW w, NEW c, NEW m, Tallies(l, o, p, a, b, w, c, m)
    PROVE  Tallies(l + 2, o, p, a, b, w, c, m)
<1>1. PICK k \in Nat : l = 2 * k
  BY DEF Tallies, Whole
<1>2. l + 2 = 2 * (k + 1)
  BY <1>1
<1>3. l + 2 \in Nat /\ Whole(l + 2)
  BY <1>1, <1>2 DEF Whole
<1>4. o <= l + 2
  BY <1>1 DEF Tallies
<1> QED BY <1>3, <1>4 DEF Tallies

LEMMA ParsedTallies ==
    ASSUME NEW l, NEW o, NEW p, NEW w, NEW c, NEW m, Tallies(l, o, p, {}, {}, w, c, m),
           NEW a, a = Lines(o, l)
    PROVE  a \in SUBSET AnyLine /\ Tallies(l, l, p, a, a, w, c, m)
<1>1. /\ l \in Nat /\ o \in Nat /\ Whole(l) /\ Whole(o) /\ Old0 <= o /\ o <= l
      /\ Range(p) = Lines(Old0, o) /\ (w => Lines(c, o) \subseteq Range(m))
  BY DEF Tallies
<1>2. Old0 <= l
  BY <1>1, Old0IsNat
<1>3. Range(p) \cup a = Lines(Old0, l)
  BY <1>1, Old0IsNat, LinesUpTo
<1>4. Below(Range(p), a)
  BY <1>1, LinesSplit
<1>5. w => Lines(c, l) \ a \subseteq Range(m)
  BY <1>1, LinesSplit
<1>6. a \in SUBSET AnyLine
  BY DEF Lines, AnyLine
<1> QED BY <1>1, <1>2, <1>3, <1>4, <1>5, <1>6 DEF Tallies

LEMMA StoredTallies ==
    ASSUME NEW l, NEW o, NEW p, NEW a \in SUBSET AnyLine, NEW w \in BOOLEAN, NEW c, NEW m,
           Tallies(l, o, p, a, a, w, c, m), NEW d, d = IF w THEN c ELSE l
    PROVE  Tallies(l, o, p, a, {}, TRUE, d, m \o InOrder(a))
<1>1. PICK q \in Seq(AnyLine) : q = InOrder(a) /\ Range(q) = a
  BY Ordered
<1>2. m \o q \in Seq(AnyLine) /\ Range(m \o q) = Range(m) \cup a
  BY <1>1, RangeOfConcat DEF Tallies
<1>3. Lines(d, o) \subseteq Range(m) \cup a
  <2>1. CASE w
    BY <2>1 DEF Tallies
  <2>2. CASE ~w
    <3>1. Lines(l, o) = {}
      BY LinesSplit DEF Tallies
    <3> QED BY <2>2, <3>1
  <2> QED BY <2>1, <2>2
<1> QED BY <1>1, <1>2, <1>3 DEF Tallies

LEMMA PushedTallies ==
    ASSUME NEW l, NEW o, NEW p, NEW a \in SUBSET AnyLine, NEW w, NEW c, NEW m,
           Tallies(l, o, p, a, {}, w, c, m)
    PROVE  Tallies(l, o, p \o InOrder(a), {}, {}, w, c, m)
<1>1. PICK q \in Seq(AnyLine) : q = InOrder(a) /\ Range(q) = a /\ Rising(q)
  BY Ordered
<1>2. p \o q \in Seq(AnyLine) /\ Range(p \o q) = Range(p) \cup a
  BY <1>1, RangeOfConcat DEF Tallies
<1>3. Rising(p \o q)
  BY <1>1, RisesOn DEF Tallies
<1>4. Below(Range(p \o q), {})
  BY DEF Below
<1> QED BY <1>1, <1>2, <1>3, <1>4 DEF Tallies

LEMMA WarmedTallies ==
    ASSUME NEW l, NEW o, NEW p, NEW a, NEW b, NEW w, NEW c, NEW m, Tallies(l, o, p, a, b, w, c, m),
           NEW n \in {m, <<>>}
    PROVE  Tallies(l, o, p, a, b, TRUE, l, n \o InOrder(Lines(0, l)))
<1>1. Lines(0, l) \in SUBSET AnyLine
  BY DEF Lines, AnyLine
<1>2. n \in Seq(AnyLine)
  BY NoneIsSeq DEF Tallies
<1>3. n \o InOrder(Lines(0, l)) \in Seq(AnyLine)
  BY <1>1, <1>2, Ordered, RangeOfConcat
<1>4. Lines(l, o) = {}
  BY LinesSplit DEF Tallies
<1> QED BY <1>3, <1>4 DEF Tallies

LEMMA ClearedTallies ==
    ASSUME NEW l, NEW o, NEW p, NEW a, NEW b, NEW w, NEW c, NEW m, Tallies(l, o, p, a, b, w, c, m)
    PROVE  Tallies(l, o, p, a, b, FALSE, c, <<>>)
BY NoneIsSeq DEF Tallies

-----------------------------------------------------------------------------
(* What the watcher has in hand.                                           *)
ToPush(w, s) == IF w.at \in {"store", "publish"} /\ w.session = s THEN w.lines ELSE {}
ToStore(w, s) == IF w.at = "store" /\ w.session = s THEN w.lines ELSE {}
WillParse(w, s) == w.at \in {"offset", "parse"} /\ w.session = s

\* The offset of a session is stale between ReadOffset and ParseNew only if the rescan
\* adopts it, which it does not if the session was there at startup.
InStep(w, offs) ==
    \/ w = Asleep
    \/ \E s \in Sessions :
          \/ w = [at |-> "offset", session |-> s]
          \/ \E o : w = [at |-> "parse", session |-> s, from |-> o] /\ (s \in Old => o = offs[s])
          \/ \E a \in SUBSET AnyLine, at \in {"store", "publish"} :
                w = [at |-> at, session |-> s, lines |-> a]

SessionTallies(s) ==
    Tallies(size[s], offsets[s], emitted[s], ToPush(watcher, s), ToStore(watcher, s),
            s \in warm, warmed[s], messages[s])

\* What was written and not read will be read, or nobody noticed.
WillBeRead(s) ==
    offsets[s] # size[s] => s \in changed \cup missed \/ WillParse(watcher, s)

ArriveInv ==
    /\ DOMAIN size = Sessions /\ DOMAIN offsets = Sessions /\ DOMAIN emitted = Sessions
    /\ DOMAIN messages = Sessions /\ DOMAIN warmed = Sessions
    /\ Old \subseteq registered
    /\ adopting = <<>> \/ \E entry : adopting = <<entry>> /\ entry.session \notin Old
    /\ InStep(watcher, offsets)
    /\ \A s \in Old : SessionTallies(s) /\ WillBeRead(s)

LEMMA ArriveMeans == ArriveInv => LinesArrive
<1> SUFFICES ASSUME ArriveInv PROVE LinesArrive
  OBVIOUS
<1>1. ASSUME NEW s \in Old
      PROVE  /\ emitted[s] \in Seq(AnyLine) /\ Rising(emitted[s])
             /\ Range(emitted[s]) \cup ToPush(watcher, s) = Lines(Old0, offsets[s])
             /\ s \in warm =>
                  Lines(warmed[s], offsets[s]) \ ToStore(watcher, s) \subseteq Range(messages[s])
  BY DEF ArriveInv, SessionTallies, Tallies
<1>2. ASSUME NEW s \in Old, Settled(s)
      PROVE  offsets[s] = size[s] /\ ToPush(watcher, s) = {} /\ ToStore(watcher, s) = {}
  <2>1. s \notin changed \cup missed /\ (watcher = Asleep \/ watcher.session # s)
    BY <1>2 DEF Settled
  <2>2. ~WillParse(watcher, s) /\ ToPush(watcher, s) = {} /\ ToStore(watcher, s) = {}
    BY <2>1 DEF Asleep, WillParse, ToPush, ToStore
  <2> QED BY <2>1, <2>2 DEF ArriveInv, WillBeRead
<1>3. EmittedInOrder
  BY <1>1 DEF EmittedInOrder, Rising
<1>4. EveryLineEmitted
  <2>1. ASSUME NEW s \in Old, Settled(s) PROVE Range(emitted[s]) = Lines(Old0, size[s])
    <3>1. Range(emitted[s]) \cup ToPush(watcher, s) = Lines(Old0, offsets[s])
      BY <1>1
    <3>2. offsets[s] = size[s] /\ ToPush(watcher, s) = {}
      BY <1>2, <2>1
    <3> QED BY <3>1, <3>2
  <2> QED BY <2>1 DEF EveryLineEmitted, ToSet, Range
<1>5. CacheCatchesUp
  <2>1. ASSUME NEW s \in Old \cap warm, Settled(s)
        PROVE  Lines(warmed[s], size[s]) \subseteq Range(messages[s])
    <3>1. Lines(warmed[s], offsets[s]) \ ToStore(watcher, s) \subseteq Range(messages[s])
      BY <1>1
    <3>2. offsets[s] = size[s] /\ ToStore(watcher, s) = {}
      BY <1>2, <2>1
    <3> QED BY <3>1, <3>2
  <2> QED BY <2>1 DEF CacheCatchesUp, ToSet, Range
<1> QED BY <1>3, <1>4, <1>5 DEF LinesArrive

LEMMA ArriveInitially == Init => ArriveInv
<1> SUFFICES ASSUME Init PROVE ArriveInv
  OBVIOUS
<1>1. /\ missed \in SUBSET Old /\ changed = {} /\ registered = Old /\ watcher = Asleep
      /\ adopting = <<>> /\ warm = {}
      /\ size = [s \in Sessions |-> IF s \in missed THEN Old0 + 2 ELSE IF s \in Old THEN Old0 ELSE 0]
      /\ offsets = [s \in Sessions |-> IF s \in Old THEN Old0 ELSE 0]
      /\ messages = [s \in Sessions |-> <<>>] /\ emitted = [s \in Sessions |-> <<>>]
      /\ warmed = [s \in Sessions |-> 0]
  BY DEF Init
<1>2. /\ DOMAIN size = Sessions /\ DOMAIN offsets = Sessions /\ DOMAIN emitted = Sessions
      /\ DOMAIN messages = Sessions /\ DOMAIN warmed = Sessions
  BY <1>1
<1>3. ASSUME NEW s \in Old PROVE SessionTallies(s) /\ WillBeRead(s)
  <2>1. /\ offsets[s] = Old0 /\ emitted[s] = <<>> /\ messages[s] = <<>> /\ warmed[s] = 0
        /\ size[s] = (IF s \in missed THEN Old0 + 2 ELSE Old0)
    BY <1>1, CacheAssumption DEF CacheAssumption
  <2>2. ToPush(watcher, s) = {} /\ ToStore(watcher, s) = {} /\ (s \in warm) = FALSE
    BY <1>1 DEF ToPush, ToStore, Asleep
  <2>3. size[s] = Old0 \/ size[s] = Old0 + 2
    BY <2>1
  <2>4. Tallies(size[s], Old0, <<>>, {}, {}, FALSE, 0, <<>>)
    BY <2>3, StartTallies
  <2>5. SessionTallies(s)
    BY <2>1, <2>2, <2>4 DEF SessionTallies
  <2>6. WillBeRead(s)
    BY <2>1 DEF WillBeRead
  <2> QED BY <2>5, <2>6
<1> QED BY <1>1, <1>2, <1>3 DEF ArriveInv, InStep

(* A step that leaves the places of s alone.                               *)
Untouched(s) ==
    /\ size'[s] = size[s] /\ offsets'[s] = offsets[s] /\ emitted'[s] = emitted[s]
    /\ warmed'[s] = warmed[s] /\ messages'[s] = messages[s] /\ (s \in warm' <=> s \in warm)

LEMMA UntouchedTallies ==
    ASSUME NEW s, SessionTallies(s), Untouched(s),
           ToPush(watcher', s) = ToPush(watcher, s), ToStore(watcher', s) = ToStore(watcher, s)
    PROVE  SessionTallies(s)'
<1>1. (s \in warm') = (s \in warm)
  BY DEF Untouched
<1> QED BY <1>1 DEF SessionTallies, Untouched

(* Where the watcher is tells what it has in hand.                         *)
LEMMA WatcherAt ==
    ASSUME NEW w, NEW offs, InStep(w, offs)
    PROVE  /\ w.at = "offset" => \E s \in Sessions : w = [at |-> "offset", session |-> s]
           /\ w.at = "parse" =>
                \E s \in Sessions : \E o :
                   w = [at |-> "parse", session |-> s, from |-> o] /\ (s \in Old => o = offs[s])
           /\ w.at \in {"store", "publish"} =>
                \E s \in Sessions, a \in SUBSET AnyLine :
                   w = [at |-> w.at, session |-> s, lines |-> a]
<1>1. ASSUME w = Asleep PROVE w.at = "asleep"
  BY <1>1 DEF Asleep
<1>2. ASSUME NEW s \in Sessions, w = [at |-> "offset", session |-> s] PROVE w.at = "offset"
  BY <1>2
<1>3. ASSUME NEW s \in Sessions, NEW o, w = [at |-> "parse", session |-> s, from |-> o]
      PROVE  w.at = "parse"
  BY <1>3
<1>4. ASSUME NEW s \in Sessions, NEW a \in SUBSET AnyLine, NEW at \in {"store", "publish"},
             w = [at |-> at, session |-> s, lines |-> a]
      PROVE  w.at = at
  BY <1>4
<1>5. CASE w = Asleep
  BY <1>1, <1>5
<1>6. CASE w # Asleep
  <2>1. PICK s \in Sessions :
          \/ w = [at |-> "offset", session |-> s]
          \/ \E o : w = [at |-> "parse", session |-> s, from |-> o] /\ (s \in Old => o = offs[s])
          \/ \E a \in SUBSET AnyLine, at \in {"store", "publish"} :
                w = [at |-> at, session |-> s, lines |-> a]
    BY <1>6 DEF InStep
  <2>2. CASE w = [at |-> "offset", session |-> s]
    BY <1>2, <2>2
  <2>3. CASE \E o : w = [at |-> "parse", session |-> s, from |-> o] /\ (s \in Old => o = offs[s])
    BY <1>3, <2>3
  <2>4. CASE \E a \in SUBSET AnyLine, at \in {"store", "publish"} :
                w = [at |-> at, session |-> s, lines |-> a]
    BY <1>4, <2>4
  <2> QED BY <2>1, <2>2, <2>3, <2>4
<1> QED BY <1>5, <1>6

LEMMA WriteStep ==
    ASSUME Writes = {2}, ArriveInv, NEW s \in Sessions, Write(s)
    PROVE  ArriveInv'
<1>1. /\ size' = [size EXCEPT ![s] = @ + 2] /\ changed' = changed \cup {s} /\ missed' = missed \ {s}
      /\ offsets' = offsets /\ registered' = registered /\ messages' = messages /\ warm' = warm
      /\ warmed' = warmed /\ watcher' = watcher /\ adopting' = adopting /\ emitted' = emitted
  BY DEF Write, indexVars, cacheVars
<1>2. /\ DOMAIN size' = Sessions /\ DOMAIN offsets' = Sessions /\ DOMAIN emitted' = Sessions
      /\ DOMAIN messages' = Sessions /\ DOMAIN warmed' = Sessions
      /\ Old \subseteq registered' /\ InStep(watcher', offsets')
      /\ adopting' = <<>> \/ \E entry : adopting' = <<entry>> /\ entry.session \notin Old
  BY <1>1 DEF ArriveInv
<1>3. ASSUME NEW x \in Old PROVE SessionTallies(x)' /\ WillBeRead(x)'
  <2>1. SessionTallies(x) /\ WillBeRead(x) /\ x \in Sessions
    BY CacheAssumption DEF ArriveInv, CacheAssumption
  <2>2. CASE x = s
    <3>1. size'[x] = size[x] + 2
      BY <1>1, <2>1, <2>2 DEF ArriveInv
    <3>2. Tallies(size[x] + 2, offsets[x], emitted[x], ToPush(watcher, x), ToStore(watcher, x),
                  x \in warm, warmed[x], messages[x])
      BY <2>1, LongerTallies DEF SessionTallies
    <3>3. SessionTallies(x)'
      BY <1>1, <3>1, <3>2 DEF SessionTallies
    <3>4. WillBeRead(x)'
      BY <1>1, <2>2 DEF WillBeRead
    <3> QED BY <3>3, <3>4
  <2>3. CASE x # s
    <3>1. size'[x] = size[x]
      BY <1>1, <2>1, <2>3 DEF ArriveInv
    <3>2. SessionTallies(x)'
      BY <1>1, <2>1, <3>1 DEF SessionTallies
    <3>3. WillBeRead(x)'
      BY <1>1, <2>1, <2>3, <3>1 DEF WillBeRead
    <3> QED BY <3>2, <3>3
  <2> QED BY <2>2, <2>3
<1> QED BY <1>2, <1>3 DEF ArriveInv

LEMMA LoseStep ==
    ASSUME ArriveInv, NEW s \in Sessions, LoseEvent(s)
    PROVE  ArriveInv'
<1>1. /\ size' = size /\ changed' = changed \ {s} /\ missed' = missed \cup {s}
      /\ offsets' = offsets /\ registered' = registered /\ messages' = messages /\ warm' = warm
      /\ warmed' = warmed /\ watcher' = watcher /\ adopting' = adopting /\ emitted' = emitted
  BY DEF LoseEvent, indexVars, cacheVars
<1>2. ASSUME NEW x \in Old PROVE SessionTallies(x)' /\ WillBeRead(x)'
  <2>1. SessionTallies(x) /\ WillBeRead(x)
    BY DEF ArriveInv
  <2> QED BY <1>1, <2>1 DEF SessionTallies, WillBeRead
<1> QED BY <1>1, <1>2 DEF ArriveInv

LEMMA NoticeStep ==
    ASSUME ArriveInv, NEW s \in Sessions, Notice(s)
    PROVE  ArriveInv'
<1>1. /\ size' = size /\ changed' = changed \ {s} /\ missed' = missed
      /\ offsets' = offsets /\ registered' = registered \cup {s} /\ messages' = messages
      /\ warm' = warm /\ warmed' = warmed /\ adopting' = adopting /\ emitted' = emitted
      /\ watcher = Asleep /\ watcher' = [at |-> "offset", session |-> s]
  BY DEF Notice, cacheVars
<1>2. ASSUME NEW x \in Old PROVE SessionTallies(x)' /\ WillBeRead(x)'
  <2>1. SessionTallies(x) /\ WillBeRead(x)
    BY DEF ArriveInv
  <2>2. /\ ToPush(watcher, x) = {} /\ ToStore(watcher, x) = {} /\ ~WillParse(watcher, x)
        /\ ToPush(watcher', x) = {} /\ ToStore(watcher', x) = {}
        /\ (x = s => WillParse(watcher', x))
    BY <1>1 DEF ToPush, ToStore, WillParse, Asleep
  <2>3. Untouched(x)
    BY <1>1 DEF Untouched
  <2>4. SessionTallies(x)'
    BY <2>1, <2>2, <2>3, UntouchedTallies
  <2>5. WillBeRead(x)'
    BY <1>1, <2>1, <2>2 DEF WillBeRead
  <2> QED BY <2>4, <2>5
<1>3. InStep(watcher', offsets')
  BY <1>1 DEF InStep
<1> QED BY <1>1, <1>2, <1>3 DEF ArriveInv

LEMMA ReadOffsetStep ==
    ASSUME ArriveInv, ReadOffset
    PROVE  ArriveInv'
<1>1. PICK s \in Sessions : watcher = [at |-> "offset", session |-> s]
  BY WatcherAt DEF ArriveInv, ReadOffset
<1>2. /\ size' = size /\ changed' = changed /\ missed' = missed
      /\ offsets' = offsets /\ registered' = registered /\ messages' = messages
      /\ warm' = warm /\ warmed' = warmed /\ adopting' = adopting /\ emitted' = emitted
      /\ watcher' = [at |-> "parse", session |-> s, from |-> offsets[s]]
  BY <1>1 DEF ReadOffset, fileVars, indexVars, cacheVars
<1>3. ASSUME NEW x \in Old PROVE SessionTallies(x)' /\ WillBeRead(x)'
  <2>1. SessionTallies(x) /\ WillBeRead(x)
    BY DEF ArriveInv
  <2>2. /\ ToPush(watcher, x) = {} /\ ToStore(watcher, x) = {}
        /\ ToPush(watcher', x) = {} /\ ToStore(watcher', x) = {}
        /\ (WillParse(watcher, x) => WillParse(watcher', x))
    BY <1>1, <1>2 DEF ToPush, ToStore, WillParse
  <2>3. Untouched(x)
    BY <1>2 DEF Untouched
  <2>4. SessionTallies(x)'
    BY <2>1, <2>2, <2>3, UntouchedTallies
  <2>5. WillBeRead(x)'
    BY <1>2, <2>1, <2>2 DEF WillBeRead
  <2> QED BY <2>4, <2>5
<1>4. InStep(watcher', offsets')
  BY <1>2 DEF InStep
<1> QED BY <1>2, <1>3, <1>4 DEF ArriveInv

LEMMA ParseStep ==
    ASSUME ArriveInv, ParseNew
    PROVE  ArriveInv'
<1>0. PICK s \in Sessions : \E o : /\ watcher = [at |-> "parse", session |-> s, from |-> o]
                                   /\ s \in Old => o = offsets[s]
  BY WatcherAt DEF ArriveInv, ParseNew
<1>1. PICK o : /\ watcher = [at |-> "parse", session |-> s, from |-> o]
               /\ s \in Old => o = offsets[s]
  BY <1>0
<1>2. PICK a : a = Lines(o, size[s])
  OBVIOUS
<1>3. /\ size' = size /\ changed' = changed /\ missed' = missed
      /\ offsets' = [offsets EXCEPT ![s] = size[s]] /\ registered' = registered
      /\ messages' = messages /\ warm' = warm /\ warmed' = warmed
      /\ adopting' = adopting /\ emitted' = emitted
      /\ watcher' = IF a = {} THEN Asleep ELSE [at |-> "store", session |-> s, lines |-> a]
  BY <1>1, <1>2 DEF ParseNew, Goes, fileVars, cacheVars
<1>4. DOMAIN offsets' = Sessions /\ offsets'[s] = size[s] /\ \A x \in Sessions : x # s => offsets'[x] = offsets[x]
  BY <1>3 DEF ArriveInv
<1>5. /\ \A x : ToPush(watcher, x) = {} /\ ToStore(watcher, x) = {} /\ (WillParse(watcher, x) => x = s)
      /\ \A x : x # s => ToPush(watcher', x) = {} /\ ToStore(watcher', x) = {}
      /\ ToPush(watcher', s) = a /\ ToStore(watcher', s) = a
  <2>1. \A x : ToPush(watcher, x) = {} /\ ToStore(watcher, x) = {} /\ (WillParse(watcher, x) => x = s)
    BY <1>1 DEF ToPush, ToStore, WillParse
  <2>2. CASE a = {}
    BY <1>3, <2>1, <2>2 DEF ToPush, ToStore, Asleep
  <2>3. CASE a # {}
    BY <1>3, <2>1, <2>3 DEF ToPush, ToStore
  <2> QED BY <2>2, <2>3
<1>6. ASSUME NEW x \in Old PROVE SessionTallies(x)' /\ WillBeRead(x)'
  <2>1. SessionTallies(x) /\ WillBeRead(x) /\ x \in Sessions
    BY CacheAssumption DEF ArriveInv, CacheAssumption
  <2>2. CASE x = s
    <3>1. Tallies(size[s], offsets[s], emitted[s], {}, {}, s \in warm, warmed[s], messages[s])
      BY <1>5, <2>1, <2>2 DEF SessionTallies
    <3>2. Tallies(size[s], size[s], emitted[s], a, a, s \in warm, warmed[s], messages[s])
      BY <1>1, <1>2, <2>2, <3>1, ParsedTallies
    <3>3. SessionTallies(x)'
      BY <1>3, <1>4, <1>5, <2>2, <3>2 DEF SessionTallies
    <3>4. WillBeRead(x)'
      BY <1>3, <1>4, <2>2 DEF WillBeRead
    <3> QED BY <3>3, <3>4
  <2>3. CASE x # s
    <3>1. Untouched(x)
      BY <1>3, <1>4, <2>1, <2>3 DEF Untouched
    <3>2. SessionTallies(x)'
      BY <1>5, <2>1, <2>3, <3>1, UntouchedTallies
    <3>3. WillBeRead(x)'
      BY <1>3, <1>4, <1>5, <2>1, <2>3 DEF WillBeRead
    <3> QED BY <3>2, <3>3
  <2> QED BY <2>2, <2>3
<1>7. InStep(watcher', offsets')
  <2>1. a \in SUBSET AnyLine
    BY <1>2 DEF Lines, AnyLine
  <2> QED BY <1>3, <2>1 DEF InStep
<1> QED BY <1>3, <1>4, <1>6, <1>7 DEF ArriveInv

LEMMA StoreStep ==
    ASSUME ArriveInv, StoreMessages
    PROVE  ArriveInv'
<1>1. PICK s \in Sessions, a \in SUBSET AnyLine : watcher = [at |-> "store", session |-> s, lines |-> a]
  BY WatcherAt DEF ArriveInv, StoreMessages
<1>2. PICK d : d = IF s \in warm THEN warmed[s] ELSE size[s]
  OBVIOUS
<1>3. /\ size' = size /\ changed' = changed /\ missed' = missed /\ offsets' = offsets
      /\ registered' = registered /\ adopting' = adopting /\ emitted' = emitted
      /\ messages' = [messages EXCEPT ![s] = @ \o InOrder(a)] /\ warm' = warm \cup {s}
      /\ warmed' = IF s \in warm THEN warmed ELSE [warmed EXCEPT ![s] = size[s]]
      /\ watcher' = [watcher EXCEPT !.at = "publish"]
  BY <1>1 DEF StoreMessages, Published, fileVars, indexVars
<1>4. watcher' = [at |-> "publish", session |-> s, lines |-> a]
  BY <1>1, <1>3
<1>5. /\ DOMAIN messages' = Sessions /\ messages'[s] = messages[s] \o InOrder(a)
      /\ \A x \in Sessions : x # s => messages'[x] = messages[x]
  BY <1>3 DEF ArriveInv
<1>6. /\ DOMAIN warmed' = Sessions /\ warmed'[s] = d
      /\ \A x \in Sessions : x # s => warmed'[x] = warmed[x]
  <2>1. CASE s \in warm
    BY <1>2, <1>3, <2>1 DEF ArriveInv
  <2>2. CASE s \notin warm
    BY <1>2, <1>3, <2>2 DEF ArriveInv
  <2> QED BY <2>1, <2>2
<1>7. /\ \A x : ~WillParse(watcher, x)
      /\ \A x : x # s => /\ ToPush(watcher, x) = {} /\ ToStore(watcher, x) = {}
                         /\ ToPush(watcher', x) = {} /\ ToStore(watcher', x) = {}
      /\ ToPush(watcher, s) = a /\ ToStore(watcher, s) = a
      /\ ToPush(watcher', s) = a /\ ToStore(watcher', s) = {}
  BY <1>1, <1>4 DEF ToPush, ToStore, WillParse
<1>8. ASSUME NEW x \in Old PROVE SessionTallies(x)' /\ WillBeRead(x)'
  <2>1. SessionTallies(x) /\ WillBeRead(x) /\ x \in Sessions
    BY CacheAssumption DEF ArriveInv, CacheAssumption
  <2>2. WillBeRead(x)'
    BY <1>3, <1>7, <2>1 DEF WillBeRead
  <2>3. CASE x = s
    <3>1. PICK w \in BOOLEAN : w = (s \in warm)
      <4>1. CASE s \in warm
        <5>1. TRUE = (s \in warm)
          BY <4>1
        <5> QED BY <5>1
      <4>2. CASE s \notin warm
        <5>1. FALSE = (s \in warm)
          BY <4>2
        <5> QED BY <5>1
      <4> QED BY <4>1, <4>2
    <3>2. Tallies(size[s], offsets[s], emitted[s], a, a, w, warmed[s], messages[s])
      BY <1>7, <2>1, <2>3, <3>1 DEF SessionTallies
    <3>3. d = IF w THEN warmed[s] ELSE size[s]
      BY <1>2, <3>1
    <3>4. Tallies(size[s], offsets[s], emitted[s], a, {}, TRUE, d, messages[s] \o InOrder(a))
      BY <3>2, <3>3, StoredTallies
    <3>5. (s \in warm') = TRUE
      BY <1>3
    <3>6. SessionTallies(x)'
      BY <1>3, <1>5, <1>6, <1>7, <2>3, <3>4, <3>5 DEF SessionTallies
    <3> QED BY <2>2, <3>6
  <2>4. CASE x # s
    <3>1. Untouched(x)
      BY <1>3, <1>5, <1>6, <2>1, <2>4 DEF Untouched
    <3>2. SessionTallies(x)'
      BY <1>7, <2>1, <2>4, <3>1, UntouchedTallies
    <3> QED BY <2>2, <3>2
  <2> QED BY <2>3, <2>4
<1>9. InStep(watcher', offsets')
  BY <1>4 DEF InStep
<1> QED BY <1>3, <1>5, <1>6, <1>8, <1>9 DEF ArriveInv

LEMMA PublishStep ==
    ASSUME ArriveInv, PublishMessages
    PROVE  ArriveInv'
<1>1. PICK s \in Sessions, a \in SUBSET AnyLine :
         watcher = [at |-> "publish", session |-> s, lines |-> a]
  BY WatcherAt DEF ArriveInv, PublishMessages
<1>2. /\ size' = size /\ changed' = changed /\ missed' = missed /\ offsets' = offsets
      /\ registered' = registered /\ adopting' = adopting
      /\ messages' = messages /\ warm' = warm /\ warmed' = warmed
      /\ emitted' = [emitted EXCEPT ![s] = @ \o InOrder(a)] /\ watcher' = Asleep
  BY <1>1 DEF PublishMessages, fileVars, indexVars, cacheVars
<1>3. /\ DOMAIN emitted' = Sessions /\ emitted'[s] = emitted[s] \o InOrder(a)
      /\ \A x \in Sessions : x # s => emitted'[x] = emitted[x]
  BY <1>2 DEF ArriveInv
<1>4. /\ \A x : /\ ~WillParse(watcher, x) /\ ToStore(watcher, x) = {}
                /\ ToPush(watcher', x) = {} /\ ToStore(watcher', x) = {}
      /\ \A x : x # s => ToPush(watcher, x) = {}
      /\ ToPush(watcher, s) = a
  BY <1>1, <1>2 DEF ToPush, ToStore, WillParse, Asleep
<1>5. ASSUME NEW x \in Old PROVE SessionTallies(x)' /\ WillBeRead(x)'
  <2>1. SessionTallies(x) /\ WillBeRead(x) /\ x \in Sessions
    BY CacheAssumption DEF ArriveInv, CacheAssumption
  <2>2. WillBeRead(x)'
    BY <1>2, <1>4, <2>1 DEF WillBeRead
  <2>3. CASE x = s
    <3>1. Tallies(size[s], offsets[s], emitted[s], a, {}, s \in warm, warmed[s], messages[s])
      BY <1>4, <2>1, <2>3 DEF SessionTallies
    <3>2. Tallies(size[s], offsets[s], emitted[s] \o InOrder(a), {}, {}, s \in warm,
                  warmed[s], messages[s])
      BY <3>1, PushedTallies
    <3>3. SessionTallies(x)'
      BY <1>2, <1>3, <1>4, <2>3, <3>2 DEF SessionTallies
    <3> QED BY <2>2, <3>3
  <2>4. CASE x # s
    <3>1. Untouched(x)
      BY <1>2, <1>3, <2>1, <2>4 DEF Untouched
    <3>2. SessionTallies(x)'
      BY <1>4, <2>1, <2>4, <3>1, UntouchedTallies
    <3> QED BY <2>2, <3>2
  <2> QED BY <2>3, <2>4
<1>6. InStep(watcher', offsets')
  BY <1>2 DEF InStep
<1> QED BY <1>2, <1>3, <1>5, <1>6 DEF ArriveInv

LEMMA RescanStep ==
    ASSUME ArriveInv, Scan \/ (\E entry \in found : Look(entry)) \/ Adopt
    PROVE  ArriveInv'
<1>1. /\ size' = size /\ changed' = changed /\ missed' = missed
      /\ messages' = messages /\ warm' = warm /\ warmed' = warmed
      /\ emitted' = emitted /\ watcher' = watcher
  BY DEF Scan, Look, Adopt, fileVars, indexVars, cacheVars
<1>2. /\ Old \subseteq registered'
      /\ adopting' = <<>> \/ \E entry : adopting' = <<entry>> /\ entry.session \notin Old
  <2>1. CASE Scan
    BY <2>1 DEF Scan, indexVars, ArriveInv
  <2>2. ASSUME NEW entry \in found, Look(entry)
        PROVE  /\ Old \subseteq registered'
               /\ adopting' = <<>> \/ \E e : adopting' = <<e>> /\ e.session \notin Old
    BY <2>2 DEF Look, ArriveInv
  <2>3. CASE Adopt
    BY <2>3 DEF Adopt, ArriveInv
  <2> QED BY <2>1, <2>2, <2>3
<1>3. DOMAIN offsets' = Sessions /\ \A x \in Old : offsets'[x] = offsets[x]
  <2>1. CASE Scan \/ (\E entry \in found : Look(entry))
    BY <2>1 DEF Scan, Look, indexVars, ArriveInv
  <2>2. CASE Adopt
    <3>1. PICK entry : adopting = <<entry>> /\ entry.session \notin Old
      BY <2>2 DEF Adopt, ArriveInv
    <3>2. offsets' = [offsets EXCEPT ![entry.session] = entry.size]
      BY <2>2, <3>1 DEF Adopt
    <3>3. ASSUME NEW x \in Old PROVE offsets'[x] = offsets[x]
      <4>1. x # entry.session /\ x \in DOMAIN offsets
        BY <3>1, CacheAssumption DEF CacheAssumption, ArriveInv
      <4> QED BY <3>2, <4>1
    <3>4. DOMAIN offsets' = Sessions
      BY <3>2 DEF ArriveInv
    <3> QED BY <3>3, <3>4
  <2> QED BY <2>1, <2>2
<1>4. ASSUME NEW x \in Old PROVE SessionTallies(x)' /\ WillBeRead(x)'
  <2>1. SessionTallies(x) /\ WillBeRead(x)
    BY DEF ArriveInv
  <2> QED BY <1>1, <1>3, <2>1 DEF SessionTallies, WillBeRead
<1>5. InStep(watcher', offsets')
  BY <1>1, <1>3 DEF ArriveInv, InStep
<1> QED BY <1>1, <1>2, <1>3, <1>4, <1>5 DEF ArriveInv

LEMMA RequestStep ==
    ASSUME ArriveInv, NEW s \in Sessions, GetMessages(s)
    PROVE  ArriveInv'
<1>1. /\ size' = size /\ changed' = changed /\ missed' = missed /\ offsets' = offsets
      /\ registered' = registered /\ adopting' = adopting /\ emitted' = emitted
      /\ watcher' = watcher
  BY DEF GetMessages, EnsureWarm, fileVars, indexVars
<1>2. ASSUME NEW x \in Old PROVE WillBeRead(x)'
  BY <1>1 DEF ArriveInv, WillBeRead
<1>3. CASE s \in warm
  <2>1. messages' = messages /\ warm' = warm /\ warmed' = warmed
    BY <1>3 DEF GetMessages
  <2>2. \A x \in Old : SessionTallies(x)'
    BY <1>1, <2>1 DEF ArriveInv, SessionTallies
  <2> QED BY <1>1, <1>2, <2>1, <2>2 DEF ArriveInv
<1>4. CASE s \notin warm
  <2>1. PICK victims : victims = ToSet(Victims)
    OBVIOUS
  <2>2. PICK new : new = Evicted(messages, victims)[s] \o InOrder(Lines(0, size[s]))
    OBVIOUS
  <2>3. /\ messages' = [Evicted(messages, victims) EXCEPT ![s] = new]
        /\ warm' = (warm \ victims) \cup {s} /\ warmed' = [warmed EXCEPT ![s] = size[s]]
    BY <1>4, <2>1, <2>2 DEF GetMessages, EnsureWarm
  <2>4. /\ DOMAIN Evicted(messages, victims) = Sessions
        /\ \A x \in Sessions :
              Evicted(messages, victims)[x] = IF x \in victims THEN <<>> ELSE messages[x]
    BY DEF Evicted
  <2>5. /\ DOMAIN messages' = Sessions /\ messages'[s] = new
        /\ \A x \in Sessions : x # s => messages'[x] = IF x \in victims THEN <<>> ELSE messages[x]
    BY <2>3, <2>4
  <2>6. /\ DOMAIN warmed' = Sessions /\ warmed'[s] = size[s]
        /\ \A x \in Sessions : x # s => warmed'[x] = warmed[x]
    BY <2>3 DEF ArriveInv
  <2>7. ASSUME NEW x \in Old PROVE SessionTallies(x)'
    <3>1. SessionTallies(x) /\ x \in Sessions
      BY CacheAssumption DEF ArriveInv, CacheAssumption
    <3>2. CASE x = s
      <4>1. PICK n \in {messages[s], <<>>} : new = n \o InOrder(Lines(0, size[s]))
        BY <2>2, <2>4
      <4>2. Tallies(size[s], offsets[s], emitted[s], ToPush(watcher, s), ToStore(watcher, s),
                    TRUE, size[s], n \o InOrder(Lines(0, size[s])))
        BY <3>1, <3>2, WarmedTallies DEF SessionTallies
      <4>3. (s \in warm') = TRUE
        BY <2>3
      <4> QED BY <1>1, <2>5, <2>6, <3>2, <4>1, <4>2, <4>3 DEF SessionTallies
    <3>3. CASE x # s /\ x \notin victims
      <4>1. Untouched(x)
        BY <1>1, <2>3, <2>5, <2>6, <3>1, <3>3 DEF Untouched
      <4> QED BY <1>1, <3>1, <4>1, UntouchedTallies
    <3>4. CASE x # s /\ x \in victims
      <4>1. Tallies(size[x], offsets[x], emitted[x], ToPush(watcher, x), ToStore(watcher, x),
                    FALSE, warmed[x], <<>>)
        BY <3>1, ClearedTallies DEF SessionTallies
      <4>2. (x \in warm') = FALSE
        BY <2>3, <3>4
      <4>3. messages'[x] = <<>> /\ warmed'[x] = warmed[x]
        BY <2>5, <2>6, <3>1, <3>4
      <4> QED BY <1>1, <4>1, <4>2, <4>3 DEF SessionTallies
    <3> QED BY <3>2, <3>3, <3>4
  <2> QED BY <1>1, <1>2, <2>5, <2>6, <2>7 DEF ArriveInv
<1> QED BY <1>3, <1>4

LEMMA ArriveStep ==
    ASSUME Writes = {2}
    PROVE  ArriveInv /\ [Next]_vars => ArriveInv'
<1> SUFFICES ASSUME ArriveInv, [Next]_vars PROVE ArriveInv'
  OBVIOUS
<1>1. ASSUME NEW s \in Sessions, Write(s) \/ LoseEvent(s) \/ Notice(s) \/ GetMessages(s)
      PROVE  ArriveInv'
  BY <1>1, WriteStep, LoseStep, NoticeStep, RequestStep
<1>2. CASE WatcherStep
  BY <1>2, ReadOffsetStep, ParseStep, StoreStep, PublishStep DEF WatcherStep
<1>3. CASE Scan \/ (\E entry \in found : Look(entry)) \/ Adopt
  BY <1>3, RescanStep
<1>4. CASE UNCHANGED vars
  BY <1>4 DEF vars, fileVars, indexVars, cacheVars, ArriveInv, InStep, SessionTallies, WillBeRead
<1> QED BY <1>1, <1>2, <1>3, <1>4 DEF Next

(* If the agents write whole lines, every line written since startup is    *)
(* pushed once and in order and is in the cache, once the watcher has      *)
(* caught up, whatever the rescan, requests, evictions and lost events do. *)
THEOREM LinesGetThrough ==
    ASSUME Writes = {2}
    PROVE  Spec => []LinesArrive
<1>1. Init => ArriveInv
  BY ArriveInitially
<1>2. ArriveInv /\ [Next]_vars => ArriveInv'
  BY ArriveStep
<1>3. ArriveInv => LinesArrive
  BY ArriveMeans
<1> QED BY <1>1, <1>2, <1>3, PTL DEF Spec
=============================================================================
