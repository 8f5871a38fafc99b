-------------------------- MODULE NntpClient_proofs --------------------------
(***************************************************************************)
(* Proofs about NntpClient, for any number of calls, of a client used by   *)
(* NntpPool or shared.                                                     *)
(***************************************************************************)
EXTENDS NntpClient, SequenceTheorems, WellFoundedInduction, TLAPS

Asked   == {"none", "plain", "secured"} \cup Kinds
Calling == {"queued", "username", "password", "user", "pass", "status", "block"}
Early   == {"new", "opening", "starttls", "upgrading"}
Waiting == OnLine \cup {"block"}
Lines   == [call : Everyone, what : {"ok", "more", "no", "text", "end"}]

ClientTypeOK ==
  /\ pooled \in BOOLEAN
  /\ kind \in [Everyone -> Asked]
  /\ stage \in [Everyone -> Calling \cup Early \cup {"greeting"} \cup Settled]
  /\ order \in Seq(Calls)
  /\ socket \in {"none", "open", "gone"}
  /\ failure \in BOOLEAN
  /\ waiter \in Waits \cup {Nobody}
  /\ wire \in Seq(Lines)
  /\ buffer \in Seq(Lines)
  /\ heard \in [Everyone -> SUBSET Everyone]

-----------------------------------------------------------------------------
(* The lock: the chain holds the calls that are under way, each once, and   *)
(* all but the first have not begun.                                        *)

NobodyCalled == \A c \in Calls : stage[c] = "new"

LockHolds ==
  /\ \A c \in Calls : stage[c] \in {"new"} \cup Calling \cup Settled
  /\ stage[Connect] \in Early \cup {"greeting"} \cup Settled
  /\ \A c \in Calls : stage[c] \in Calling <=> \E i \in DOMAIN order : order[i] = c
  /\ \A i, j \in DOMAIN order : order[i] = order[j] => i = j
  /\ \A i \in DOMAIN order : i > 1 => stage[order[i]] = "queued"
  /\ stage[Connect] \in Early => NobodyCalled
  /\ stage[Connect] = "greeting" /\ kind[Connect] # "plain" => NobodyCalled

(* #waiter is set exactly while one command awaits a reply, and wants what *)
(* that command awaits.                                                    *)
OneWaits ==
  /\ waiter # Nobody =>
       /\ stage[waiter.call] \in Waiting
       /\ waiter.want = "block" <=> stage[waiter.call] = "block"
  /\ \A c \in Everyone : stage[c] \in Waiting => waiter # Nobody /\ waiter.call = c

-----------------------------------------------------------------------------
(* What is under way to a client of the pool is all that its one command    *)
(* still has to read.                                                       *)

StillToCome(c) ==
  CASE stage[c] = "block" ->
         {<<[call |-> c, what |-> "text"], [call |-> c, what |-> "end"]>>}
    [] stage[c] = "status" /\ kind[c] = "block" -> Reply(c, {"no"}) \cup {Block(c)}
    [] OTHER -> Reply(c, {"ok", "more", "no"})

SomeFailed == \E c \in Everyone : stage[c] = "failed"

OwnReply ==
  IF waiter = Nobody THEN buffer = <<>> /\ wire = <<>>
  ELSE buffer \o wire \in StillToCome(waiter.call)

PooledUse ==
  pooled =>
    /\ \A c \in Everyone : kind[c] # "quit" /\ heard[c] \subseteq {c}
    /\ Len(order) <= 1
    /\ stage[Connect] # "done" => NobodyCalled
    /\ SomeFailed => waiter = Nobody /\ order = <<>>
    /\ ~SomeFailed => OwnReply


-----------------------------------------------------------------------------
(* Facts about lines on their way. *)

LEMMA Numbering ==
  /\ Connect \in Everyone /\ Connect \notin Calls /\ Calls \subseteq Everyone
  /\ \A c \in Everyone : c = Connect \/ c \in Calls
  /\ N \in Nat
BY CallsAssumption DEF Connect, Everyone, Calls

LEMMA FirstLine ==
  ASSUME NEW s \in Seq(Lines), NEW t \in Seq(Lines), s # <<>>
  PROVE  /\ Head(s) = (s \o t)[1] /\ Head(s) \in Lines
         /\ Tail(s) \in Seq(Lines) /\ Tail(s) \o t = Tail(s \o t)
         /\ s \o t \in Seq(Lines) /\ s \o t # <<>>
<1>1. /\ s \o t \in Seq(Lines) /\ Len(s \o t) = Len(s) + Len(t)
      /\ \A i \in 1 .. Len(s) + Len(t) :
           (s \o t)[i] = IF i <= Len(s) THEN s[i] ELSE t[i - Len(s)]
      /\ Len(s) \in Nat \ {0} /\ Len(t) \in Nat
  BY ConcatProperties, EmptySeq, LenProperties
<1>2. /\ Head(s) = s[1] /\ Head(s) \in Lines
      /\ Tail(s) \in Seq(Lines) /\ Len(Tail(s)) = Len(s) - 1
      /\ \A i \in 1 .. Len(Tail(s)) : Tail(s)[i] = s[i + 1]
  BY <1>1, HeadTailProperties
<1>3. s \o t # <<>>
  BY <1>1, EmptySeq
<1>4. /\ Tail(s \o t) \in Seq(Lines) /\ Len(Tail(s \o t)) = Len(s) + Len(t) - 1
      /\ \A i \in 1 .. Len(Tail(s \o t)) : Tail(s \o t)[i] = (s \o t)[i + 1]
  BY <1>1, <1>3, HeadTailProperties
<1>5. /\ Tail(s) \o t \in Seq(Lines) /\ Len(Tail(s) \o t) = Len(s) - 1 + Len(t)
      /\ \A i \in 1 .. Len(s) - 1 + Len(t) :
           (Tail(s) \o t)[i] = IF i <= Len(s) - 1 THEN Tail(s)[i] ELSE t[i - (Len(s) - 1)]
  BY <1>1, <1>2, ConcatProperties
<1>6. \A i \in 1 .. Len(s) - 1 + Len(t) : (Tail(s) \o t)[i] = Tail(s \o t)[i]
  BY <1>1, <1>2, <1>4, <1>5
<1>7. Tail(s) \o t = Tail(s \o t)
  BY <1>1, <1>4, <1>5, <1>6, SeqEqual
<1> QED BY <1>1, <1>2, <1>3, <1>7

(* A line that arrives moves from one end of the wire to the buffer. *)
LEMMA Arrival ==
  ASSUME NEW s \in Seq(Lines), NEW t \in Seq(Lines), t # <<>>
  PROVE  /\ Append(s, Head(t)) \in Seq(Lines) /\ Tail(t) \in Seq(Lines)
         /\ Append(s, Head(t)) \o Tail(t) = s \o t
<1>1. /\ Head(t) \in Lines /\ Tail(t) \in Seq(Lines) /\ Len(Tail(t)) = Len(t) - 1
      /\ Head(t) = t[1]
      /\ \A i \in 1 .. Len(Tail(t)) : Tail(t)[i] = t[i + 1]
  BY HeadTailProperties
<1>2. Len(s) \in Nat /\ Len(t) \in Nat \ {0}
  BY EmptySeq, LenProperties
<1>3. /\ Append(s, Head(t)) \in Seq(Lines) /\ Len(Append(s, Head(t))) = Len(s) + 1
      /\ \A i \in 1 .. Len(s) : Append(s, Head(t))[i] = s[i]
      /\ Append(s, Head(t))[Len(s) + 1] = Head(t)
  BY <1>1, AppendProperties
<1> DEFINE a == Append(s, Head(t))
           b == Tail(t)
<1> HIDE DEF a, b
<1>4. /\ a \o b \in Seq(Lines) /\ Len(a \o b) = Len(s) + Len(t)
      /\ \A i \in 1 .. Len(s) + Len(t) :
           (a \o b)[i] = IF i <= Len(s) + 1 THEN a[i] ELSE b[i - (Len(s) + 1)]
  BY <1>1, <1>2, <1>3, ConcatProperties DEF a, b
<1>5. /\ s \o t \in Seq(Lines) /\ Len(s \o t) = Len(s) + Len(t)
      /\ \A i \in 1 .. Len(s) + Len(t) :
           (s \o t)[i] = IF i <= Len(s) THEN s[i] ELSE t[i - Len(s)]
  BY ConcatProperties
<1>6. \A i \in 1 .. Len(s) + Len(t) : (a \o b)[i] = (s \o t)[i]
  <2> SUFFICES ASSUME NEW i \in 1 .. Len(s) + Len(t) PROVE (a \o b)[i] = (s \o t)[i]
    OBVIOUS
  <2>1. CASE i <= Len(s)
    BY <1>2, <1>3, <1>4, <1>5, <2>1 DEF a
  <2>2. CASE i = Len(s) + 1
    BY <1>1, <1>2, <1>3, <1>4, <1>5, <2>2 DEF a
  <2>3. CASE i > Len(s) + 1
    BY <1>1, <1>2, <1>4, <1>5, <2>3 DEF b
  <2>4. i <= Len(s) \/ i = Len(s) + 1 \/ i > Len(s) + 1
    BY <1>2
  <2> QED BY <2>1, <2>2, <2>3, <2>4
<1>7. a \o b = s \o t
  BY <1>4, <1>5, <1>6, SeqEqual
<1> QED BY <1>1, <1>3, <1>7 DEF a, b

(* The replies are lines, and there are none but these. *)
LEMMA RepliesAreLines ==
  ASSUME NEW c \in Everyone
  PROVE  /\ \A codes \in SUBSET {"ok", "more", "no"} : Reply(c, codes) \subseteq Seq(Lines)
         /\ Block(c) \in Seq(Lines)
<1>1. \A code \in {"ok", "more", "no", "text", "end"} : [call |-> c, what |-> code] \in Lines
  BY DEF Lines
<1>2. \A l \in Lines : <<l>> \in Seq(Lines)
  OBVIOUS
<1>3. Block(c) \in Seq(Lines)
  BY <1>1 DEF Block
<1> QED BY <1>1, <1>2, <1>3 DEF Reply

-----------------------------------------------------------------------------
(* How the steps move the lock. *)

LEMMA RunningIsFirst ==
  ASSUME ClientTypeOK, LockHolds, NEW c \in Calls, stage[c] \in Calling \ {"queued"}
  PROVE  order # <<>> /\ c = Head(order)
<1>1. PICK i \in DOMAIN order : order[i] = c
  BY DEF LockHolds
<1>2. DOMAIN order = 1 .. Len(order) /\ Len(order) \in Nat /\ i \in 1 .. Len(order)
  BY <1>1, LenProperties DEF ClientTypeOK
<1>3. ~(i > 1)
  BY <1>1 DEF LockHolds
<1>4. i = 1
  BY <1>2, <1>3
<1>5. order # <<>>
  BY <1>2, EmptySeq
<1> QED BY <1>1, <1>4, <1>5

(* The call at the head of the chain is under way, and the chain after it. *)
LEMMA FirstOfChain ==
  ASSUME ClientTypeOK, LockHolds, order # <<>>
  PROVE  /\ Head(order) \in Calls /\ stage[Head(order)] \in Calling
         /\ Tail(order) \in Seq(Calls) /\ Len(Tail(order)) = Len(order) - 1
         /\ Len(order) \in Nat \ {0}
         /\ DOMAIN Tail(order) = 1 .. Len(order) - 1 /\ DOMAIN order = 1 .. Len(order)
         /\ \A i \in 1 .. Len(order) - 1 : Tail(order)[i] = order[i + 1]
         /\ Head(order) = order[1]
<1>1. order \in Seq(Calls)
  BY DEF ClientTypeOK
<1>2. /\ Head(order) \in Calls /\ Tail(order) \in Seq(Calls) /\ Len(Tail(order)) = Len(order) - 1
      /\ \A i \in 1 .. Len(order) - 1 : Tail(order)[i] = order[i + 1]
  BY <1>1, HeadTailProperties
<1>3. Len(order) \in Nat \ {0} /\ DOMAIN order = 1 .. Len(order)
  BY <1>1, EmptySeq, LenProperties
<1>4. DOMAIN Tail(order) = 1 .. Len(order) - 1
  BY <1>2, LenProperties
<1>5. Head(order) = order[1] /\ 1 \in DOMAIN order
  BY <1>3
<1>6. stage[Head(order)] \in Calling
  BY <1>2, <1>5 DEF LockHolds
<1> QED BY <1>2, <1>3, <1>4, <1>5, <1>6

(* A call settles and the next may start. *)
Released(c, s) ==
  /\ stage' = [stage EXCEPT ![c] = s]
  /\ order' = IF c = Connect THEN order ELSE Tail(order)
  /\ waiter' = IF waiter # Nobody /\ waiter.call = c THEN Nobody ELSE waiter

(* A call that is not waiting, or no longer, goes on. *)
GoesOn(c, s) ==
  /\ stage' = [stage EXCEPT ![c] = s]
  /\ order' = order
  /\ IF s \in Waiting
       THEN /\ waiter = Nobody \/ waiter.call = c
            /\ waiter' = [call |-> c, want |-> IF s = "block" THEN "block" ELSE "line"]
       ELSE waiter' = IF waiter # Nobody /\ waiter.call = c THEN Nobody ELSE waiter

LockTypeOK ==
  /\ stage \in [Everyone -> Calling \cup Early \cup {"greeting"} \cup Settled]
  /\ order \in Seq(Calls)
  /\ waiter \in Waits \cup {Nobody}

LEMMA ReleasedKeeps ==
  ASSUME ClientTypeOK, LockHolds, OneWaits, NEW c \in Everyone, NEW s \in Settled,
         Released(c, s), kind' = kind, c \in Calls => order # <<>> /\ c = Head(order)
  PROVE  LockTypeOK' /\ LockHolds' /\ OneWaits'
<1>1. /\ stage'[c] = s /\ \A d \in Everyone : d # c => stage'[d] = stage[d]
      /\ stage' \in [Everyone -> Calling \cup Early \cup {"greeting"} \cup Settled]
  BY DEF Released, ClientTypeOK
<1>2. s \notin Calling /\ s \notin Waiting /\ s \notin Early /\ s # "greeting"
  BY DEF Settled, Calling, Waiting, Early, OnLine
<1>3. OneWaits' /\ waiter' \in Waits \cup {Nobody}
  BY <1>1, <1>2 DEF OneWaits, Released, ClientTypeOK, Waits
<1>4. CASE c = Connect
  <2>1. order' = order /\ \A d \in Calls : stage'[d] = stage[d]
    BY <1>1, <1>4, Numbering DEF Released
  <2>2. \A i \in DOMAIN order : order[i] \in Calls
    BY LenProperties, ElementOfSeq DEF ClientTypeOK
  <2>3. LockHolds'
    BY <1>1, <1>2, <1>4, <2>1, <2>2 DEF LockHolds
  <2> QED BY <1>1, <1>3, <2>1, <2>3 DEF LockTypeOK, ClientTypeOK
<1>5. CASE c \in Calls
  <2> DEFINE n == Len(order)
  <2>1. /\ order' = Tail(order) /\ Tail(order) \in Seq(Calls)
        /\ DOMAIN order' = 1 .. n - 1 /\ DOMAIN order = 1 .. n /\ n \in Nat \ {0}
        /\ \A i \in 1 .. n - 1 : order'[i] = order[i + 1]
        /\ c = order[1] /\ stage[c] \in Calling
    BY <1>5, FirstOfChain, Numbering DEF Released
  <2> HIDE DEF n
  <2>2. \A i \in 1 .. n : order[i] \in Calls
    BY <2>1, ElementOfSeq DEF ClientTypeOK, n
  <2>3. \A i \in 1 .. n - 1 : i + 1 \in 1 .. n /\ order[i + 1] # c /\ stage[order[i + 1]] = "queued"
    <3> SUFFICES ASSUME NEW i \in 1 .. n - 1
                 PROVE  i + 1 \in 1 .. n /\ order[i + 1] # c /\ stage[order[i + 1]] = "queued"
      OBVIOUS
    <3>1. i + 1 \in 1 .. n /\ i + 1 > 1 /\ 1 \in 1 .. n /\ i + 1 # 1
      BY <2>1
    <3> QED BY <2>1, <3>1 DEF LockHolds
  <2>4. \A d \in Calls : stage'[d] \in Calling <=> \E i \in 1 .. n - 1 : order'[i] = d
    <3> SUFFICES ASSUME NEW d \in Calls
                 PROVE  stage'[d] \in Calling <=> \E i \in 1 .. n - 1 : order'[i] = d
      OBVIOUS
    <3>1. CASE d = c
      BY <1>1, <1>2, <2>1, <2>3, <3>1
    <3>2. CASE d # c
      <4>1. stage'[d] = stage[d]
        BY <1>1, <3>2, Numbering
      <4>2. ASSUME stage[d] \in Calling PROVE \E i \in 1 .. n - 1 : order'[i] = d
        <5>1. PICK i \in 1 .. n : order[i] = d
          BY <2>1, <4>2 DEF LockHolds
        <5>2. i # 1
          BY <2>1, <3>2, <5>1
        <5>3. i - 1 \in 1 .. n - 1 /\ (i - 1) + 1 = i
          BY <2>1, <5>1, <5>2
        <5>4. order'[i - 1] = order[(i - 1) + 1]
          BY <2>1, <5>3
        <5> QED BY <5>1, <5>3, <5>4
      <4>3. ASSUME NEW i \in 1 .. n - 1, order'[i] = d PROVE stage[d] \in Calling
        BY <2>1, <2>3, <4>3 DEF LockHolds
      <4> QED BY <4>1, <4>2, <4>3
    <3> QED BY <3>1, <3>2
  <2>5. \A i, j \in 1 .. n - 1 : order'[i] = order'[j] => i = j
    <3> SUFFICES ASSUME NEW i \in 1 .. n - 1, NEW j \in 1 .. n - 1, order'[i] = order'[j]
                 PROVE  i = j
      OBVIOUS
    <3>1. order[i + 1] = order[j + 1] /\ i + 1 \in 1 .. n /\ j + 1 \in 1 .. n
      BY <2>1, <2>3
    <3>2. i + 1 = j + 1
      BY <2>1, <3>1 DEF LockHolds
    <3> QED BY <2>1, <3>2
  <2>6. \A i \in 1 .. n - 1 : stage'[order'[i]] = "queued"
    BY <1>1, <2>1, <2>2, <2>3, Numbering
  <2>7. stage'[Connect] = stage[Connect] /\ stage'[Connect] \in Early \cup {"greeting"} \cup Settled
    BY <1>1, <1>5, Numbering DEF LockHolds
  <2>8. ~NobodyCalled
    BY <1>5, <2>1 DEF NobodyCalled, Calling
  <2>9. \A d \in Calls : stage'[d] \in {"new"} \cup Calling \cup Settled
    BY <1>1, Numbering DEF LockHolds
  <2>10. LockHolds'
    BY <2>1, <2>4, <2>5, <2>6, <2>7, <2>8, <2>9, ZenonT(30) DEF LockHolds
  <2> QED BY <1>1, <1>3, <2>1, <2>10 DEF LockTypeOK
<1> QED BY <1>4, <1>5, Numbering

LEMMA GoesOnKeeps ==
  ASSUME ClientTypeOK, LockHolds, OneWaits, NEW c \in Everyone, NEW s, GoesOn(c, s),
         \/ /\ c \in Calls /\ order # <<>> /\ c = Head(order)
            /\ s \in Calling \ {"queued"} /\ kind'[Connect] = kind[Connect]
         \/ /\ c = Connect /\ NobodyCalled
            /\ s \in (Early \ {"new"}) \cup {"greeting"}
  PROVE  LockTypeOK' /\ LockHolds' /\ OneWaits'
<1>1. /\ stage'[c] = s /\ \A d \in Everyone : d # c => stage'[d] = stage[d]
      /\ stage' \in [Everyone -> Calling \cup Early \cup {"greeting"} \cup Settled]
      /\ order' = order
  BY DEF GoesOn, ClientTypeOK
<1>2. waiter' \in Waits \cup {Nobody}
  BY DEF GoesOn, ClientTypeOK, Waits
<1>3. OneWaits'
  <2>1. CASE s \in Waiting
    <3>1. waiter' # Nobody /\ waiter'.call = c /\ (waiter'.want = "block" <=> s = "block")
      <4>1. waiter' = [call |-> c, want |-> IF s = "block" THEN "block" ELSE "line"]
        BY <2>1 DEF GoesOn
      <4>2. waiter' \in Waits
        BY <4>1 DEF Waits
      <4> QED BY <4>1, <4>2, NobodyAssumption
    <3>2. \A d \in Everyone : d # c => stage'[d] \notin Waiting
      BY <1>1, <2>1 DEF GoesOn, OneWaits
    <3>3. stage'[waiter'.call] \in Waiting /\ (waiter'.want = "block" <=> stage'[waiter'.call] = "block")
      BY <1>1, <2>1, <3>1
    <3>4. \A d \in Everyone : stage'[d] \in Waiting => waiter' # Nobody /\ waiter'.call = d
      BY <3>1, <3>2
    <3> QED BY <3>3, <3>4 DEF OneWaits
  <2>2. CASE s \notin Waiting
    <3>1. waiter' = IF waiter # Nobody /\ waiter.call = c THEN Nobody ELSE waiter
      BY <2>2 DEF GoesOn
    <3> QED BY <1>1, <2>2, <3>1 DEF OneWaits, ClientTypeOK, Waits
  <2> QED BY <2>1, <2>2
<1>4. CASE c \in Calls
  <2>1. /\ c # Connect /\ order # <<>> /\ c = Head(order)
        /\ s \in Calling \ {"queued"} /\ kind'[Connect] = kind[Connect]
    BY <1>4, Numbering
  <2>2. stage[c] \in Calling /\ c = order[1] /\ DOMAIN order = 1 .. Len(order) /\ Len(order) \in Nat
    BY <2>1, FirstOfChain
  <2>3. \A i \in DOMAIN order : order[i] \in Calls /\ (i > 1 => order[i] # c)
    <3>1. 1 \in DOMAIN order
      BY <2>1, <2>2, FirstOfChain
    <3>2. \A i \in DOMAIN order : order[i] \in Calls
      BY <2>2, ElementOfSeq DEF ClientTypeOK
    <3>3. \A i \in DOMAIN order : i > 1 => order[i] # order[1]
      BY <2>2, <3>1 DEF LockHolds
    <3> QED BY <2>2, <3>2, <3>3
  <2>4. \A i \in DOMAIN order' : i > 1 => stage'[order'[i]] = "queued"
    BY <1>1, <2>3, Numbering DEF LockHolds
  <2>5. stage'[Connect] = stage[Connect] /\ ~NobodyCalled
    BY <1>1, <1>4, <2>1, <2>2, Numbering DEF NobodyCalled, Calling
  <2>6. \A d \in Calls :
          /\ stage'[d] \in {"new"} \cup Calling \cup Settled
          /\ stage'[d] \in Calling <=> \E i \in DOMAIN order' : order'[i] = d
    <3> SUFFICES ASSUME NEW d \in Calls
                 PROVE  /\ stage'[d] \in {"new"} \cup Calling \cup Settled
                        /\ stage'[d] \in Calling <=> \E i \in DOMAIN order : order[i] = d
      BY <1>1
    <3>1. d = c => stage'[d] \in Calling /\ stage[d] \in Calling
      BY <1>1, <2>1, <2>2
    <3>2. d # c => stage'[d] = stage[d]
      BY <1>1, Numbering
    <3> QED BY <3>1, <3>2 DEF LockHolds
  <2>7. LockHolds'
    BY <1>1, <2>1, <2>4, <2>5, <2>6 DEF LockHolds
  <2> QED BY <1>1, <1>2, <1>3, <2>7 DEF LockTypeOK, ClientTypeOK
<1>5. CASE c = Connect
  <2>1. s \in (Early \ {"new"}) \cup {"greeting"} /\ \A d \in Calls : stage'[d] = stage[d]
    BY <1>1, <1>5, Numbering
  <2>2. NobodyCalled /\ NobodyCalled'
    BY <1>5, <2>1, Numbering DEF NobodyCalled
  <2>3. \A i \in DOMAIN order : order[i] \in Calls
    BY LenProperties, ElementOfSeq DEF ClientTypeOK
  <2>4. LockHolds'
    BY <1>1, <1>5, <2>1, <2>2, <2>3 DEF LockHolds
  <2> QED BY <1>1, <1>2, <1>3, <2>4 DEF LockTypeOK, ClientTypeOK
<1> QED BY <1>4, <1>5, Numbering

LEMMA SettleReleases ==
  ASSUME ClientTypeOK, NEW c \in Everyone, NEW s, Settle(c, s)
  PROVE  /\ Released(c, s)
         /\ socket' \in {"none", "open", "gone"} /\ wire' \in Seq(Lines)
         /\ kind[c] # "quit" => wire' = wire
BY EmptySeq DEF Settle, Released, ClientTypeOK

(* A command at the head of the chain is sent, or fails at once. *)
LEMMA SendCases ==
  ASSUME ClientTypeOK, LockHolds, OneWaits, NEW c \in Calls, order # <<>>, c = Head(order),
         stage[c] \notin Waiting, NEW s \in {"user", "pass", "status"},
         NEW replies \in SUBSET Seq(Lines), Send(c, s, replies)
  PROVE  /\ \/ Released(c, "failed") /\ (waiter = Nobody => kind[c] = "quit" \/ wire' = wire)
            \/ /\ GoesOn(c, s) /\ waiter = Nobody
               /\ \E r \in replies : wire' = wire \o r
         /\ socket' \in {"none", "open", "gone"} /\ wire' \in Seq(Lines)
<1>1. CASE Settle(c, "failed")
  BY <1>1, SettleReleases, Numbering
<1>2. ASSUME waiter = Nobody, Await(c, s, "line"), NEW r \in replies, wire' = wire \o r
      PROVE  /\ GoesOn(c, s)
             /\ socket' \in {"none", "open", "gone"} /\ wire' \in Seq(Lines)
  <2>1. wire' \in Seq(Lines)
    BY <1>2, ConcatProperties DEF ClientTypeOK
  <2>2. GoesOn(c, s)
    BY <1>2 DEF Await, GoesOn, Waiting, OnLine
  <2> QED BY <1>2, <2>1, <2>2 DEF Await, ClientTypeOK
<1>3. ASSUME waiter # Nobody, stage' = [stage EXCEPT ![c] = "failed"], order' = Tail(order),
             UNCHANGED <<socket, waiter>>, NEW r \in replies, wire' = wire \o r
      PROVE  /\ Released(c, "failed")
             /\ socket' \in {"none", "open", "gone"} /\ wire' \in Seq(Lines)
  <2>1. wire' \in Seq(Lines)
    BY <1>3, ConcatProperties DEF ClientTypeOK
  <2>2. waiter.call # c /\ c # Connect
    BY <1>3, Numbering DEF OneWaits
  <2> QED BY <1>3, <2>1, <2>2 DEF Released, ClientTypeOK
<1> QED BY <1>1, <1>2, <1>3 DEF Send

-----------------------------------------------------------------------------
(* Every step keeps the lock and the one waiter. *)

Core == ClientTypeOK /\ LockHolds /\ OneWaits

LEMMA NobodyWaitsYet ==
  ASSUME Core, NobodyCalled, stage[Connect] \notin Waiting
  PROVE  waiter = Nobody
<1>1. \A c \in Everyone : stage[c] \notin Waiting
  BY Numbering DEF NobodyCalled, Waiting, OnLine
<1>2. waiter # Nobody => waiter.call \in Everyone
  BY DEF Core, ClientTypeOK, Waits
<1> QED BY <1>1, <1>2 DEF Core, OneWaits

LEMMA WaiterIsFirst ==
  ASSUME Core, NEW c \in Everyone, waiter # Nobody, waiter.call = c
  PROVE  stage[c] \in Waiting /\ (c \in Calls => order # <<>> /\ c = Head(order))
<1>1. stage[c] \in Waiting
  BY DEF Core, OneWaits
<1>2. c \in Calls => stage[c] \in Calling \ {"queued"}
  BY <1>1 DEF Waiting, OnLine, Calling, Core, LockHolds, Settled
<1> QED BY <1>1, <1>2, RunningIsFirst DEF Core

(* What a lemma on the lock leaves to show of a step. *)
LEMMA CoreFrom ==
  ASSUME Core, LockTypeOK', LockHolds', OneWaits', pooled' = pooled,
         kind' \in [Everyone -> Asked], socket' \in {"none", "open", "gone"},
         failure' \in BOOLEAN, wire' \in Seq(Lines), buffer' \in Seq(Lines),
         heard' \in [Everyone -> SUBSET Everyone]
  PROVE  Core'
BY DEF Core, ClientTypeOK, LockTypeOK

LEMMA ReleaseCore ==
  ASSUME Core, NEW c \in Everyone, NEW s \in Settled, Released(c, s),
         c \in Calls => order # <<>> /\ c = Head(order),
         UNCHANGED <<pooled, kind>>, socket' \in {"none", "open", "gone"}, failure' \in BOOLEAN,
         wire' \in Seq(Lines), buffer' \in Seq(Lines), heard' \in [Everyone -> SUBSET Everyone]
  PROVE  Core'
<1>1. LockTypeOK' /\ LockHolds' /\ OneWaits'
  BY ReleasedKeeps DEF Core
<1> QED BY <1>1, CoreFrom DEF Core, ClientTypeOK

LEMMA ConnectingKeepsCore ==
  ASSUME Core, StartConnect \/ SocketOpens \/ Upgraded \/ SocketFails
  PROVE  Core'
<1> USE DEF Core
<1>1. CASE StartConnect
  <2>1. stage[Connect] = "new" /\ NobodyCalled
    BY <1>1 DEF StartConnect, LockHolds, Early
  <2>2. waiter = Nobody
    BY <2>1, NobodyWaitsYet DEF Waiting, OnLine
  <2>3. GoesOn(Connect, "opening")
    BY <1>1, <2>2 DEF StartConnect, GoesOn, Waiting, OnLine
  <2>4. LockTypeOK' /\ LockHolds' /\ OneWaits'
    BY <2>1, <2>3, GoesOnKeeps, Numbering DEF Early
  <2>5. kind' \in [Everyone -> Asked]
    BY <1>1 DEF StartConnect, ClientTypeOK, Asked
  <2> QED BY <1>1, <2>4, <2>5, CoreFrom DEF StartConnect, ClientTypeOK
<1>2. CASE SocketOpens
  <2>1. stage[Connect] = "opening" /\ NobodyCalled
    BY <1>2 DEF SocketOpens, LockHolds, Early
  <2>2. waiter = Nobody
    BY <2>1, NobodyWaitsYet DEF Waiting, OnLine
  <2>3. GoesOn(Connect, "greeting")
    BY <1>2, <2>2 DEF SocketOpens, GoesOn, Waiting, OnLine
  <2>4. LockTypeOK' /\ LockHolds' /\ OneWaits'
    BY <2>1, <2>3, GoesOnKeeps, Numbering
  <2>5. wire' \in Seq(Lines)
    BY <1>2, RepliesAreLines, Numbering DEF SocketOpens
  <2> QED BY <1>2, <2>4, <2>5, CoreFrom DEF SocketOpens, ClientTypeOK
<1>3. CASE Upgraded
  BY <1>3, SettleReleases, ReleaseCore, Numbering DEF Upgraded, ClientTypeOK, Settled
<1>4. CASE SocketFails
  BY <1>4, SettleReleases, ReleaseCore, Numbering DEF SocketFails, ClientTypeOK, Settled
<1> QED BY <1>1, <1>2, <1>3, <1>4

LEMMA CallKeepsCore ==
  ASSUME Core, NEW c \in Calls, NEW k \in Kinds, Call(c, k)
  PROVE  Core'
<1> USE DEF Core
<1>1. /\ stage[c] = "new" /\ kind' = [kind EXCEPT ![c] = k]
      /\ UNCHANGED <<pooled, socket, failure, waiter, wire, buffer, heard>>
      /\ \/ stage' = [stage EXCEPT ![c] = "done"] /\ order' = order
         \/ stage' = [stage EXCEPT ![c] = "queued"] /\ order' = Append(order, c)
      /\ MayCall(k)
  BY DEF Call
<1>2. /\ kind' \in [Everyone -> Asked] /\ kind'[Connect] = kind[Connect]
      /\ stage' \in [Everyone -> Calling \cup Early \cup {"greeting"} \cup Settled]
      /\ stage'[c] \in {"done", "queued"}
      /\ \A d \in Everyone : d # c => stage'[d] = stage[d]
      /\ stage'[Connect] = stage[Connect]
  BY <1>1, Numbering DEF ClientTypeOK, Asked, Settled, Calling
<1>3. stage[Connect] = "done" \/ (stage[Connect] = "greeting" /\ kind[Connect] = "plain")
  BY <1>1 DEF MayCall
<1>4. /\ order \in Seq(Calls) /\ DOMAIN order = 1 .. Len(order) /\ Len(order) \in Nat
      /\ \A i \in DOMAIN order : order[i] \in Calls /\ order[i] # c
  <2>1. order \in Seq(Calls) /\ DOMAIN order = 1 .. Len(order) /\ Len(order) \in Nat
    BY LenProperties DEF ClientTypeOK
  <2>2. \A i \in DOMAIN order : order[i] \in Calls
    BY <2>1, ElementOfSeq
  <2>3. stage[c] \notin Calling
    BY <1>1 DEF Calling
  <2> QED BY <2>1, <2>2, <2>3 DEF LockHolds
<1>5. OneWaits'
  BY <1>1, <1>2 DEF OneWaits, Waiting, OnLine, ClientTypeOK, Waits
<1>6. CASE stage' = [stage EXCEPT ![c] = "done"] /\ order' = order
  <2>1. stage'[c] = "done"
    BY <1>6, Numbering DEF ClientTypeOK
  <2>2. \A d \in Calls :
          /\ stage'[d] \in {"new"} \cup Calling \cup Settled
          /\ stage'[d] \in Calling <=> stage[d] \in Calling
    BY <1>1, <1>2, <2>1, Numbering DEF LockHolds, Calling, Settled
  <2>3. \A i \in DOMAIN order : i > 1 => stage'[order[i]] = "queued"
    BY <1>2, <1>4, Numbering DEF LockHolds
  <2>4. LockHolds'
    BY <1>2, <1>3, <1>6, <2>2, <2>3 DEF LockHolds, Early
  <2> QED BY <1>1, <1>2, <1>4, <1>5, <1>6, <2>4, CoreFrom DEF LockTypeOK, ClientTypeOK
<1>7. CASE stage' = [stage EXCEPT ![c] = "queued"] /\ order' = Append(order, c)
  <2> DEFINE n == Len(order)
  <2>1. /\ order' \in Seq(Calls) /\ DOMAIN order' = 1 .. n + 1 /\ n \in Nat
        /\ \A i \in 1 .. n : order'[i] = order[i]
        /\ order'[n + 1] = c
    BY <1>4, <1>7, AppendProperties, LenProperties
  <2>2. stage'[c] = "queued" /\ DOMAIN order = 1 .. n
    BY <1>4, <1>7, Numbering DEF ClientTypeOK
  <2> HIDE DEF n
  <2>3. \A i \in 1 .. n + 1 : i \in 1 .. n \/ i = n + 1
    BY <2>1
  <2>4. \A d \in Calls :
          /\ stage'[d] \in {"new"} \cup Calling \cup Settled
          /\ stage'[d] \in Calling <=> \E i \in DOMAIN order' : order'[i] = d
    <3> SUFFICES ASSUME NEW d \in Calls
                 PROVE  /\ stage'[d] \in {"new"} \cup Calling \cup Settled
                        /\ stage'[d] \in Calling <=> \E i \in 1 .. n + 1 : order'[i] = d
      BY <2>1
    <3>1. CASE d = c
      <4>1. n + 1 \in 1 .. n + 1
        BY <2>1
      <4> QED BY <2>1, <2>2, <3>1, <4>1 DEF Calling
    <3>2. CASE d # c
      <4>1. stage'[d] = stage[d]
        BY <1>2, <3>2, Numbering
      <4>2. (\E i \in 1 .. n + 1 : order'[i] = d) <=> \E i \in 1 .. n : order[i] = d
        BY <2>1, <2>3, <3>2
      <4> QED BY <2>2, <4>1, <4>2 DEF LockHolds
    <3> QED BY <3>1, <3>2
  <2>5. \A i, j \in 1 .. n + 1 : order'[i] = order'[j] => i = j
    <3> SUFFICES ASSUME NEW i \in 1 .. n + 1, NEW j \in 1 .. n + 1, order'[i] = order'[j]
                 PROVE  i = j
      OBVIOUS
    <3>1. CASE i \in 1 .. n /\ j \in 1 .. n
      BY <2>1, <2>2, <3>1 DEF LockHolds
    <3>2. CASE i = n + 1 \/ j = n + 1
      BY <1>4, <2>1, <2>2, <2>3, <3>2
    <3> QED BY <2>3, <3>1, <3>2
  <2>6. \A i \in 1 .. n + 1 : i > 1 => stage'[order'[i]] = "queued"
    <3> SUFFICES ASSUME NEW i \in 1 .. n + 1, i > 1 PROVE stage'[order'[i]] = "queued"
      OBVIOUS
    <3>1. CASE i \in 1 .. n
      <4>1. stage[order[i]] = "queued"
        BY <2>2, <3>1 DEF LockHolds
      <4> QED BY <1>2, <1>4, <2>1, <2>2, <3>1, <4>1, Numbering
    <3>2. CASE i = n + 1
      BY <2>1, <2>2, <3>2
    <3> QED BY <2>3, <3>1, <3>2
  <2>7. LockHolds'
    BY <1>2, <1>3, <2>1, <2>4, <2>5, <2>6 DEF LockHolds, Early
  <2> QED BY <1>1, <1>2, <1>5, <2>1, <2>7, CoreFrom DEF LockTypeOK, ClientTypeOK
<1> QED BY <1>1, <1>6, <1>7

-----------------------------------------------------------------------------
(* In the pool's hands only one call at a time has anything to do. *)

Active(c) ==
  \/ c = Connect /\ stage[c] \notin Settled
  \/ c \in Calls /\ order # <<>> /\ c = Head(order)

LEMMA PooledAlone ==
  ASSUME Core, PooledUse, pooled, NEW c \in Everyone, Active(c)
  PROVE  /\ waiter # Nobody => waiter.call = c
         /\ (IF c = Connect THEN order ELSE Tail(order)) = <<>>
         /\ c \in Calls => stage[Connect] = "done"
         /\ c = Connect => NobodyCalled
         /\ ~SomeFailed /\ OwnReply
<1> USE DEF Core
<1>1. order # <<>> => ~NobodyCalled
  BY FirstOfChain DEF NobodyCalled, Calling
<1>2. waiter # Nobody => waiter.call \in Everyone /\ stage[waiter.call] \in Waiting
  BY DEF OneWaits, ClientTypeOK, Waits
<1>3. CASE c = Connect
  <2>1. stage[Connect] \notin Settled /\ NobodyCalled
    BY <1>3, Numbering DEF Active, PooledUse, Settled
  <2>2. ~SomeFailed
    BY <2>1, Numbering DEF SomeFailed, NobodyCalled, Settled
  <2>3. waiter # Nobody => waiter.call = c
    BY <1>2, <1>3, <2>1, Numbering DEF NobodyCalled, Waiting, OnLine
  <2> QED BY <1>1, <1>3, <2>1, <2>2, <2>3, Numbering DEF PooledUse
<1>4. CASE c \in Calls
  <2>1. order # <<>> /\ c = Head(order) /\ c # Connect
    BY <1>4, Numbering DEF Active
  <2>2. ~SomeFailed /\ stage[Connect] = "done"
    BY <1>1, <2>1 DEF PooledUse
  <2>3. waiter # Nobody => waiter.call = c
    <3>1. ASSUME waiter # Nobody PROVE waiter.call # Connect
      BY <1>2, <2>2, <3>1 DEF Waiting, OnLine
    <3> QED BY <1>2, <2>1, <3>1, Numbering, WaiterIsFirst
  <2>4. Tail(order) = <<>>
    <3>1. Len(order) = 1 /\ Tail(order) \in Seq(Calls) /\ Len(Tail(order)) = 0
      BY <2>1, FirstOfChain DEF PooledUse
    <3> QED BY <3>1, EmptySeq
  <2> QED BY <2>1, <2>2, <2>3, <2>4 DEF PooledUse
<1> QED BY <1>3, <1>4, Numbering

LEMMA ReleaseKeepsPooled ==
  ASSUME Core, PooledUse, NEW c \in Everyone, NEW s \in Settled, Released(c, s), Active(c),
         UNCHANGED <<pooled, kind>>,
         pooled => \A d \in Everyone : heard'[d] \subseteq {d},
         pooled /\ s = "done" => buffer' = <<>> /\ wire' = <<>>
  PROVE  PooledUse'
<1> SUFFICES ASSUME pooled PROVE PooledUse'
  BY DEF PooledUse
<1>1. /\ waiter # Nobody => waiter.call = c
      /\ (IF c = Connect THEN order ELSE Tail(order)) = <<>>
      /\ c \in Calls => stage[Connect] = "done"
      /\ c = Connect => NobodyCalled
  BY PooledAlone
<1>2. waiter' = Nobody /\ order' = <<>>
  BY <1>1 DEF Released
<1>3. stage'[c] = s /\ \A d \in Everyone : d # c => stage'[d] = stage[d]
  BY DEF Released, Core, ClientTypeOK
<1>4. stage'[Connect] # "done" => NobodyCalled'
  BY <1>1, <1>3, Numbering DEF NobodyCalled
<1>5. ~SomeFailed' => buffer' = <<>> /\ wire' = <<>>
  BY <1>3 DEF SomeFailed, Settled
<1>6. \A d \in Everyone : kind'[d] # "quit" /\ heard'[d] \subseteq {d}
  BY DEF PooledUse
<1>7. Len(order') <= 1
  BY <1>2, EmptySeq
<1> QED BY <1>2, <1>4, <1>5, <1>6, <1>7 DEF PooledUse, OwnReply

LEMMA GoingOnKeepsPooled ==
  ASSUME Core, PooledUse, NEW c \in Everyone, Active(c), NEW s, s \notin Settled, GoesOn(c, s),
         pooled' = pooled, \A d \in Everyone : kind'[d] # "quit" \/ kind'[d] = kind[d],
         pooled => (\A d \in Everyone : heard'[d] \subseteq {d}) /\ OwnReply'
  PROVE  PooledUse'
<1> SUFFICES ASSUME pooled PROVE PooledUse'
  BY DEF PooledUse
<1>1. /\ c \in Calls => stage[Connect] = "done"
      /\ c = Connect => NobodyCalled
      /\ ~SomeFailed
  BY PooledAlone
<1>2. stage'[c] = s /\ (\A d \in Everyone : d # c => stage'[d] = stage[d]) /\ order' = order
  BY DEF GoesOn, Core, ClientTypeOK
<1>3. stage'[Connect] # "done" => NobodyCalled'
  BY <1>1, <1>2, Numbering DEF NobodyCalled
<1>4. ~SomeFailed'
  BY <1>1, <1>2 DEF SomeFailed, Settled
<1>5. \A d \in Everyone : kind'[d] # "quit" /\ heard'[d] \subseteq {d}
  BY DEF PooledUse
<1> QED BY <1>2, <1>3, <1>4, <1>5 DEF PooledUse

LEMMA ConnectingKeepsPooled ==
  ASSUME Core, PooledUse, StartConnect \/ SocketOpens \/ Upgraded \/ SocketFails
  PROVE  PooledUse'
<1>1. Active(Connect) /\ Connect \in Everyone
  BY Numbering DEF Active, StartConnect, SocketOpens, Upgraded, SocketFails, Settled
<1>2. pooled => /\ NobodyCalled /\ OwnReply
                /\ \A d \in Everyone : kind[d] # "quit" /\ heard[d] \subseteq {d}
  BY <1>1, PooledAlone DEF PooledUse
<1>3. stage[Connect] \notin Waiting /\ NobodyCalled
  BY DEF StartConnect, SocketOpens, Upgraded, SocketFails, Waiting, OnLine, Core, LockHolds, Early
<1>4. waiter = Nobody
  BY <1>3, NobodyWaitsYet
<1>5. pooled => buffer = <<>> /\ wire = <<>>
  BY <1>2, <1>4 DEF OwnReply
<1>6. CASE StartConnect
  <2>1. GoesOn(Connect, "opening")
    BY <1>4, <1>6 DEF StartConnect, GoesOn, Waiting, OnLine
  <2>2. pooled => OwnReply'
    BY <1>4, <1>5, <1>6 DEF OwnReply, StartConnect
  <2>3. \A d \in Everyone : kind'[d] # "quit" \/ kind'[d] = kind[d]
    BY <1>6 DEF StartConnect, Core, ClientTypeOK
  <2>4. heard' = heard /\ pooled' = pooled /\ "opening" \notin Settled
    BY <1>6 DEF StartConnect, Settled
  <2> QED BY <1>1, <1>2, <2>1, <2>2, <2>3, <2>4, GoingOnKeepsPooled
<1>7. CASE SocketOpens
  <2>1. GoesOn(Connect, "greeting")
    BY <1>4, <1>7 DEF SocketOpens, GoesOn, Waiting, OnLine
  <2>2. wire' \in Reply(Connect, {"ok", "no"}) /\ wire' \in Seq(Lines) /\ buffer' = buffer
        /\ waiter' = [call |-> Connect, want |-> "line"] /\ stage'[Connect] = "greeting"
    BY <1>1, <1>7, RepliesAreLines DEF SocketOpens, Core, ClientTypeOK
  <2>3. waiter' \in Waits /\ waiter' # Nobody /\ waiter'.call = Connect
    BY <1>1, <2>2, NobodyAssumption DEF Waits
  <2>4. StillToCome(Connect)' = Reply(Connect, {"ok", "more", "no"})
    BY <2>2 DEF StillToCome, Reply
  <2>5. pooled => buffer' \o wire' = wire'
    BY <1>5, <2>2, ConcatEmptySeq
  <2>6. pooled => OwnReply'
    BY <2>2, <2>3, <2>4, <2>5 DEF OwnReply, Reply
  <2>7. heard' = heard /\ pooled' = pooled /\ kind' = kind /\ "greeting" \notin Settled
    BY <1>7 DEF SocketOpens, Settled
  <2> QED BY <1>1, <1>2, <2>1, <2>6, <2>7, GoingOnKeepsPooled
<1>8. CASE Upgraded
  <2>1. Settle(Connect, "done") /\ UNCHANGED <<pooled, kind, buffer, heard>> /\ "done" \in Settled
    BY <1>8 DEF Upgraded, Settled
  <2>2. Released(Connect, "done") /\ (kind[Connect] # "quit" => wire' = wire)
    BY <1>1, <2>1, SettleReleases DEF Core
  <2> QED BY <1>1, <1>2, <1>5, <2>1, <2>2, ReleaseKeepsPooled
<1>9. CASE SocketFails
  <2>1. Settle(Connect, "failed") /\ UNCHANGED <<pooled, kind, buffer, heard>> /\ "failed" \in Settled
    BY <1>9 DEF SocketFails, Settled
  <2>2. Released(Connect, "failed")
    BY <1>1, <2>1, SettleReleases DEF Core
  <2> QED BY <1>1, <1>2, <2>1, <2>2, ReleaseKeepsPooled
<1> QED BY <1>6, <1>7, <1>8, <1>9

LEMMA CallKeepsPooled ==
  ASSUME Core, PooledUse, NEW c \in Calls, NEW k \in Kinds, Call(c, k)
  PROVE  PooledUse'
<1> SUFFICES ASSUME pooled PROVE PooledUse'
  BY DEF PooledUse, Call
<1>1. /\ order = <<>> /\ (\A q \in Everyone : stage[q] # "failed") /\ k # "quit"
      /\ stage[Connect] = "done"
      /\ kind' = [kind EXCEPT ![c] = k]
      /\ stage' = [stage EXCEPT ![c] = "queued"]
      /\ order' = Append(order, c)
      /\ UNCHANGED <<pooled, waiter, wire, buffer, heard>>
  BY DEF Call, PoolMayCall, MayCall
<1>2. /\ stage'[c] = "queued" /\ \A d \in Everyone : d # c => stage'[d] = stage[d]
      /\ kind'[c] = k /\ \A d \in Everyone : d # c => kind'[d] = kind[d]
      /\ stage'[Connect] = "done"
  BY <1>1, Numbering DEF Core, ClientTypeOK
<1>3. waiter = Nobody
  <2>1. ASSUME waiter # Nobody PROVE FALSE
    <3>1. waiter.call \in Everyone
      BY <2>1 DEF Core, ClientTypeOK, Waits
    <3>2. stage[waiter.call] \in Waiting /\ waiter.call \notin Calls
      BY <1>1, <2>1, <3>1, WaiterIsFirst
    <3> QED BY <1>1, <3>1, <3>2, Numbering DEF Waiting, OnLine
  <2> QED BY <2>1
<1>4. Len(order') = 1
  BY <1>1, AppendProperties, EmptySeq
<1>5. ~SomeFailed /\ ~SomeFailed'
  BY <1>1, <1>2 DEF SomeFailed
<1>6. OwnReply'
  BY <1>1, <1>3, <1>5 DEF OwnReply, PooledUse
<1>7. \A d \in Everyone : kind'[d] # "quit" /\ heard'[d] \subseteq {d}
  BY <1>1, <1>2 DEF PooledUse
<1> QED BY <1>1, <1>2, <1>4, <1>5, <1>6, <1>7 DEF PooledUse

-----------------------------------------------------------------------------
(* Sending, reading, and being cut off. *)

LEMMA SendKeeps ==
  ASSUME Core, PooledUse, NEW c \in Calls, order # <<>>, c = Head(order),
         stage[c] \notin Waiting, NEW s \in {"user", "pass", "status"},
         NEW replies \in SUBSET Seq(Lines), Send(c, s, replies),
         UNCHANGED <<pooled, kind, failure, buffer, heard>>,
         replies \subseteq IF s = "status" /\ kind[c] = "block"
                             THEN Reply(c, {"no"}) \cup {Block(c)}
                             ELSE Reply(c, {"ok", "more", "no"})
  PROVE  Core' /\ PooledUse'
<1>1. Active(c) /\ c \in Everyone /\ "failed" \in Settled /\ s \notin Settled
      /\ s \in Calling \ {"queued"} /\ s \in Waiting /\ s # "block"
  BY Numbering DEF Active, Settled, Calling, Waiting, OnLine
<1>2. /\ failure' \in BOOLEAN /\ buffer' \in Seq(Lines) /\ heard' \in [Everyone -> SUBSET Everyone]
      /\ kind' \in [Everyone -> Asked]
      /\ pooled => \A d \in Everyone : heard'[d] \subseteq {d}
  BY DEF Core, ClientTypeOK, PooledUse
<1>3. /\ \/ Released(c, "failed")
         \/ /\ GoesOn(c, s) /\ waiter = Nobody
            /\ \E r \in replies : wire' = wire \o r
      /\ socket' \in {"none", "open", "gone"} /\ wire' \in Seq(Lines)
  BY SendCases DEF Core
<1>4. CASE Released(c, "failed")
  <2>1. Core'
    BY <1>1, <1>2, <1>3, <1>4, ReleaseCore
  <2>2. PooledUse'
    BY <1>1, <1>2, <1>4, ReleaseKeepsPooled
  <2> QED BY <2>1, <2>2
<1>5. ASSUME GoesOn(c, s), waiter = Nobody, NEW r \in replies, wire' = wire \o r
      PROVE  Core' /\ PooledUse'
  <2>1. LockTypeOK' /\ LockHolds' /\ OneWaits'
    BY <1>1, <1>5, GoesOnKeeps DEF Core
  <2>2. Core'
    BY <1>2, <1>3, <2>1, CoreFrom
  <2>3. stage'[c] = s /\ waiter' = [call |-> c, want |-> "line"]
    BY <1>1, <1>5 DEF GoesOn, Core, ClientTypeOK
  <2>4. waiter' # Nobody /\ waiter'.call = c
    BY <1>1, <2>3, NobodyAssumption DEF Waits
  <2>5. r \in StillToCome(c)'
    BY <2>3 DEF StillToCome, Reply, Block
  <2>6. ASSUME pooled PROVE OwnReply'
    <3>1. buffer = <<>> /\ wire = <<>>
      BY <1>1, <1>5, <2>6, PooledAlone DEF OwnReply
    <3>2. buffer' \o wire' = r
      <4>1. r \in Seq(Lines)
        OBVIOUS
      <4>2. wire' = r
        BY <1>5, <3>1, <4>1, ConcatEmptySeq
      <4> QED BY <3>1, <4>1, <4>2, ConcatEmptySeq
    <3> QED BY <2>4, <2>5, <3>2 DEF OwnReply
  <2>7. PooledUse'
    BY <1>1, <1>2, <1>5, <2>6, GoingOnKeepsPooled
  <2> QED BY <2>2, <2>7
<1> QED BY <1>3, <1>4, <1>5

LEMMA StartKeeps ==
  ASSUME Core, PooledUse, NEW c \in Calls, Start(c)
  PROVE  Core' /\ PooledUse'
<1>1. /\ order # <<>> /\ c = Head(order) /\ stage[c] = "queued"
      /\ UNCHANGED <<pooled, kind, failure, buffer, heard>>
  BY DEF Start, StartDue
<1>2. Active(c) /\ c \in Everyone /\ stage[c] \notin Waiting
  BY <1>1, Numbering DEF Active, Waiting, OnLine
<1>3. ASSUME stage' = [stage EXCEPT ![c] = "username"], UNCHANGED <<order, socket, waiter, wire>>
      PROVE  Core' /\ PooledUse'
  <2>1. waiter # Nobody => waiter.call # c
    BY <1>2 DEF Core, OneWaits
  <2>2. GoesOn(c, "username") /\ "username" \in Calling \ {"queued"} /\ "username" \notin Settled
    BY <1>3, <2>1 DEF GoesOn, Waiting, OnLine, Calling, Settled
  <2>3. LockTypeOK' /\ LockHolds' /\ OneWaits'
    BY <1>1, <1>2, <2>2, GoesOnKeeps DEF Core
  <2>4. Core'
    BY <1>1, <1>3, <2>3, CoreFrom DEF Core, ClientTypeOK
  <2>5. ASSUME pooled PROVE (\A d \in Everyone : heard'[d] \subseteq {d}) /\ OwnReply'
    <3>1. waiter = Nobody /\ OwnReply
      BY <1>2, <2>1, <2>5, PooledAlone
    <3> QED BY <1>1, <1>3, <2>5, <3>1 DEF OwnReply, PooledUse
  <2>6. PooledUse'
    BY <1>1, <1>2, <2>2, <2>5, GoingOnKeepsPooled
  <2> QED BY <2>4, <2>6
<1>4. CASE kind[c] = "block" /\ Send(c, "status", Reply(c, {"no"}) \cup {Block(c)})
  <2>1. Reply(c, {"no"}) \cup {Block(c)} \in SUBSET Seq(Lines)
    BY <1>2, RepliesAreLines
  <2> QED BY <1>1, <1>2, <1>4, <2>1, SendKeeps
<1>5. CASE kind[c] \in {"line", "quit"} /\ Send(c, "status", Reply(c, {"ok", "no"}))
  <2>1. Reply(c, {"ok", "no"}) \in SUBSET Seq(Lines)
    BY <1>2, RepliesAreLines
  <2>2. Reply(c, {"ok", "no"}) \subseteq Reply(c, {"ok", "more", "no"}) /\ kind[c] # "block"
    BY <1>5 DEF Reply
  <2> QED BY <1>1, <1>2, <1>5, <2>1, <2>2, SendKeeps
<1> QED BY <1>3, <1>4, <1>5 DEF Start

LEMMA ResolvingKeeps ==
  ASSUME Core, PooledUse, NEW c \in Calls, CredentialResolves(c)
  PROVE  Core' /\ PooledUse'
<1>1. /\ stage[c] \in {"username", "password"}
      /\ UNCHANGED <<pooled, kind, failure, buffer, heard>>
  BY DEF CredentialResolves
<1>2. order # <<>> /\ c = Head(order)
  BY <1>1, RunningIsFirst DEF Core, Calling
<1>3. Active(c) /\ c \in Everyone /\ stage[c] \notin Waiting
  BY <1>1, <1>2, Numbering DEF Active, Waiting, OnLine
<1>4. ASSUME NEW s \in {"user", "pass"}, NEW codes \in SUBSET {"ok", "more", "no"},
             Send(c, s, Reply(c, codes))
      PROVE  Core' /\ PooledUse'
  <2>1. Reply(c, codes) \in SUBSET Seq(Lines)
    BY <1>3, RepliesAreLines
  <2>2. Reply(c, codes) \subseteq Reply(c, {"ok", "more", "no"})
    BY DEF Reply
  <2> QED BY <1>1, <1>2, <1>3, <1>4, <2>1, <2>2, SendKeeps
<1>5. CASE Settle(c, "failed")
  <2>1. /\ Released(c, "failed") /\ "failed" \in Settled
        /\ socket' \in {"none", "open", "gone"} /\ wire' \in Seq(Lines)
    BY <1>3, <1>5, SettleReleases DEF Core, Settled
  <2>2. Core'
    BY <1>1, <1>2, <1>3, <2>1, ReleaseCore DEF Core, ClientTypeOK
  <2>3. PooledUse'
    BY <1>1, <1>3, <2>1, ReleaseKeepsPooled DEF PooledUse
  <2> QED BY <2>2, <2>3
<1> QED BY <1>4, <1>5 DEF CredentialResolves

(* To a client of the pool the next line is its own, and the last but for a *)
(* block's status line.                                                     *)
LEMMA OwnLine ==
  ASSUME Core, PooledUse, pooled, NEW c \in Everyone,
         waiter # Nobody, waiter = [call |-> c, want |-> "line"], buffer # <<>>
  PROVE  /\ Active(c) /\ Head(buffer).call = c
         /\ IF stage[c] = "status" /\ kind[c] = "block" /\ Head(buffer).what = "ok"
              THEN Tail(buffer) \o wire =
                     <<[call |-> c, what |-> "text"], [call |-> c, what |-> "end"]>>
              ELSE Tail(buffer) = <<>> /\ wire = <<>>
<1> DEFINE all == buffer \o wire
<1>1. waiter.call = c /\ waiter.want = "line"
  OBVIOUS
<1>2. /\ stage[c] \in Waiting /\ stage[c] # "block"
      /\ c \in Calls => order # <<>> /\ c = Head(order)
  BY <1>1, WaiterIsFirst DEF Core, OneWaits
<1>3. Active(c)
  BY <1>2, Numbering DEF Active, Waiting, OnLine, Settled
<1>4. all \in StillToCome(c)
  BY <1>1, <1>3, PooledAlone DEF OwnReply
<1>5. /\ Head(buffer) = all[1] /\ Tail(buffer) \in Seq(Lines)
      /\ Tail(buffer) \o wire = Tail(all) /\ wire \in Seq(Lines)
  BY FirstLine DEF Core, ClientTypeOK
<1> HIDE DEF all
<1>6. ASSUME NEW l \in Lines, all = <<l>>
      PROVE  all[1] = l /\ Tail(buffer) = <<>> /\ wire = <<>>
  <2>1. Tail(all) = <<>> /\ all[1] = l
    BY <1>6
  <2>2. Tail(buffer) \o wire = <<>>
    BY <1>5, <2>1
  <2>3. Tail(buffer) = <<>> /\ wire = <<>>
    BY <1>5, <2>2, ConcatEqualIffEmpty
  <2> QED BY <2>1, <2>3
<1>7. CASE stage[c] = "status" /\ kind[c] = "block"
  <2>1. all \in Reply(c, {"no"}) \cup {Block(c)}
    BY <1>4, <1>7 DEF StillToCome
  <2>2. CASE all = Block(c)
    <3>1. all[1] = [call |-> c, what |-> "ok"]
          /\ Tail(all) = <<[call |-> c, what |-> "text"], [call |-> c, what |-> "end"]>>
      BY <2>2 DEF Block
    <3>2. Head(buffer).call = c /\ Head(buffer).what = "ok"
      BY <1>5, <3>1
    <3>3. Tail(buffer) \o wire = <<[call |-> c, what |-> "text"], [call |-> c, what |-> "end"]>>
      BY <1>5, <3>1
    <3> QED BY <1>3, <1>7, <3>2, <3>3
  <2>3. CASE all = <<[call |-> c, what |-> "no"]>>
    <3>1. [call |-> c, what |-> "no"] \in Lines
      BY DEF Lines
    <3>2. all[1] = [call |-> c, what |-> "no"] /\ Tail(buffer) = <<>> /\ wire = <<>>
      BY <1>6, <2>3, <3>1
    <3> QED BY <1>3, <1>5, <3>2
  <2> QED BY <2>1, <2>2, <2>3 DEF Reply
<1>8. CASE ~(stage[c] = "status" /\ kind[c] = "block")
  <2>1. PICK code \in {"ok", "more", "no"} : all = <<[call |-> c, what |-> code]>>
    BY <1>2, <1>4, <1>8 DEF StillToCome, Reply
  <2>2. [call |-> c, what |-> code] \in Lines
    BY DEF Lines
  <2>3. all[1] = [call |-> c, what |-> code] /\ Tail(buffer) = <<>> /\ wire = <<>>
    BY <1>6, <2>1, <2>2
  <2> QED BY <1>3, <1>5, <1>8, <2>3
<1> QED BY <1>7, <1>8

LEMMA LineRead ==
  ASSUME Core, NEW c \in Everyone, TakeLine(c)
  PROVE  /\ waiter # Nobody /\ waiter = [call |-> c, want |-> "line"] /\ waiter.call = c
         /\ buffer # <<>> /\ buffer' = Tail(buffer) /\ buffer' \in Seq(Lines)
         /\ heard' = [heard EXCEPT ![c] = @ \cup {Head(buffer).call}]
         /\ heard' \in [Everyone -> SUBSET Everyone]
         /\ UNCHANGED <<pooled, kind, failure>> /\ failure' \in BOOLEAN
         /\ Active(c) /\ (c \in Calls => order # <<>> /\ c = Head(order))
<1>1. /\ waiter # Nobody /\ waiter = [call |-> c, want |-> "line"] /\ buffer # <<>>
      /\ buffer' = Tail(buffer) /\ heard' = [heard EXCEPT ![c] = @ \cup {Head(buffer).call}]
      /\ UNCHANGED <<pooled, kind, failure>>
  BY DEF TakeLine, Available
<1>2. stage[c] \in Waiting /\ (c \in Calls => order # <<>> /\ c = Head(order))
  BY <1>1, WaiterIsFirst
<1>3. Active(c)
  BY <1>2, Numbering DEF Active, Waiting, OnLine, Settled
<1>4. Head(buffer) \in Lines /\ buffer' \in Seq(Lines) /\ failure' \in BOOLEAN
  BY <1>1, FirstLine DEF Core, ClientTypeOK
<1>5. heard' \in [Everyone -> SUBSET Everyone]
  BY <1>1, <1>4 DEF Core, ClientTypeOK, Lines
<1> QED BY <1>1, <1>2, <1>3, <1>4, <1>5

LEMMA OwnLineHeard ==
  ASSUME Core, PooledUse, pooled, NEW c \in Everyone, TakeLine(c)
  PROVE  \A d \in Everyone : heard'[d] \subseteq {d}
<1>1. Head(buffer).call = c
  BY LineRead, OwnLine
<1>2. heard' = [heard EXCEPT ![c] = @ \cup {c}] /\ heard \in [Everyone -> SUBSET Everyone]
  BY <1>1, LineRead DEF Core, ClientTypeOK
<1>3. \A d \in Everyone : heard[d] \subseteq {d}
  BY DEF PooledUse
<1> QED BY <1>2, <1>3

LEMMA LineSettles ==
  ASSUME Core, PooledUse, NEW c \in Everyone, NEW s \in Settled, TakeLine(c), Settle(c, s),
         s = "done" => stage[c] # "status" \/ kind[c] # "block"
  PROVE  Core' /\ PooledUse'
<1>1. /\ Released(c, s) /\ socket' \in {"none", "open", "gone"} /\ wire' \in Seq(Lines)
      /\ kind[c] # "quit" => wire' = wire
  BY SettleReleases DEF Core
<1>2. Core'
  BY <1>1, LineRead, ReleaseCore
<1>3. ASSUME pooled PROVE s = "done" => buffer' = <<>> /\ wire' = <<>>
  <2>1. s = "done" => Tail(buffer) = <<>> /\ wire = <<>>
    BY <1>3, LineRead, OwnLine
  <2>2. kind[c] # "quit" /\ buffer' = Tail(buffer)
    BY <1>3, LineRead DEF PooledUse
  <2> QED BY <1>1, <2>1, <2>2
<1>4. PooledUse'
  BY <1>1, <1>3, LineRead, OwnLineHeard, ReleaseKeepsPooled
<1> QED BY <1>2, <1>4

(* The line is read and the call goes on: without a waiter, to the block,  *)
(* or to STARTTLS.                                                         *)
LEMMA LineGoesOn ==
  ASSUME Core, PooledUse, NEW c \in Everyone, TakeLine(c), NEW s, s \notin Settled, GoesOn(c, s),
         socket' = socket,
         \/ c \in Calls /\ s \in Calling \ {"queued"}
         \/ c = Connect /\ NobodyCalled /\ s \in (Early \ {"new"}) \cup {"greeting"},
         \/ wire' = wire /\ s \notin Waiting /\ stage[c] # "status"
         \/ /\ wire' = wire /\ s = "block" /\ stage[c] = "status" /\ kind[c] = "block"
            /\ Head(buffer).what = "ok"
         \/ /\ s = "starttls" /\ stage[c] # "status"
            /\ \E r \in Reply(c, {"ok", "no"}) : wire' = wire \o r
  PROVE  Core' /\ PooledUse'
<1>1. /\ waiter # Nobody /\ waiter = [call |-> c, want |-> "line"] /\ waiter.call = c
      /\ buffer' = Tail(buffer) /\ kind' = kind /\ pooled' = pooled /\ Active(c)
      /\ buffer # <<>>
      /\ c \in Calls => order # <<>> /\ c = Head(order)
  BY LineRead
<1>2. LockTypeOK' /\ LockHolds' /\ OneWaits'
  BY <1>1, GoesOnKeeps DEF Core
<1>3. wire' \in Seq(Lines) /\ wire \in Seq(Lines)
  <2>1. \A r \in Reply(c, {"ok", "no"}) : r \in Seq(Lines)
    BY RepliesAreLines
  <2> QED BY <2>1, ConcatProperties DEF Core, ClientTypeOK
<1>4. Core'
  <2>1. kind' \in [Everyone -> Asked] /\ socket' \in {"none", "open", "gone"}
    BY <1>1 DEF Core, ClientTypeOK
  <2> QED BY <1>1, <1>2, <1>3, <2>1, LineRead, CoreFrom
<1>5. stage'[c] = s
  BY DEF GoesOn, Core, ClientTypeOK
<1>6. ASSUME s \in Waiting
      PROVE  /\ waiter' = [call |-> c, want |-> IF s = "block" THEN "block" ELSE "line"]
             /\ waiter' # Nobody /\ waiter'.call = c
  <2>1. waiter' = [call |-> c, want |-> IF s = "block" THEN "block" ELSE "line"]
    BY <1>6 DEF GoesOn
  <2>2. waiter' \in Waits
    BY <2>1 DEF Waits
  <2> QED BY <2>1, <2>2, NobodyAssumption
<1>7. ASSUME pooled PROVE OwnReply'
  <2>1. CASE wire' = wire /\ s \notin Waiting /\ stage[c] # "status"
    <3>1. Tail(buffer) = <<>> /\ wire = <<>>
      BY <1>1, <1>7, <2>1, OwnLine
    <3>2. waiter' = Nobody
      BY <1>1, <2>1 DEF GoesOn
    <3> QED BY <1>1, <2>1, <3>1, <3>2 DEF OwnReply
  <2>2. CASE /\ wire' = wire /\ s = "block" /\ stage[c] = "status" /\ kind[c] = "block"
             /\ Head(buffer).what = "ok"
    <3>1. Tail(buffer) \o wire = <<[call |-> c, what |-> "text"], [call |-> c, what |-> "end"]>>
      BY <1>1, <1>7, <2>2, OwnLine
    <3>2. waiter' # Nobody /\ waiter'.call = c
      BY <1>6, <2>2 DEF Waiting
    <3>3. StillToCome(c)' = {<<[call |-> c, what |-> "text"], [call |-> c, what |-> "end"]>>}
      BY <1>5, <2>2 DEF StillToCome
    <3> QED BY <1>1, <2>2, <3>1, <3>2, <3>3 DEF OwnReply
  <2>3. CASE /\ s = "starttls" /\ stage[c] # "status"
             /\ \E r \in Reply(c, {"ok", "no"}) : wire' = wire \o r
    <3>1. Tail(buffer) = <<>> /\ wire = <<>>
      BY <1>1, <1>7, <2>3, OwnLine
    <3>2. PICK r \in Reply(c, {"ok", "no"}) : wire' = wire \o r
      BY <2>3
    <3>3. r \in Seq(Lines) /\ r \in Reply(c, {"ok", "more", "no"})
      BY RepliesAreLines DEF Reply
    <3>4. wire' = r
      BY <3>1, <3>2, <3>3, ConcatEmptySeq
    <3>5. buffer' \o wire' = r
      BY <1>1, <3>1, <3>3, <3>4, ConcatEmptySeq
    <3>6. waiter' # Nobody /\ waiter'.call = c
      BY <1>6, <2>3 DEF Waiting, OnLine
    <3>7. StillToCome(c)' = Reply(c, {"ok", "more", "no"})
      BY <1>5, <2>3 DEF StillToCome, Reply
    <3> QED BY <3>3, <3>5, <3>6, <3>7 DEF OwnReply
  <2> QED BY <2>1, <2>2, <2>3
<1>8. PooledUse'
  BY <1>1, <1>7, OwnLineHeard, GoingOnKeepsPooled
<1> QED BY <1>4, <1>8

LEMMA TakeLineKeeps ==
  ASSUME Core, PooledUse, NEW c \in Everyone, TakeLine(c)
  PROVE  Core' /\ PooledUse'
<1> DEFINE line == Head(buffer)
<1>1. /\ waiter # Nobody /\ waiter = [call |-> c, want |-> "line"] /\ waiter.call = c
      /\ waiter.want = "line"
  BY LineRead
<1>2. /\ "done" \in Settled /\ "failed" \in Settled
      /\ \A s \in {"block", "starttls", "upgrading", "password"} : s \notin Settled
  BY DEF Settled
<1>3. CASE Settle(c, "failed")
  BY <1>2, <1>3, LineSettles
<1>4. CASE Expected(c, line) /\ c # Connect /\ Accept(c)
  <2>1. CASE Settle(c, "done") /\ (stage[c] # "status" \/ kind[c] # "block")
    BY <1>2, <2>1, LineSettles
  <2>2. CASE stage[c] = "status" /\ kind[c] = "block" /\ Await(c, "block", "block") /\ UNCHANGED wire
    <3>1. GoesOn(c, "block") /\ socket' = socket
      BY <1>1, <2>2 DEF Await, GoesOn, Waiting
    <3>2. c \in Calls /\ "block" \in Calling \ {"queued"} /\ Head(buffer).what = "ok"
      BY <1>4, Numbering DEF Calling, Expected
    <3> QED BY <1>2, <2>2, <3>1, <3>2, LineGoesOn
  <2> QED BY <1>4, <2>1, <2>2 DEF Accept
<1>5. CASE c = Connect /\ AcceptConnecting
  <2>1. CASE Settle(Connect, "done") /\ stage[Connect] = "greeting"
    BY <1>2, <1>5, <2>1, LineSettles
  <2>2. CASE /\ stage[Connect] = "greeting" /\ kind[Connect] = "secured"
             /\ Await(Connect, "starttls", "line")
             /\ \E r \in Reply(Connect, {"ok", "no"}) : wire' = wire \o r
    <3>1. GoesOn(c, "starttls") /\ socket' = socket
      BY <1>1, <1>5, <2>2 DEF Await, GoesOn, Waiting, OnLine
    <3>2. NobodyCalled /\ "starttls" \in (Early \ {"new"}) \cup {"greeting"}
      BY <2>2 DEF Core, LockHolds, Early
    <3> QED BY <1>2, <1>5, <2>2, <3>1, <3>2, LineGoesOn
  <2>3. CASE /\ stage[Connect] = "starttls"
             /\ stage' = [stage EXCEPT ![Connect] = "upgrading"]
             /\ waiter' = Nobody
             /\ UNCHANGED <<order, socket, wire>>
    <3>1. GoesOn(c, "upgrading") /\ "upgrading" \notin Waiting
      BY <1>1, <1>5, <2>3 DEF GoesOn, Waiting, OnLine
    <3>2. NobodyCalled /\ "upgrading" \in (Early \ {"new"}) \cup {"greeting"}
      BY <2>3 DEF Core, LockHolds, Early
    <3> QED BY <1>2, <1>5, <2>3, <3>1, <3>2, LineGoesOn
  <2> QED BY <1>5, <2>1, <2>2, <2>3 DEF AcceptConnecting
<1>6. CASE stage[c] = "user" /\ AskPassword(c)
  <2>1. GoesOn(c, "password") /\ "password" \notin Waiting /\ socket' = socket /\ wire' = wire
    BY <1>1, <1>6 DEF AskPassword, GoesOn, Waiting, OnLine
  <2>2. c \in Calls /\ "password" \in Calling \ {"queued"}
    BY <1>6, Numbering DEF Calling, Core, LockHolds, Early, Settled
  <2> QED BY <1>2, <1>6, <2>1, <2>2, LineGoesOn
<1> QED BY <1>3, <1>4, <1>5, <1>6 DEF TakeLine

(* The first terminator in the buffer. *)
LEMMA FirstEnd ==
  ASSUME Core, Ends # {}
  PROVE  LET n == CHOOSE i \in Ends : \A j \in Ends : i <= j IN
           n \in Ends /\ \A j \in Ends : n <= j
<1>1. Ends \subseteq Nat
  BY LenProperties DEF Ends, Core, ClientTypeOK
<1>2. PICK m \in Ends : \A t \in Ends : ~(<<t, m>> \in OpToRel(<, Nat))
  BY <1>1, NatLessThanWellFounded, WFMin
<1>3. ASSUME NEW t \in Ends PROVE m <= t
  <2>1. ~(t < m)
    BY <1>1, <1>2 DEF OpToRel
  <2> QED BY <1>1, <2>1
<1> QED BY <1>3

LEMMA TakeBlockKeeps ==
  ASSUME Core, PooledUse, NEW c \in Calls, TakeBlock(c)
  PROVE  Core' /\ PooledUse'
<1> DEFINE n == CHOOSE i \in Ends : \A j \in Ends : i <= j
<1>1. /\ waiter # Nobody /\ waiter = [call |-> c, want |-> "block"]
      /\ waiter.call = c /\ waiter.want = "block" /\ Ends # {}
      /\ heard' = [heard EXCEPT ![c] = @ \cup {buffer[i].call : i \in 1 .. n}]
      /\ buffer' = SubSeq(buffer, n + 1, Len(buffer))
      /\ Settle(c, "done") /\ UNCHANGED <<pooled, kind, failure>>
      /\ c \in Everyone /\ "done" \in Settled
  BY Numbering DEF TakeBlock, Available, Settled
<1>2. n \in Ends
  BY <1>1, FirstEnd
<1> HIDE DEF n
<1>3. /\ order # <<>> /\ c = Head(order) /\ Active(c) /\ stage[c] = "block"
  BY <1>1, WaiterIsFirst DEF Active, Core, OneWaits
<1>4. /\ Released(c, "done") /\ socket' \in {"none", "open", "gone"} /\ wire' \in Seq(Lines)
      /\ kind[c] # "quit" => wire' = wire
  BY <1>1, SettleReleases DEF Core
<1>5. /\ n \in 1 .. Len(buffer) /\ Len(buffer) \in Nat /\ buffer \in Seq(Lines)
      /\ \A i \in 1 .. Len(buffer) : buffer[i] \in Lines
  BY <1>2, LenProperties, ElementOfSeq DEF Ends, Core, ClientTypeOK
<1>6. buffer' \in Seq(Lines)
  BY <1>1, <1>5, SubSeqProperties
<1>7. heard' \in [Everyone -> SUBSET Everyone]
  <2>1. {buffer[i].call : i \in 1 .. n} \subseteq Everyone
    BY <1>5 DEF Lines
  <2> QED BY <1>1, <2>1 DEF Core, ClientTypeOK
<1>8. Core'
  BY <1>1, <1>3, <1>4, <1>6, <1>7, ReleaseCore DEF Core, ClientTypeOK
<1>9. ASSUME pooled
      PROVE  (\A d \in Everyone : heard'[d] \subseteq {d}) /\ buffer' = <<>> /\ wire' = <<>>
  <2> DEFINE text == [call |-> c, what |-> "text"]
             end == [call |-> c, what |-> "end"]
  <2>1. buffer \o wire = <<text, end>>
    BY <1>1, <1>3, <1>9, PooledAlone DEF OwnReply, StillToCome
  <2>2. /\ Len(buffer) + Len(wire) = 2 /\ Len(wire) \in Nat /\ wire \in Seq(Lines)
        /\ \A i \in 1 .. Len(buffer) : buffer[i] = (buffer \o wire)[i]
    <3>1. /\ wire \in Seq(Lines) /\ Len(buffer \o wire) = Len(buffer) + Len(wire)
          /\ \A i \in 1 .. Len(buffer) + Len(wire) :
               (buffer \o wire)[i] = IF i <= Len(buffer) THEN buffer[i] ELSE wire[i - Len(buffer)]
      BY <1>5, ConcatProperties DEF Core, ClientTypeOK
    <3>2. Len(wire) \in Nat
      BY <3>1, LenProperties
    <3>3. Len(buffer \o wire) = 2
      BY <2>1
    <3> QED BY <1>5, <3>1, <3>2, <3>3
  <2>3. (buffer \o wire)[1] = text /\ (buffer \o wire)[2] = end
    BY <2>1
  <2>4. buffer[n].what = "end"
    BY <1>2 DEF Ends
  <2>5. n # 1
    BY <1>5, <2>2, <2>3, <2>4
  <2>6. n = 2 /\ Len(buffer) = 2 /\ Len(wire) = 0
    <3>1. ASSUME NEW a \in Nat, NEW b \in Nat, NEW k \in 1 .. a, k # 1, a + b = 2
          PROVE  k = 2 /\ a = 2 /\ b = 0
      BY <3>1
    <3>2. n \in 1 .. Len(buffer) /\ Len(buffer) \in Nat /\ Len(wire) \in Nat
          /\ Len(buffer) + Len(wire) = 2
      BY <1>5, <2>2
    <3> HIDE DEF text, end
    <3> QED BY <2>5, <3>1, <3>2
  <2>7. wire = <<>> /\ buffer' = <<>>
    <3>1. wire = <<>>
      BY <2>2, <2>6, EmptySeq
    <3>2. buffer' = SubSeq(buffer, 3, 2)
      BY <1>1, <2>6
    <3> QED BY <3>1, <3>2, SubSeqEmpty
  <2>8. \A i \in 1 .. n : buffer[i].call = c
    <3>1. buffer[1] = text /\ buffer[2] = end
      <4>1. 1 \in 1 .. Len(buffer) /\ 2 \in 1 .. Len(buffer)
        BY <2>6
      <4> HIDE DEF text, end
      <4> QED BY <2>2, <2>3, <4>1
    <3> QED BY <2>6, <3>1
  <2>9. heard' = [heard EXCEPT ![c] = @ \cup {buffer[i].call : i \in 1 .. n}]
        /\ {buffer[i].call : i \in 1 .. n} \subseteq {c}
    BY <1>1, <2>8
  <2>10. \A d \in Everyone : heard[d] \subseteq {d} /\ kind[d] # "quit"
    BY <1>9 DEF PooledUse
  <2>11. \A d \in Everyone : heard'[d] \subseteq {d}
    <3> HIDE DEF text, end
    <3> DEFINE new == {buffer[i].call : i \in 1 .. n}
    <3>1. new \subseteq {c} /\ heard' = [heard EXCEPT ![c] = @ \cup new]
      BY <2>9
    <3> HIDE DEF new
    <3> QED BY <2>10, <3>1 DEF Core, ClientTypeOK
  <2> QED BY <1>1, <1>4, <2>7, <2>10, <2>11
<1>10. PooledUse'
  BY <1>1, <1>3, <1>4, <1>9, ReleaseKeepsPooled
<1> QED BY <1>8, <1>10

(* Steps after which the same calls are where they were. *)
LEMMA SameCallsCore ==
  ASSUME Core, UNCHANGED <<pooled, kind, stage, order, waiter, heard>>,
         socket' \in {"none", "open", "gone"}, failure' \in BOOLEAN,
         wire' \in Seq(Lines), buffer' \in Seq(Lines)
  PROVE  Core'
BY DEF Core, ClientTypeOK, LockHolds, NobodyCalled, OneWaits

LEMMA SameCallsPooled ==
  ASSUME PooledUse, UNCHANGED <<pooled, kind, stage, order, waiter, heard>>,
         pooled /\ OwnReply => OwnReply'
  PROVE  PooledUse'
BY DEF PooledUse, NobodyCalled, SomeFailed

LEMMA DeliverKeeps ==
  ASSUME Core, PooledUse, Deliver
  PROVE  Core' /\ PooledUse'
<1>1. /\ wire # <<>> /\ buffer' = Append(buffer, Head(wire)) /\ wire' = Tail(wire)
      /\ UNCHANGED <<pooled, kind, stage, order, socket, failure, waiter, heard>>
  BY DEF Deliver
<1>2. /\ buffer' \in Seq(Lines) /\ wire' \in Seq(Lines)
      /\ buffer' \o wire' = buffer \o wire
  BY <1>1, Arrival DEF Core, ClientTypeOK
<1>3. Core'
  BY <1>1, <1>2, SameCallsCore DEF Core, ClientTypeOK
<1>4. OwnReply => OwnReply'
  BY <1>1, <1>2 DEF OwnReply, StillToCome
<1> QED BY <1>1, <1>3, <1>4, SameCallsPooled

(* A call that awaits is cut short: by the timer, the peer or the owner. *)
LEMMA CutOffKeeps ==
  ASSUME Core, PooledUse, waiter # Nobody, Released(waiter.call, "failed"),
         UNCHANGED <<pooled, kind, buffer, heard>>,
         socket' \in {"none", "open", "gone"}, failure' \in BOOLEAN, wire' \in Seq(Lines)
  PROVE  Core' /\ PooledUse'
<1> DEFINE c == waiter.call
<1>1. c \in Everyone
  BY DEF Core, ClientTypeOK, Waits
<1>2. stage[c] \in Waiting /\ (c \in Calls => order # <<>> /\ c = Head(order))
  BY <1>1, WaiterIsFirst
<1>3. Active(c) /\ "failed" \in Settled
  BY <1>1, <1>2, Numbering DEF Active, Waiting, OnLine, Settled
<1> HIDE DEF c
<1>4. Core'
  BY <1>1, <1>2, <1>3, ReleaseCore DEF Core, ClientTypeOK, c
<1>5. PooledUse'
  BY <1>1, <1>3, ReleaseKeepsPooled DEF PooledUse, c
<1> QED BY <1>4, <1>5

LEMMA TimeoutKeeps ==
  ASSUME Core, PooledUse, Timeout
  PROVE  Core' /\ PooledUse'
<1>1. /\ waiter # Nobody /\ Settle(waiter.call, "failed")
      /\ UNCHANGED <<pooled, kind, failure, buffer, heard>>
  BY DEF Timeout
<1>2. waiter.call \in Everyone /\ failure' \in BOOLEAN
  BY <1>1 DEF Core, ClientTypeOK, Waits
<1>3. /\ Released(waiter.call, "failed")
      /\ socket' \in {"none", "open", "gone"} /\ wire' \in Seq(Lines)
  BY <1>1, <1>2, SettleReleases DEF Core
<1> QED BY <1>1, <1>2, <1>3, CutOffKeeps

LEMMA HangupKeeps ==
  ASSUME Core, PooledUse, NEW sock \in {"open", "gone"}, Hangup(sock),
         UNCHANGED <<pooled, kind, buffer, heard>>, failure' \in BOOLEAN
  PROVE  Core' /\ PooledUse'
<1>1. wire' = <<>> /\ wire' \in Seq(Lines)
  BY EmptySeq DEF Hangup
<1>2. CASE waiter = Nobody /\ socket' = sock /\ UNCHANGED <<stage, order, waiter>>
  <2>1. Core'
    BY <1>1, <1>2, SameCallsCore DEF Core, ClientTypeOK
  <2>2. OwnReply => OwnReply'
    BY <1>1, <1>2 DEF OwnReply
  <2> QED BY <1>2, <2>1, <2>2, SameCallsPooled
<1>3. CASE /\ waiter # Nobody
           /\ stage' = [stage EXCEPT ![waiter.call] = "failed"]
           /\ order' = IF waiter.call = Connect THEN order ELSE Tail(order)
           /\ waiter' = Nobody
           /\ socket' = IF kind[waiter.call] = "quit" THEN "gone" ELSE sock
  <2>1. Released(waiter.call, "failed") /\ socket' \in {"none", "open", "gone"}
    BY <1>3 DEF Released
  <2> QED BY <1>1, <1>3, <2>1, CutOffKeeps
<1> QED BY <1>2, <1>3 DEF Hangup

-----------------------------------------------------------------------------
(* The invariant, and what it says of every behaviour. *)

LEMMA InitClientInv == Init => Core /\ PooledUse
<1> SUFFICES ASSUME Init PROVE Core /\ PooledUse
  OBVIOUS
<1>1. ClientTypeOK
  BY EmptySeq DEF Init, ClientTypeOK, Asked, Early
<1>2. NobodyCalled /\ stage[Connect] = "new" /\ \A c \in Everyone : stage[c] = "new"
  BY Numbering DEF Init, NobodyCalled
<1>3. LockHolds
  <2>1. DOMAIN order = {} /\ Len(order) = 0
    BY DEF Init
  <2> QED BY <1>2, <2>1 DEF LockHolds, Early, Calling, NobodyCalled
<1>4. OneWaits
  BY <1>2 DEF Init, OneWaits, Waiting, OnLine
<1>5. PooledUse
  <2>1. Len(order) <= 1 /\ \A c \in Everyone : kind[c] # "quit" /\ heard[c] \subseteq {c}
    BY DEF Init
  <2> QED BY <1>2, <2>1 DEF Init, PooledUse, SomeFailed, OwnReply
<1> QED BY <1>1, <1>3, <1>4, <1>5 DEF Core

LEMMA NextClientInv == Core /\ PooledUse /\ [Next]_vars => Core' /\ PooledUse'
<1> SUFFICES ASSUME Core, PooledUse, [Next]_vars PROVE Core' /\ PooledUse'
  OBVIOUS
<1>1. CASE StartConnect \/ SocketOpens \/ Upgraded \/ SocketFails
  BY <1>1, ConnectingKeepsCore, ConnectingKeepsPooled
<1>2. ASSUME NEW c \in Calls, NEW k \in Kinds, Call(c, k) PROVE Core' /\ PooledUse'
  BY <1>2, CallKeepsCore, CallKeepsPooled
<1>3. ASSUME NEW c \in Calls, Start(c) \/ CredentialResolves(c) \/ TakeBlock(c)
      PROVE  Core' /\ PooledUse'
  BY <1>3, StartKeeps, ResolvingKeeps, TakeBlockKeeps
<1>4. ASSUME NEW c \in Everyone, TakeLine(c) PROVE Core' /\ PooledUse'
  BY <1>4, TakeLineKeeps
<1>5. CASE Deliver \/ Timeout
  BY <1>5, DeliverKeeps, TimeoutKeeps
<1>6. CASE PeerCloses
  BY <1>6, HangupKeeps DEF PeerCloses
<1>7. CASE Destroy
  BY <1>7, HangupKeeps DEF Destroy, Core, ClientTypeOK
<1>8. CASE UNCHANGED vars
  <2>1. Core'
    BY <1>8, SameCallsCore DEF vars, Core, ClientTypeOK
  <2>2. OwnReply => OwnReply'
    BY <1>8 DEF vars, OwnReply, StillToCome
  <2> QED BY <1>8, <2>1, <2>2, SameCallsPooled DEF vars
<1> QED BY <1>1, <1>2, <1>3, <1>4, <1>5, <1>6, <1>7, <1>8 DEF Next

(* The invariant the properties of the connection are read from: its types, *)
(* the lock, the one waiter, and that a client in the pool's hands has      *)
(* nothing under way but what its one command still has to read.            *)
THEOREM ClientInvariant == Spec => [](Core /\ PooledUse)
<1> QED BY InitClientInv, NextClientInv, PTL DEF Spec

(* However calls, timeouts and lost connections interleave, and however     *)
(* many calls are queued: a login or a command has the connection to itself *)
(* until it settles (client.ts:47-50, 250-270).                             *)
THEOREM CommandsAreSerialized == Spec => []OneCommandAtATime
<1>1. ASSUME Core PROVE OneCommandAtATime
  <2>1. ASSUME NEW c \in Calls, stage[c] \in Running PROVE order # <<>> /\ c = Head(order)
    <3>1. stage[c] \in Calling \ {"queued"}
      BY <1>1, <2>1 DEF Running, OnLine, Core, LockHolds, Calling, Settled
    <3> QED BY <1>1, <3>1, RunningIsFirst DEF Core
  <2> QED BY <1>1, <2>1 DEF OneCommandAtATime, Core, OneWaits, Waiting
<1> QED BY <1>1, ClientInvariant, PTL

(* No call on a pooled connection is ever given a line that answers another *)
(* (pool.ts:141-145), for any number of calls and every kind of failure.    *)
THEOREM PooledReadsItsOwn == Spec => []PooledRepliesAreOwn
<1>1. ASSUME PooledUse PROVE PooledRepliesAreOwn
  BY <1>1 DEF PooledUse, PooledRepliesAreOwn
<1> QED BY <1>1, ClientInvariant, PTL

(* A connection on which nothing failed and nothing is asked is between two *)
(* responses: it may be handed to the next caller as it is.                 *)
THEOREM IdleConnectionIsClean == Spec => []IdleIsClean
<1>1. ASSUME Core, PooledUse PROVE IdleIsClean
  <2> SUFFICES ASSUME pooled, stage[Connect] = "done", \A c \in Calls : stage[c] \in {"new", "done"}
               PROVE  wire = <<>> /\ buffer = <<>>
    BY DEF IdleIsClean
  <2>1. ~SomeFailed /\ \A c \in Everyone : stage[c] \notin Waiting
    BY Numbering DEF SomeFailed, Waiting, OnLine
  <2>2. waiter # Nobody => waiter.call \in Everyone
    BY <1>1 DEF Core, ClientTypeOK, Waits
  <2>3. waiter = Nobody
    BY <1>1, <2>1, <2>2 DEF Core, OneWaits
  <2> QED BY <1>1, <2>1, <2>3 DEF PooledUse, OwnReply
<1> QED BY <1>1, ClientInvariant, PTL
=============================================================================
