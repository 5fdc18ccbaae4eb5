--------------------------- MODULE GatewayHubProofs ---------------------------
(***************************************************************************)
(* What GatewayHub promises, for any number of connections, events and     *)
(* failed reads: the types, that every client's feed is a gapless piece of *)
(* what was broadcast, and that a connection is closed once and when the   *)
(* hub lets go of it.                                                      *)
(*                                                                         *)
(* Sequences are reasoned about element by element: Events orders what was *)
(* broadcast, Fits says of a feed's k-th event which one it is and how far *)
(* the feed is behind.  Both need to know who holds the mutex and what is  *)
(* left of the loop under it.                                              *)
(***************************************************************************)
EXTENDS GatewayHub, TLAPS, SequenceTheorems

USE HubAssumption

-----------------------------------------------------------------------------
(* The inductive invariant.                                                *)

\* What was broadcast is in the topic's order and was read; the event the
\* consumer holds is the last of it, or later than all of it.
Events ==
    /\ \A i \in 1 .. Len(handled) : i <= handled[i] /\ handled[i] <= read
    /\ \A i, j \in 1 .. Len(handled) : i < j => handled[i] < handled[j]
    /\ message # 0 /\ ~locked => \A i \in 1 .. Len(handled) : handled[i] < message

\* mu is held for an event, which is the last that was broadcast.
Mutex ==
    /\ locked => message # 0 /\ Len(handled) > 0
    /\ ~locked => todo = {}

\* Only a handler that is between Register and Unregister has a connection in
\* the hub, and nothing is written before.
Registered ==
    \A c \in Clients :
        /\ c \in clients => handler[c] \in {"reading", "leaving"}
        /\ handler[c] \in {"new", "upgraded"} => feed[c] = <<>>

\* A feed follows what was broadcast since its registration, one event behind
\* while it is still to be written to.
Fits ==
    \A c \in Clients :
        /\ joined[c] + Len(feed[c]) <= Len(handled)
        /\ \A k \in 1 .. Len(feed[c]) : feed[c][k] = handled[joined[c] + k]
        /\ c \in clients \ todo => joined[c] + Len(feed[c]) = Len(handled)
        /\ c \in todo => joined[c] + Len(feed[c]) = Len(handled) - 1

LastIsHeld == locked => handled[Len(handled)] = message

IInv == TypeOK /\ Events /\ Mutex /\ LastIsHeld /\ Registered /\ Fits /\ ClosedWhenRemoved

-----------------------------------------------------------------------------
(* Sequences.                                                              *)

\* What Append does, element by element.
LEMMA Appended ==
    ASSUME NEW S, NEW s \in Seq(S), NEW e \in S
    PROVE  /\ Append(s, e) \in Seq(S)
           /\ Len(Append(s, e)) = Len(s) + 1
           /\ \A i \in 1 .. Len(s) : Append(s, e)[i] = s[i]
           /\ Append(s, e)[Len(s) + 1] = e
OBVIOUS

\* A sequence that agrees with a piece of another is that piece.
LEMMA IsPiece ==
    ASSUME NEW S, NEW s \in Seq(S), NEW t \in Seq(S), NEW n \in Nat,
           n + Len(t) <= Len(s),
           \A k \in 1 .. Len(t) : t[k] = s[n + k]
    PROVE  t = SubSeq(s, n + 1, n + Len(t))
<1>. DEFINE piece == SubSeq(s, n + 1, n + Len(t))
<1>1. Len(t) \in Nat /\ Len(s) \in Nat
  BY LenProperties
<1>2. \A i \in (n + 1) .. (n + Len(t)) : i \in 1 .. Len(s)
  BY <1>1
<1>3. \A i \in (n + 1) .. (n + Len(t)) : s[i] \in S
  BY <1>2, ElementOfSeq
<1>4. n + 1 \in Int /\ n + Len(t) \in Int
  BY <1>1
<1>5. /\ piece \in Seq(S)
      /\ Len(piece) = IF n + 1 <= n + Len(t) THEN (n + Len(t)) - (n + 1) + 1 ELSE 0
      /\ \A i \in 1 .. (n + Len(t)) - (n + 1) + 1 : piece[i] = s[(n + 1) + i - 1]
  BY <1>3, <1>4, SubSeqProperties
<1>. HIDE DEF piece
<1>6. Len(piece) = Len(t)
  BY <1>1, <1>5
<1>7. ASSUME NEW k \in 1 .. Len(t)
      PROVE  t[k] = piece[k]
  <2>1. (n + 1) + k - 1 = n + k /\ k \in 1 .. (n + Len(t)) - (n + 1) + 1
    BY <1>1
  <2>. QED  BY <2>1, <1>5
<1>8. t = piece
  BY <1>5, <1>6, <1>7, SeqEqual
<1>. QED  BY <1>8 DEF piece

-----------------------------------------------------------------------------
(* The invariant holds at first.                                           *)

LEMMA InitIInv == Init => IInv
<1>. SUFFICES ASSUME Init PROVE IInv
  OBVIOUS
<1>0. <<>> \in Seq(1 .. MaxEvents) /\ Len(<<>>) = 0
  BY EmptySeq
<1>1. TypeOK
  <2>1. feed \in [Clients -> Seq(1 .. MaxEvents)] /\ handled \in Seq(1 .. MaxEvents)
    BY <1>0 DEF Init
  <2>2. /\ joined \in [Clients -> 0 .. MaxEvents] /\ closes \in [Clients -> 0 .. 1]
        /\ handler \in [Clients -> {"new", "upgraded", "reading", "leaving", "done"}]
        /\ peer \in [Clients -> {"there", "stalled", "gone"}]
    BY DEF Init
  <2>3. /\ written \in 0 .. MaxEvents /\ read \in 0 .. written /\ message \in 0 .. read
        /\ faults \in 0 .. MaxFaults
    BY DEF Init
  <2>4. locked \in BOOLEAN /\ clients \subseteq Clients /\ todo \subseteq clients
    BY DEF Init
  <2>. QED  BY <2>1, <2>2, <2>3, <2>4 DEF TypeOK
<1>2. Events /\ Mutex /\ LastIsHeld
  BY <1>0 DEF Init, Events, Mutex, LastIsHeld
<1>3. Registered /\ Fits /\ ClosedWhenRemoved
  BY <1>0 DEF Init, Registered, Fits, ClosedWhenRemoved
<1>. QED  BY <1>1, <1>2, <1>3 DEF IInv

-----------------------------------------------------------------------------
(* Each part is kept.                                                      *)

\* The consumer never broadcasts more events than it has read.
LEMMA FewHandled ==
    ASSUME TypeOK, Events
    PROVE  Len(handled) \in 0 .. read
<1>1. Len(handled) \in Nat /\ read \in Nat
  BY LenProperties DEF TypeOK
<1>2. CASE Len(handled) = 0
  BY <1>1, <1>2
<1>3. CASE Len(handled) > 0
  <2>1. Len(handled) \in 1 .. Len(handled)
    BY <1>1, <1>3
  <2>2. Len(handled) <= handled[Len(handled)] /\ handled[Len(handled)] <= read
    BY <2>1 DEF Events
  <2>3. handled[Len(handled)] \in 1 .. MaxEvents
    BY <2>1, ElementOfSeq DEF TypeOK
  <2>. QED  BY <1>1, <2>2, <2>3
<1>. QED  BY <1>1, <1>2, <1>3

LEMMA KeepsTypes == IInv /\ [Next]_vars => TypeOK'
<1>. SUFFICES ASSUME IInv, [Next]_vars PROVE TypeOK'
  OBVIOUS
<1>. USE DEF topicVars, hubVars, connVars, histVars
<1>0. TypeOK /\ Events /\ Mutex /\ Registered /\ ClosedWhenRemoved /\ Fits
  BY DEF IInv
<1>1. ASSUME Produce PROVE TypeOK'
  BY <1>0, <1>1 DEF Produce, TypeOK
<1>2. ASSUME ReadFails PROVE TypeOK'
  BY <1>0, <1>2 DEF ReadFails, TypeOK
<1>3. ASSUME ReadMessage PROVE TypeOK'
  BY <1>0, <1>3 DEF ReadMessage, TypeOK
<1>4. ASSUME Malformed PROVE TypeOK'
  BY <1>0, <1>4 DEF Malformed, TypeOK
<1>5. ASSUME StartBroadcast PROVE TypeOK'
  <2>1. message \in 1 .. MaxEvents
    BY <1>0, <1>5 DEF StartBroadcast, TypeOK
  <2>2. handled' \in Seq(1 .. MaxEvents)
    BY <1>0, <1>5, <2>1, Appended DEF StartBroadcast, TypeOK
  <2>. QED  BY <1>0, <1>5, <2>2 DEF StartBroadcast, TypeOK
<1>6. ASSUME EndBroadcast PROVE TypeOK'
  <2>1. message' \in 0 .. read' /\ read' \in 0 .. written' /\ written' \in 0 .. MaxEvents
    BY <1>0, <1>6 DEF EndBroadcast, TypeOK
  <2>2. locked' \in BOOLEAN /\ clients' \subseteq Clients /\ todo' \subseteq clients'
    BY <1>0, <1>6 DEF EndBroadcast, TypeOK
  <2>. QED  BY <1>0, <1>6, <2>1, <2>2 DEF EndBroadcast, TypeOK
<1>7. ASSUME NEW c \in Clients, Deliver(c) PROVE TypeOK'
  <2>1. message \in 1 .. MaxEvents
    BY <1>0, <1>7 DEF Deliver, Mutex, TypeOK
  <2>2. Append(feed[c], message) \in Seq(1 .. MaxEvents)
    BY <1>0, <2>1, Appended DEF TypeOK
  <2>3. feed' \in [Clients -> Seq(1 .. MaxEvents)]
    BY <1>0, <1>7, <2>2 DEF Deliver, TypeOK
  <2>. QED  BY <1>0, <1>7, <2>3 DEF Deliver, TypeOK
<1>8. ASSUME NEW c \in Clients, WriteFails(c) PROVE TypeOK'
  <2>1. closes[c] = 0
    BY <1>0, <1>8 DEF WriteFails, TypeOK, ClosedWhenRemoved
  <2>2. closes' \in [Clients -> 0 .. 1]
    BY <1>0, <1>8, <2>1 DEF WriteFails, TypeOK
  <2>. QED  BY <1>0, <1>8, <2>2 DEF WriteFails, TypeOK
<1>9. ASSUME NEW c \in Clients, Upgrade(c) PROVE TypeOK'
  BY <1>0, <1>9 DEF Upgrade, Step, TypeOK
<1>10. ASSUME NEW c \in Clients, Register(c) PROVE TypeOK'
  <2>1. Len(handled) \in 0 .. MaxEvents
    BY <1>0, FewHandled DEF TypeOK
  <2>. QED  BY <1>0, <1>10, <2>1 DEF Register, Step, TypeOK
<1>11. ASSUME NEW c \in Clients, ReadEnds(c) PROVE TypeOK'
  BY <1>0, <1>11 DEF ReadEnds, Step, TypeOK
<1>12. ASSUME NEW c \in Clients, Unregister(c) PROVE TypeOK'
  <2>1. c \in clients => closes[c] = 0
    BY <1>0, <1>12 DEF TypeOK, ClosedWhenRemoved
  <2>2. closes' \in [Clients -> 0 .. 1]
    BY <1>0, <1>12, <2>1 DEF Unregister, TypeOK
  <2>3. todo' \subseteq clients'
    BY <1>0, <1>12 DEF Unregister, Mutex
  <2>. QED  BY <1>0, <1>12, <2>2, <2>3 DEF Unregister, Step, TypeOK
<1>13. ASSUME NEW c \in Clients, NEW to \in {"there", "stalled", "gone"}, PeerTurns(c, to)
       PROVE  TypeOK'
  BY <1>0, <1>13 DEF PeerTurns, TypeOK
<1>14. ASSUME UNCHANGED vars PROVE TypeOK'
  BY <1>0, <1>14 DEF vars, TypeOK
<1>. QED
  BY <1>1, <1>2, <1>3, <1>4, <1>5, <1>6, <1>7, <1>8, <1>9, <1>10, <1>11, <1>12, <1>13, <1>14
     DEF Next, Consumer, Handler

\* Only the start of a broadcast adds to what was broadcast, and the event it
\* adds is later than the rest; every other action keeps mu's owner consistent.
LEMMA KeepsEvents == IInv /\ [Next]_vars => Events' /\ Mutex' /\ LastIsHeld'
<1>. SUFFICES ASSUME IInv, [Next]_vars PROVE Events' /\ Mutex' /\ LastIsHeld'
  OBVIOUS
<1>. USE DEF topicVars, hubVars, connVars, histVars
<1>0. TypeOK /\ Events /\ Mutex /\ LastIsHeld
  BY DEF IInv
<1>. DEFINE n == Len(handled)
<1>a. /\ n \in Nat /\ n \in 0 .. read /\ read \in Nat /\ message \in Nat /\ message <= read
      /\ \A i \in 1 .. n : handled[i] \in Nat
  <2>1. \A i \in 1 .. n : handled[i] \in 1 .. MaxEvents
    BY <1>0, ElementOfSeq DEF TypeOK
  <2>2. n \in 0 .. read
    BY <1>0, FewHandled
  <2>. QED  BY <1>0, <2>1, <2>2 DEF TypeOK
<1>. DEFINE Quiet == UNCHANGED <<message, locked, handled, read>>
<1>b. ASSUME Quiet, todo' \subseteq todo PROVE Events' /\ Mutex' /\ LastIsHeld'
  BY <1>0, <1>b DEF Events, Mutex, LastIsHeld
<1>1. ASSUME Produce \/ UNCHANGED vars PROVE Events' /\ Mutex' /\ LastIsHeld'
  BY <1>1, <1>b DEF Produce, vars
<1>2. ASSUME ReadFails PROVE Events' /\ Mutex' /\ LastIsHeld'
  BY <1>0, <1>a, <1>2 DEF ReadFails, Events, Mutex, LastIsHeld
<1>3. ASSUME ReadMessage PROVE Events' /\ Mutex' /\ LastIsHeld'
  BY <1>0, <1>a, <1>3 DEF ReadMessage, Events, Mutex, LastIsHeld
<1>4. ASSUME Malformed PROVE Events' /\ Mutex' /\ LastIsHeld'
  BY <1>0, <1>a, <1>4 DEF Malformed, Events, Mutex, LastIsHeld
<1>5. ASSUME StartBroadcast PROVE Events' /\ Mutex' /\ LastIsHeld'
  <2>1. message \in 1 .. MaxEvents
    BY <1>0, <1>5 DEF StartBroadcast, TypeOK
  <2>2. handled \in Seq(1 .. MaxEvents)
    BY <1>0 DEF TypeOK
  <2>3. handled' = Append(handled, message)
    BY <1>5 DEF StartBroadcast
  <2>4. /\ Len(handled') = n + 1
        /\ \A i \in 1 .. n : handled'[i] = handled[i]
        /\ handled'[n + 1] = message
    BY <2>1, <2>2, <2>3, Appended
  <2>5. \A i \in 1 .. n : handled[i] < message /\ i <= handled[i] /\ handled[i] <= read
    BY <1>0, <1>5 DEF StartBroadcast, Events
  <2>6. n + 1 <= message
    <3>1. CASE n = 0
      BY <2>1, <3>1
    <3>2. CASE n # 0
      <4>1. n \in 1 .. n
        BY <1>a, <3>2
      <4>. QED  BY <1>a, <2>5, <4>1
    <3>. QED  BY <3>1, <3>2
  <2>7. ASSUME NEW i \in 1 .. Len(handled') PROVE i <= handled'[i] /\ handled'[i] <= read'
    <3>1. i \in 1 .. n \/ i = n + 1
      BY <1>a, <2>4
    <3>2. read' = read
      BY <1>5 DEF StartBroadcast
    <3>. QED  BY <1>a, <2>4, <2>5, <2>6, <3>1, <3>2
  <2>8. ASSUME NEW i \in 1 .. Len(handled'), NEW j \in 1 .. Len(handled'), i < j
        PROVE  handled'[i] < handled'[j]
    <3>1. i \in 1 .. n /\ (j \in 1 .. n \/ j = n + 1)
      BY <1>a, <2>4, <2>8
    <3>2. CASE j = n + 1
      BY <2>4, <2>5, <3>1, <3>2
    <3>3. CASE j \in 1 .. n
      <4>1. handled[i] < handled[j]
        BY <1>0, <2>8, <3>1, <3>3 DEF Events
      <4>. QED  BY <2>4, <3>1, <3>3, <4>1
    <3>. QED  BY <3>1, <3>2, <3>3
  <2>9. locked' = TRUE /\ message' = message /\ message # 0
    BY <1>5 DEF StartBroadcast
  <2>10. Events'
    BY <2>7, <2>8, <2>9 DEF Events
  <2>. QED  BY <1>a, <2>4, <2>9, <2>10 DEF Mutex, LastIsHeld
<1>6. ASSUME EndBroadcast PROVE Events' /\ Mutex' /\ LastIsHeld'
  BY <1>0, <1>a, <1>6 DEF EndBroadcast, Events, Mutex, LastIsHeld
<1>7. ASSUME NEW c \in Clients, Deliver(c) \/ WriteFails(c) PROVE Events' /\ Mutex' /\ LastIsHeld'
  BY <1>7, <1>b DEF Deliver, WriteFails
<1>8. ASSUME NEW c \in Clients, Handler(c) PROVE Events' /\ Mutex' /\ LastIsHeld'
  BY <1>8, <1>b DEF Handler, Upgrade, Register, ReadEnds, Unregister
<1>9. ASSUME NEW c \in Clients, NEW to \in {"there", "stalled", "gone"}, PeerTurns(c, to)
      PROVE  Events' /\ Mutex' /\ LastIsHeld'
  BY <1>9, <1>b DEF PeerTurns
<1>. QED
  BY <1>1, <1>2, <1>3, <1>4, <1>5, <1>6, <1>7, <1>8, <1>9 DEF Next, Consumer

\* A handler registers a connection once and takes it out before it is done;
\* whoever takes it out closes it.
LEMMA KeepsConnections == IInv /\ [Next]_vars => Registered' /\ ClosedWhenRemoved'
<1>. SUFFICES ASSUME IInv, [Next]_vars, NEW c \in Clients
              PROVE  /\ c \in clients' => handler'[c] \in {"reading", "leaving"}
                     /\ handler'[c] \in {"new", "upgraded"} => feed'[c] = <<>>
                     /\ closes'[c] = IF c \in clients' \/ handler'[c] \in {"new", "upgraded"} THEN 0 ELSE 1
  BY DEF Registered, ClosedWhenRemoved
<1>. USE DEF topicVars, hubVars, connVars, histVars
<1>0. /\ TypeOK /\ (c \in clients => handler[c] \in {"reading", "leaving"})
      /\ handler[c] \in {"new", "upgraded"} => feed[c] = <<>>
      /\ closes[c] = IF c \in clients \/ handler[c] \in {"new", "upgraded"} THEN 0 ELSE 1
  BY DEF IInv, Registered, ClosedWhenRemoved
<1>. DEFINE Fine == /\ c \in clients' => handler'[c] \in {"reading", "leaving"}
                    /\ handler'[c] \in {"new", "upgraded"} => feed'[c] = <<>>
                    /\ closes'[c] = IF c \in clients' \/ handler'[c] \in {"new", "upgraded"} THEN 0 ELSE 1
<1>. SUFFICES Fine
  OBVIOUS
<1>1. ASSUME UNCHANGED <<clients, handler, feed, closes>> PROVE Fine
  BY <1>0, <1>1
<1>2. ASSUME Produce \/ ReadFails \/ ReadMessage \/ Malformed \/ StartBroadcast \/ EndBroadcast
             \/ UNCHANGED vars
      PROVE  Fine
  <2>1. UNCHANGED <<clients, handler, feed, closes>>
    BY <1>2 DEF Produce, ReadFails, ReadMessage, Malformed, StartBroadcast, EndBroadcast, vars
  <2>. QED  BY <1>1, <2>1
<1>3. ASSUME NEW d \in Clients, Deliver(d) PROVE Fine
  <2>1. UNCHANGED <<clients, handler, closes>> /\ d \in clients
    BY <1>0, <1>3 DEF Deliver, TypeOK
  <2>2. c # d => feed'[c] = feed[c]
    BY <1>0, <1>3 DEF Deliver, TypeOK
  <2>3. c = d => handler[c] \in {"reading", "leaving"}
    BY <1>0, <2>1
  <2>. QED  BY <1>0, <2>1, <2>2, <2>3
<1>4. ASSUME NEW d \in Clients, WriteFails(d) PROVE Fine
  BY <1>0, <1>4 DEF WriteFails, TypeOK
<1>5. ASSUME NEW d \in Clients, Upgrade(d) PROVE Fine
  BY <1>0, <1>5 DEF Upgrade, Step, TypeOK
<1>6. ASSUME NEW d \in Clients, Register(d) PROVE Fine
  BY <1>0, <1>6 DEF Register, Step, TypeOK
<1>7. ASSUME NEW d \in Clients, ReadEnds(d) PROVE Fine
  BY <1>0, <1>7 DEF ReadEnds, Step, TypeOK
<1>8. ASSUME NEW d \in Clients, Unregister(d) PROVE Fine
  BY <1>0, <1>8 DEF Unregister, Step, TypeOK
<1>9. ASSUME NEW d \in Clients, NEW to \in {"there", "stalled", "gone"}, PeerTurns(d, to) PROVE Fine
  BY <1>1, <1>9 DEF PeerTurns
<1>. QED
  BY <1>2, <1>3, <1>4, <1>5, <1>6, <1>7, <1>8, <1>9 DEF Next, Consumer, Handler

\* A broadcast puts every client one event behind and a write catches one up,
\* with the event the broadcast is of; Register joins where nobody is behind.
LEMMA KeepsFeeds == IInv /\ [Next]_vars => Fits'
<1>. DEFINE FitsOf(c) ==
        /\ joined[c] + Len(feed[c]) <= Len(handled)
        /\ \A k \in 1 .. Len(feed[c]) : feed[c][k] = handled[joined[c] + k]
        /\ c \in clients \ todo => joined[c] + Len(feed[c]) = Len(handled)
        /\ c \in todo => joined[c] + Len(feed[c]) = Len(handled) - 1
<1>. SUFFICES ASSUME IInv, [Next]_vars, NEW c \in Clients
              PROVE  FitsOf(c)'
  BY DEF Fits
<1>. USE DEF topicVars, hubVars, connVars, histVars
<1>0. TypeOK /\ Mutex /\ LastIsHeld /\ FitsOf(c)
  BY DEF IInv, Fits
<1>a. /\ Len(handled) \in Nat /\ Len(feed[c]) \in Nat /\ joined[c] \in Nat
      /\ handled \in Seq(1 .. MaxEvents) /\ feed[c] \in Seq(1 .. MaxEvents)
  <2>1. handled \in Seq(1 .. MaxEvents) /\ feed[c] \in Seq(1 .. MaxEvents) /\ joined[c] \in Nat
    BY <1>0 DEF TypeOK
  <2>. QED  BY <2>1, LenProperties
<1>1. ASSUME UNCHANGED <<joined, feed, handled>>, c \in clients' => c \in clients,
             c \in clients' => (c \in todo' <=> c \in todo), c \in todo' => c \in clients'
      PROVE  FitsOf(c)'
  BY <1>0, <1>1
<1>2. ASSUME Produce \/ ReadFails \/ ReadMessage \/ Malformed \/ EndBroadcast \/ UNCHANGED vars
      PROVE  FitsOf(c)'
  <2>1. UNCHANGED <<joined, feed, handled, clients, todo>>
    BY <1>2 DEF Produce, ReadFails, ReadMessage, Malformed, EndBroadcast, vars
  <2>. QED  BY <1>0, <2>1
<1>3. ASSUME StartBroadcast PROVE FitsOf(c)'
  <2>1. message \in 1 .. MaxEvents
    BY <1>0, <1>3 DEF StartBroadcast, TypeOK
  <2>2. handled' = Append(handled, message)
    BY <1>3 DEF StartBroadcast
  <2>3. /\ Len(handled') = Len(handled) + 1
        /\ \A i \in 1 .. Len(handled) : handled'[i] = handled[i]
    BY <1>a, <2>1, <2>2, Appended
  <2>4. UNCHANGED <<joined, feed, clients>> /\ todo' = clients /\ todo = {}
    BY <1>0, <1>3 DEF StartBroadcast, Mutex
  <2>5. ASSUME NEW k \in 1 .. Len(feed[c]) PROVE feed[c][k] = handled'[joined[c] + k]
    <3>1. joined[c] + Len(feed[c]) <= Len(handled) /\ feed[c][k] = handled[joined[c] + k]
      BY <1>0
    <3>2. joined[c] \in Nat /\ Len(feed[c]) \in Nat /\ Len(handled) \in Nat
      BY <1>a
    <3>3. joined[c] + k \in 1 .. Len(handled)
      BY <3>1, <3>2
    <3>. QED  BY <2>3, <3>1, <3>3
  <2>. QED  BY <1>0, <1>a, <2>3, <2>4, <2>5
<1>4. ASSUME NEW d \in Clients, Deliver(d) PROVE FitsOf(c)'
  <2>1. UNCHANGED <<joined, handled, clients>> /\ todo' = todo \ {d}
    BY <1>4 DEF Deliver
  <2>2. CASE c # d
    <3>1. feed'[c] = feed[c]
      BY <1>0, <1>4, <2>2 DEF Deliver, TypeOK
    <3>. QED  BY <1>0, <2>1, <2>2, <3>1
  <2>3. CASE c = d
    <3>1. message \in 1 .. MaxEvents /\ locked /\ c \in todo
      BY <1>0, <1>4, <2>3 DEF Deliver, Mutex, TypeOK
    <3>2. feed'[c] = Append(feed[c], message)
      BY <1>0, <1>4, <2>3 DEF Deliver, TypeOK
    <3>3. /\ Len(feed'[c]) = Len(feed[c]) + 1
          /\ \A k \in 1 .. Len(feed[c]) : feed'[c][k] = feed[c][k]
          /\ feed'[c][Len(feed[c]) + 1] = message
      BY <1>a, <3>1, <3>2, Appended
    <3>4. joined[c] + Len(feed[c]) = Len(handled) - 1
      BY <1>0, <3>1
    <3>5. message = handled[joined[c] + (Len(feed[c]) + 1)]
      <4>1. joined[c] + (Len(feed[c]) + 1) = Len(handled)
        BY <1>a, <3>4
      <4>2. handled[Len(handled)] = message
        BY <1>0, <3>1 DEF LastIsHeld
      <4>. QED  BY <4>1, <4>2
    <3>6. ASSUME NEW k \in 1 .. Len(feed'[c]) PROVE feed'[c][k] = handled[joined[c] + k]
      <4>1. k \in 1 .. Len(feed[c]) \/ k = Len(feed[c]) + 1
        BY <1>a, <3>3
      <4>. QED  BY <1>0, <3>3, <3>5, <4>1
    <3>7. joined[c] + Len(feed'[c]) = Len(handled) /\ c \notin todo'
      BY <1>a, <2>1, <2>3, <3>3, <3>4
    <3>. QED  BY <1>a, <2>1, <3>6, <3>7
  <2>. QED  BY <2>2, <2>3
<1>5. ASSUME NEW d \in Clients, WriteFails(d) PROVE FitsOf(c)'
  <2>1. /\ UNCHANGED <<joined, feed, handled>> /\ todo' = todo \ {d} /\ clients' = clients \ {d}
        /\ todo \subseteq clients
    BY <1>0, <1>5 DEF WriteFails, TypeOK
  <2>. QED  BY <1>1, <2>1
<1>6. ASSUME NEW d \in Clients, Register(d) PROVE FitsOf(c)'
  <2>1. UNCHANGED <<feed, handled, todo>> /\ clients' = clients \cup {d} /\ todo = {}
    BY <1>0, <1>6 DEF Register, Step, Mutex
  <2>2. CASE c # d
    <3>1. joined'[c] = joined[c] /\ (c \in clients' <=> c \in clients)
      BY <1>0, <1>6, <2>1, <2>2 DEF Register, TypeOK
    <3>. QED  BY <1>0, <2>1, <3>1
  <2>3. CASE c = d
    <3>1. joined'[c] = Len(handled)
      BY <1>0, <1>6, <2>3 DEF Register, TypeOK
    <3>2. handler[c] = "upgraded"
      BY <1>6, <2>3 DEF Register, Step
    <3>3. feed[c] = <<>>
      BY <3>2 DEF IInv, Registered
    <3>4. Len(feed[c]) = 0
      BY <3>3, EmptySeq
    <3>. QED  BY <1>a, <2>1, <3>1, <3>4
  <2>. QED  BY <2>2, <2>3
<1>7. ASSUME NEW d \in Clients, Upgrade(d) \/ ReadEnds(d) PROVE FitsOf(c)'
  <2>1. UNCHANGED <<joined, feed, handled, clients, todo>>
    BY <1>7 DEF Upgrade, ReadEnds
  <2>. QED  BY <1>0, <2>1
<1>8. ASSUME NEW d \in Clients, Unregister(d) PROVE FitsOf(c)'
  <2>1. UNCHANGED <<joined, feed, handled, todo>> /\ clients' = clients \ {d} /\ todo = {}
    BY <1>0, <1>8 DEF Unregister, Mutex
  <2>. QED  BY <1>1, <2>1
<1>9. ASSUME NEW d \in Clients, NEW to \in {"there", "stalled", "gone"}, PeerTurns(d, to)
      PROVE  FitsOf(c)'
  <2>1. UNCHANGED <<joined, feed, handled, clients, todo>>
    BY <1>9 DEF PeerTurns
  <2>. QED  BY <1>0, <2>1
<1>. QED
  BY <1>2, <1>3, <1>4, <1>5, <1>6, <1>7, <1>8, <1>9 DEF Next, Consumer, Handler

-----------------------------------------------------------------------------
(* The theorems.                                                           *)

LEMMA Invariant == Spec => []IInv
<1>1. IInv /\ [Next]_vars => IInv'
  BY KeepsTypes, KeepsEvents, KeepsConnections, KeepsFeeds DEF IInv
<1>. QED  BY <1>1, InitIInv, PTL DEF Spec

\* Every variable keeps its type: the consumer holds nothing it has not read,
\* a broadcast's loop only visits clients that are still in the hub, and no
\* connection is closed twice.  (Broadcast, Unregister, runConsumer.)
THEOREM TypeCorrect == Spec => []TypeOK
<1>1. IInv => TypeOK
  BY DEF IInv
<1>. QED  BY <1>1, Invariant, PTL

\* What each client was sent is a piece, without a gap or a repeat, of what was
\* broadcast, which is in the topic's order, whatever connections come, stall
\* and fail and whatever reads are lost.  (Broadcast and Register under mu.)
THEOREM FeedsAreContiguous == Spec => []FeedIsContiguous
<1>1. ASSUME IInv PROVE FeedIsContiguous
  <2>0. TypeOK /\ Events /\ Fits
    BY <1>1 DEF IInv
  <2>1. handled \in Seq(1 .. MaxEvents) /\ DOMAIN handled = 1 .. Len(handled)
    BY <2>0, LenProperties DEF TypeOK
  <2>2. \A i, j \in DOMAIN handled : i < j => handled[i] < handled[j]
    BY <2>0, <2>1 DEF Events
  <2>3. ASSUME NEW c \in Clients
        PROVE  feed[c] = SubSeq(handled, joined[c] + 1, joined[c] + Len(feed[c]))
    <3>1. feed[c] \in Seq(1 .. MaxEvents) /\ joined[c] \in Nat
      BY <2>0 DEF TypeOK
    <3>2. /\ joined[c] + Len(feed[c]) <= Len(handled)
          /\ \A k \in 1 .. Len(feed[c]) : feed[c][k] = handled[joined[c] + k]
      BY <2>0 DEF Fits
    <3>. QED  BY <2>1, <3>1, <3>2, IsPiece
  <2>4. \A c \in Clients : c \in clients \ todo => joined[c] + Len(feed[c]) = Len(handled)
    BY <2>0 DEF Fits
  <2>. QED  BY <2>2, <2>3, <2>4 DEF FeedIsContiguous
<1>. QED  BY <1>1, Invariant, PTL

\* A connection is closed exactly when it leaves the hub, by the broadcast or
\* by its handler, and never by both.  (Broadcast's delete, Unregister's check.)
THEOREM ClosedOnce == Spec => []ClosedWhenRemoved
<1>1. IInv => ClosedWhenRemoved
  BY DEF IInv
<1>. QED  BY <1>1, Invariant, PTL
=============================================================================
