---------------------- MODULE TcaplusTraverseProofs ----------------------
(***************************************************************************)
(* Proofs about TcaplusTraverse, for any traversals, number of responses   *)
(* and size of the channel: TraverseInv is an inductive invariant.         *)
(***************************************************************************)
EXTENDS TcaplusTraverse, SequenceTheorems, TLAPS

Step(t) == Start(t) \/ Arrive(t) \/ Loop(t) \/ Read(t) \/ GiveUp(t)

---------------------------------------------------------------------------
(* Sequences.                                                              *)

\* Reading the channel moves its first element behind what was read.
LEMMA ReadKeeps ==
    ASSUME NEW S, NEW s \in Seq(S), NEW q \in Seq(S), q # <<>>
    PROVE  Append(s, Head(q)) \o Tail(q) = s \o q
<1>1. /\ Head(q) = q[1] /\ Head(q) \in S /\ Tail(q) \in Seq(S) /\ Len(q) \in Nat \ {0}
      /\ Len(Tail(q)) = Len(q) - 1 /\ \A i \in 1 .. Len(q) - 1 : Tail(q)[i] = q[i + 1]
  BY HeadTailProperties, EmptySeq
<1> DEFINE a == Append(s, Head(q))
<1>2. /\ a \in Seq(S) /\ Len(a) = Len(s) + 1 /\ Len(s) \in Nat
      /\ \A i \in 1 .. Len(s) : a[i] = s[i]
      /\ a[Len(s) + 1] = q[1]
  BY <1>1, AppendProperties, LenProperties
<1> HIDE DEF a
<1> DEFINE l == a \o Tail(q)
           r == s \o q
<1>3. /\ l \in Seq(S) /\ Len(l) = Len(s) + Len(q)
      /\ \A i \in 1 .. Len(s) + Len(q) :
            l[i] = IF i <= Len(s) + 1 THEN a[i] ELSE Tail(q)[i - (Len(s) + 1)]
  <2>1. Len(a) + Len(Tail(q)) = Len(s) + Len(q)
    BY <1>1, <1>2
  <2>2. /\ l \in Seq(S) /\ Len(l) = Len(a) + Len(Tail(q))
        /\ \A i \in 1 .. Len(a) + Len(Tail(q)) :
              l[i] = IF i <= Len(a) THEN a[i] ELSE Tail(q)[i - Len(a)]
    BY <1>1, <1>2, ConcatProperties
  <2> QED BY <1>2, <2>1, <2>2
<1>4. /\ r \in Seq(S) /\ Len(r) = Len(s) + Len(q)
      /\ \A i \in 1 .. Len(s) + Len(q) : r[i] = IF i <= Len(s) THEN s[i] ELSE q[i - Len(s)]
  BY ConcatProperties
<1> HIDE DEF l, r
<1>5. ASSUME NEW i \in 1 .. Len(s) + Len(q) PROVE l[i] = r[i]
  <2>1. CASE i <= Len(s)
    BY <1>1, <1>2, <1>3, <1>4, <2>1
  <2>2. CASE i = Len(s) + 1
    <3>1. l[i] = q[1]
      BY <1>2, <1>3, <2>2
    <3>2. r[i] = q[i - Len(s)] /\ i - Len(s) = 1
      BY <1>1, <1>2, <1>4, <2>2
    <3> QED BY <3>1, <3>2
  <2>3. CASE i > Len(s) + 1
    <3>1. i - (Len(s) + 1) \in 1 .. Len(q) - 1 /\ (i - (Len(s) + 1)) + 1 = i - Len(s)
      BY <1>1, <1>2, <2>3
    <3>2. l[i] = Tail(q)[i - (Len(s) + 1)] /\ r[i] = q[i - Len(s)]
      BY <1>1, <1>2, <1>3, <1>4, <2>3
    <3> QED BY <1>1, <3>1, <3>2
  <2> QED BY <1>1, <1>2, <2>1, <2>2, <2>3
<1>6. l = r
  BY <1>3, <1>4, <1>5, SeqEqual
<1> QED BY <1>6 DEF l, r, a

\* Sending moves what the goroutine holds to the end of the channel.
LEMMA SendKeeps ==
    ASSUME NEW S, NEW s \in Seq(S), NEW q \in Seq(S), NEW e \in S
    PROVE  s \o Append(q, e) = Append(s \o q, e)
<1>1. <<e>> \in Seq(S) /\ s \o q \in Seq(S)
  BY ConcatProperties
<1>2. Append(q, e) = q \o <<e>> /\ Append(s \o q, e) = (s \o q) \o <<e>>
  BY <1>1, AppendIsConcat
<1> QED BY <1>1, <1>2, ConcatAssociative

\* A response is not Nobody.
LEMMA ItemFacts ==
    \A r \in Items : /\ r # Nobody
                     /\ r[1] \in Traversals /\ r[2] \in 1 .. Responses /\ r[2] \in Nat
                     /\ r = <<r[1], r[2]>>
<1> SUFFICES ASSUME NEW r \in Items
             PROVE  /\ r # Nobody
                    /\ r[1] \in Traversals /\ r[2] \in 1 .. Responses /\ r[2] \in Nat
                    /\ r = <<r[1], r[2]>>
  OBVIOUS
<1>1. PICK u \in Traversals, n \in 1 .. Responses : r = <<u, n>>
  BY DEF Items
<1>2. Len(r) = 2 /\ Len(<<>>) = 0
  BY <1>1
<1> QED BY <1>1, <1>2 DEF Nobody

---------------------------------------------------------------------------
(* What a goroutine has taken.                                             *)

\* It is a sequence of responses.
LEMMA TakenSeq ==
    ASSUME TypeOK, ChannelsOK, NEW u \in Traversals
    PROVE  /\ Delivered(u) \in Seq(Items) /\ Taken(u) \in Seq(Items)
           /\ pc[u] = "send" => hand[u] \in Items
<1>1. Delivered(u) \in Seq(Items)
  BY ConcatProperties DEF ChannelsOK, Delivered
<1>2. pc[u] = "send" => hand[u] \in Items
  BY DEF ChannelsOK, TypeOK
<1> QED BY <1>1, <1>2, AppendProperties DEF Taken

\* RecvResponse: the response is its own exactly when it carries the id.
LEMMA MineMeans ==
    ASSUME TypeOK, QueueOK, IdsOK, NEW t \in Traversals, RecvResponse(t)
    PROVE  /\ Head(queue) = queue[1] /\ queue[1] \in Items /\ Len(queue) \in Nat \ {0}
           /\ Mine(t, queue[1]) <=> queue[1][1] = t /\ tag[t] = aid[t]
<1>1. queue \in Seq(Items) /\ queue # <<>> /\ pc[t] = "recv"
  BY DEF RecvResponse, QueueOK
<1>2. Head(queue) = queue[1] /\ Len(queue) \in Nat \ {0}
  BY <1>1, EmptySeq
<1>3. queue[1] \in Items
  BY <1>1, <1>2, ElementOfSeq
<1>4. PICK u \in Traversals, n \in 1 .. Responses : queue[1] = <<u, n>>
  BY <1>3 DEF Items
<1>5. n <= sent[u]
  BY <1>2, <1>4 DEF QueueOK
<1>6. pc[u] # "new" /\ aid[u] > 0 /\ tag[u] \in {0, aid[u]} /\ aid[t] > 0
  BY <1>1, <1>4, <1>5 DEF IdsOK, TypeOK
<1>7. tag[u] = aid[t] <=> u = t /\ tag[t] = aid[t]
  BY <1>1, <1>6 DEF TypeOK
<1> QED BY <1>2, <1>3, <1>4, <1>7 DEF Mine

\* The client drops the response that it returns.
LEMMA TailMeans ==
    ASSUME QueueOK, queue # <<>>, queue' = Tail(queue)
    PROVE  /\ queue' \in Seq(Items) /\ Len(queue') = Len(queue) - 1
           /\ \A i \in 1 .. Len(queue') : queue'[i] = queue[i + 1]
  BY HeadTailProperties DEF QueueOK

\* The steps that take no response leave every channel with what was taken for it.
LEMMA TakenStep ==
    ASSUME TypeOK, QueueOK, IdsOK, ChannelsOK, NEW t \in Traversals, Step(t), NEW u \in Traversals
    PROVE  Taken(u)' = IF u = t /\ RecvResponse(t) /\ Mine(t, queue[1])
                       THEN Append(Taken(u), queue[1]) ELSE Taken(u)
<1>t. /\ pc \in [Traversals -> {"new", "recv", "send", "check", "closed", "refused"}]
      /\ sent \in [Traversals -> 0 .. Responses] /\ Responses \in Nat
  BY TraverseAssumption DEF TypeOK
<1>1. CASE Start(t)
  <2>1. /\ got' = got /\ respCh' = respCh /\ hand' = hand
        /\ pc'[u] = "send" <=> pc[u] = "send"
        /\ ~RecvResponse(t)
    BY <1>t, <1>1 DEF Start, RecvResponse, Received, clientVars
  <2> QED BY <1>t, <2>1 DEF Taken, Delivered
<1>2. CASE Arrive(t)
  <2>1. got' = got /\ respCh' = respCh /\ hand' = hand /\ pc' = pc
    BY <1>t, <1>2 DEF Arrive
  <2>2. ~RecvResponse(t)
    <3>1. sent'[t] # sent[t]
      BY <1>t, <1>2 DEF Arrive
    <3> QED BY <3>1 DEF RecvResponse
  <2> QED BY <1>t, <2>1, <2>2 DEF Taken, Delivered
<1>3. CASE RecvResponse(t)
  <2>1. /\ got' = got /\ respCh' = respCh
        /\ Mine(t, queue[1]) => /\ hand' = [hand EXCEPT ![t] = queue[1]]
                                /\ pc' = [pc EXCEPT ![t] = "send"]
        /\ ~Mine(t, queue[1]) => hand' = hand /\ pc' = pc
        /\ pc[t] = "recv"
    BY <1>t, <1>3, MineMeans DEF RecvResponse
  <2>2. hand \in [Traversals -> Items \cup {Nobody}]
    BY DEF ChannelsOK
  <2> QED BY <1>t, <1>3, <2>1, <2>2 DEF Taken, Delivered
<1>4. CASE SendToChannel(t)
  <2>1. /\ pc[t] = "send" /\ pc' = [pc EXCEPT ![t] = "check"] /\ got' = got
        /\ respCh' = [respCh EXCEPT ![t] = Append(@, hand[t])]
        /\ hand' = [hand EXCEPT ![t] = Nobody]
    BY <1>t, <1>4 DEF SendToChannel
  <2>2. ~RecvResponse(t)
    BY <1>t, <2>1 DEF RecvResponse
  <2>3. CASE u = t
    <3>1. hand[t] \in Items /\ got[t] \in Seq(Items) /\ respCh[t] \in Seq(Items)
      BY <1>t, <2>1, TakenSeq DEF ChannelsOK
    <3>2. Taken(u)' = got[t] \o Append(respCh[t], hand[t])
      BY <1>t, <2>1, <2>3 DEF Taken, Delivered, ChannelsOK
    <3>3. Taken(u) = Append(got[t] \o respCh[t], hand[t])
      BY <1>t, <2>1, <2>3 DEF Taken, Delivered, ChannelsOK
    <3>4. got[t] \o Append(respCh[t], hand[t]) = Append(got[t] \o respCh[t], hand[t])
      <4>1. PICK s \in Seq(Items), q \in Seq(Items), e \in Items :
                s = got[t] /\ q = respCh[t] /\ e = hand[t]
        BY <3>1
      <4>2. s \o Append(q, e) = Append(s \o q, e)
        BY SendKeeps
      <4> QED BY <4>1, <4>2
    <3> QED BY <2>2, <3>2, <3>3, <3>4
  <2>4. CASE u # t
    BY <1>t, <2>1, <2>2, <2>4 DEF Taken, Delivered, ChannelsOK
  <2> QED BY <2>3, <2>4
<1>5. CASE CheckState(t)
  <2>1. /\ got' = got /\ respCh' = respCh /\ hand' = hand
        /\ pc'[u] = "send" <=> pc[u] = "send"
        /\ ~RecvResponse(t)
    BY <1>t, <1>5 DEF CheckState, RecvResponse, Received, clientVars
  <2> QED BY <1>t, <2>1 DEF Taken, Delivered
<1>6. CASE Read(t)
  <2>1. /\ pc' = pc /\ hand' = hand /\ respCh[t] # <<>> /\ queue' = queue
        /\ got' = [got EXCEPT ![t] = Append(@, Head(respCh[t]))]
        /\ respCh' = [respCh EXCEPT ![t] = Tail(@)]
    BY <1>t, <1>6 DEF Read, clientVars
  <2>2. ~RecvResponse(t)
    <3>1. got[t] \in Seq(Items) /\ Head(respCh[t]) \in Items
      BY <1>t, <2>1, HeadTailProperties DEF ChannelsOK
    <3>2. got'[t] # got[t]
      <4>1. Len(Append(got[t], Head(respCh[t]))) = Len(got[t]) + 1 /\ Len(got[t]) \in Nat
        BY <3>1, AppendProperties, LenProperties
      <4>2. got'[t] = Append(got[t], Head(respCh[t]))
        BY <1>t, <2>1 DEF ChannelsOK
      <4> QED BY <4>1, <4>2
    <3> QED BY <3>2 DEF RecvResponse
  <2>3. CASE u = t
    <3>1. got[t] \in Seq(Items) /\ respCh[t] \in Seq(Items)
      BY DEF ChannelsOK
    <3>2. Delivered(u)' = Append(got[t], Head(respCh[t])) \o Tail(respCh[t])
      BY <1>t, <2>1, <2>3 DEF Delivered, ChannelsOK
    <3>3. Append(got[t], Head(respCh[t])) \o Tail(respCh[t]) = got[t] \o respCh[t]
      BY <2>1, <3>1, ReadKeeps
    <3>4. Delivered(u)' = Delivered(u)
      BY <2>3, <3>2, <3>3 DEF Delivered
    <3> QED BY <1>t, <2>1, <2>2, <3>4 DEF Taken
  <2>4. CASE u # t
    BY <1>t, <2>1, <2>2, <2>4 DEF Taken, Delivered, ChannelsOK
  <2> QED BY <2>3, <2>4
<1>7. CASE GiveUp(t)
  <2>1. /\ got' = got /\ respCh' = respCh /\ hand' = hand
        /\ pc'[u] = "send" <=> pc[u] = "send"
        /\ ~RecvResponse(t)
    BY <1>t, <1>7 DEF GiveUp, RecvResponse, Received, clientVars
  <2> QED BY <1>t, <2>1 DEF Taken, Delivered
<1> QED
  BY <1>1, <1>2, <1>3, <1>4, <1>5, <1>6, <1>7 DEF Step, Loop

---------------------------------------------------------------------------
(* The parts of the invariant.                                             *)

\* Every step keeps the types and the bound of the channels; two traversals never share an id.
LEMMA TypesStep ==
    ASSUME TypeOK, QueueOK, IdsOK, ChannelsOK, NEW t \in Traversals, Step(t),
           QueueOK', ChannelsOK'
    PROVE  TypeOK'
<1> USE TraverseAssumption DEF TypeOK
<1>q. \A i \in DOMAIN queue' : queue'[i] \in Traversals \X (1 .. Responses)
  <2>1. queue' \in Seq(Items)
    BY DEF QueueOK
  <2> QED BY <2>1, LenProperties, ElementOfSeq DEF Items
<1>1. CASE Start(t)
  <2>1. /\ asyncId' = asyncId + 1 /\ aid' = [aid EXCEPT ![t] = asyncId + 1]
        /\ \A u \in Traversals : u # t => pc'[u] = pc[u]
        /\ pc'[t] # "send" /\ hand' = hand /\ respCh' = respCh
    BY <1>1 DEF Start, NextId
  <2>2. \A u \in Traversals : aid[u] <= asyncId
    BY DEF IdsOK
  <2>3. \A u, v \in Traversals : pc'[u] # "new" /\ pc'[v] # "new" /\ aid'[u] = aid'[v] => u = v
    BY <2>1, <2>2
  <2>4. tag' \in [Traversals -> Nat]
    BY <1>1 DEF Start, NextId
  <2>5. normal' \in [Traversals -> BOOLEAN]
    BY <1>1 DEF Start
  <2>6. alone' \in [Traversals -> BOOLEAN]
    <3>1. \/ alone' = alone
          \/ alone' = [u \in Traversals |->
                          alone[u] /\ u \notin Running /\ (u = t => Running = {})]
      BY <1>1 DEF Start
    <3>2. alone \in [Traversals -> BOOLEAN]
      OBVIOUS
    <3> HIDE DEF TypeOK
    <3> QED BY <3>1, <3>2, Zenon
  <2>7. pc' \in [Traversals -> {"new", "recv", "send", "check", "closed", "refused"}]
    BY <1>1 DEF Start
  <2> QED BY <1>1, <1>q, <2>1, <2>3, <2>4, <2>5, <2>6, <2>7 DEF Start
<1>2. CASE Arrive(t)
  <2>1. sent' \in [Traversals -> 0 .. Responses]
    BY <1>2 DEF Arrive
  <2> QED BY <1>2, <1>q, <2>1 DEF Arrive
<1>3. CASE RecvResponse(t)
  <2>1. queue[1] # Nobody /\ queue[1][1] \in Traversals /\ Head(queue) = queue[1]
    BY <1>3, MineMeans, ItemFacts
  <2>2. normal' \in [Traversals -> BOOLEAN]
    BY <1>3, <2>1 DEF RecvResponse, Received
  <2>3. /\ pc' \in [Traversals -> {"new", "recv", "send", "check", "closed", "refused"}]
        /\ \A u \in Traversals : pc'[u] = "new" <=> pc[u] = "new"
    BY <1>3 DEF RecvResponse
  <2>4. \A u \in Traversals : pc'[u] = "send" => hand'[u] # Nobody
    <3>1. \/ hand' = [hand EXCEPT ![t] = queue[1]] /\ pc' = [pc EXCEPT ![t] = "send"]
          \/ hand' = hand /\ pc' = pc
      BY <1>3, <2>1 DEF RecvResponse
    <3> QED BY <2>1, <3>1 DEF ChannelsOK
  <2> QED BY <1>3, <1>q, <2>2, <2>3, <2>4 DEF RecvResponse
<1>4. CASE SendToChannel(t)
  <2>1. /\ pc[t] = "send" /\ pc' = [pc EXCEPT ![t] = "check"]
        /\ respCh' = [respCh EXCEPT ![t] = Append(@, hand[t])]
        /\ hand' = [hand EXCEPT ![t] = Nobody] /\ Len(respCh[t]) < Capacity
    BY <1>4 DEF SendToChannel
  <2>2. hand[t] \in Items /\ respCh[t] \in Seq(Items)
    BY <2>1, TakenSeq DEF ChannelsOK
  <2>3. Len(Append(respCh[t], hand[t])) = Len(respCh[t]) + 1 /\ Len(respCh[t]) \in Nat
    BY <2>2, AppendProperties, LenProperties
  <2>4. \A u \in Traversals : Len(respCh'[u]) <= Capacity
    BY <2>1, <2>3 DEF ChannelsOK
  <2>5. \A u \in Traversals : pc'[u] = "send" => hand'[u] # Nobody
    BY <2>1 DEF ChannelsOK
  <2> QED BY <1>4, <1>q, <2>1, <2>4, <2>5 DEF SendToChannel, clientVars
<1>5. CASE CheckState(t)
  BY <1>5, <1>q DEF CheckState, clientVars
<1>6. CASE Read(t)
  <2>1. /\ respCh[t] # <<>> /\ respCh[t] \in Seq(Items)
        /\ respCh' = [respCh EXCEPT ![t] = Tail(@)]
    BY <1>6 DEF Read, ChannelsOK
  <2>2. Len(Tail(respCh[t])) = Len(respCh[t]) - 1 /\ Len(respCh[t]) \in Nat
    BY <2>1, HeadTailProperties, LenProperties
  <2>3. \A u \in Traversals : Len(respCh'[u]) <= Capacity
    BY <2>1, <2>2 DEF ChannelsOK
  <2> QED BY <1>6, <1>q, <2>3 DEF Read, clientVars
<1>7. CASE GiveUp(t)
  BY <1>7, <1>q DEF GiveUp, clientVars
<1> QED
  BY <1>1, <1>2, <1>3, <1>4, <1>5, <1>6, <1>7 DEF Step, Loop

\* The responses of a traversal arrive in their order and are received from the front.
LEMMA QueueStep ==
    ASSUME TypeOK, QueueOK, IdsOK, NEW t \in Traversals, Step(t)
    PROVE  QueueOK'
<1> USE TraverseAssumption DEF TypeOK
<1>q. /\ queue \in Seq(Items) /\ Len(queue) \in Nat
      /\ \A i \in 1 .. Len(queue) : queue[i] \in Items
  BY LenProperties, ElementOfSeq DEF QueueOK
<1>1. CASE Start(t)
  BY <1>1 DEF Start, QueueOK
<1>2. CASE Arrive(t)
  <2> DEFINE r == <<t, sent[t] + 1>>
  <2>1. /\ r \in Items /\ r[1] = t /\ r[2] = sent[t] + 1
        /\ queue' = Append(queue, r) /\ sent' = [sent EXCEPT ![t] = @ + 1]
    BY <1>2 DEF Arrive, Items
  <2> HIDE DEF r
  <2>2. /\ queue' \in Seq(Items) /\ Len(queue') = Len(queue) + 1
        /\ \A i \in 1 .. Len(queue) : queue'[i] = queue[i]
        /\ queue'[Len(queue) + 1] = r
    BY <1>q, <2>1, AppendProperties
  <2>3. \A i \in 1 .. Len(queue) : queue[i][2] <= sent[queue[i][1]] /\ queue[i][1] \in Traversals
                                   /\ queue[i][2] \in Nat
    <3>1. \A i \in 1 .. Len(queue) : queue[i][1] \in Traversals /\ queue[i][2] \in Nat
      BY <1>q, ItemFacts, Zenon
    <3> QED BY <3>1 DEF QueueOK
  <2>4. ASSUME NEW i \in 1 .. Len(queue'), NEW j \in 1 .. Len(queue'),
               i < j, queue'[i][1] = queue'[j][1]
        PROVE  queue'[i][2] < queue'[j][2]
    <3>1. i \in 1 .. Len(queue) /\ queue'[i] = queue[i]
      BY <1>q, <2>2, <2>4
    <3>2. CASE j \in 1 .. Len(queue)
      BY <2>2, <2>4, <3>1, <3>2 DEF QueueOK
    <3>3. CASE j = Len(queue) + 1
      <4>1. queue[i][1] = t /\ queue'[j][2] = sent[t] + 1
        BY <2>1, <2>2, <2>4, <3>1, <3>3
      <4>2. queue[i][2] <= sent[t] /\ queue[i][2] \in Nat /\ sent[t] \in Nat
        BY <2>3, <3>1, <4>1
      <4> QED BY <3>1, <4>1, <4>2
    <3> QED BY <1>q, <2>2, <3>2, <3>3
  <2>5. ASSUME NEW i \in 1 .. Len(queue') PROVE queue'[i][2] <= sent'[queue'[i][1]]
    <3>1. CASE i \in 1 .. Len(queue)
      <4>1. queue'[i] = queue[i] /\ queue[i][2] <= sent[queue[i][1]] /\ queue[i][1] \in Traversals
            /\ queue[i][2] \in Nat
        BY <2>2, <2>3, <3>1
      <4>2. \A u \in Traversals : sent[u] \in Nat /\ sent'[u] \in Nat /\ sent[u] <= sent'[u]
        BY <2>1
      <4> QED BY <4>1, <4>2
    <3>2. CASE i = Len(queue) + 1
      <4>1. queue'[i] = r /\ sent'[t] = sent[t] + 1 /\ sent[t] \in Nat
        BY <2>1, <2>2, <3>2
      <4> QED BY <2>1, <4>1
    <3> QED BY <1>q, <2>2, <3>1, <3>2
  <2> QED BY <2>2, <2>4, <2>5 DEF QueueOK
<1>3. CASE RecvResponse(t)
  <2>1. queue # <<>> /\ queue' = Tail(queue) /\ sent' = sent
    BY <1>3 DEF RecvResponse, Received
  <2>2. /\ queue' \in Seq(Items) /\ Len(queue') = Len(queue) - 1
        /\ \A i \in 1 .. Len(queue') : queue'[i] = queue[i + 1]
    BY <2>1, TailMeans
  <2>3. \A i \in 1 .. Len(queue') : i + 1 \in 1 .. Len(queue)
    BY <1>q, <2>2
  <2>4. \A i, j \in 1 .. Len(queue') : i < j => i + 1 < j + 1
    BY <1>q, <2>2
  <2> QED BY <2>1, <2>2, <2>3, <2>4 DEF QueueOK
<1>4. CASE SendToChannel(t)
  BY <1>4 DEF SendToChannel, clientVars, QueueOK
<1>5. CASE CheckState(t)
  BY <1>5 DEF CheckState, clientVars, QueueOK
<1>6. CASE Read(t)
  BY <1>6 DEF Read, clientVars, QueueOK
<1>7. CASE GiveUp(t)
  BY <1>7 DEF GiveUp, clientVars, QueueOK
<1> QED
  BY <1>1, <1>2, <1>3, <1>4, <1>5, <1>6, <1>7 DEF Step, Loop

\* A traversal gets its id when it starts.
LEMMA IdsStep ==
    ASSUME TypeOK, QueueOK, IdsOK, NEW t \in Traversals, Step(t)
    PROVE  IdsOK'
<1> USE TraverseAssumption DEF TypeOK, IdsOK
<1>1. CASE Start(t)
  <2>1. /\ pc[t] = "new" /\ asyncId' = asyncId + 1 /\ aid' = [aid EXCEPT ![t] = asyncId + 1]
        /\ tag' \in {[tag EXCEPT ![t] = asyncId + 1], [tag EXCEPT ![t] = 0]}
        /\ sent' = sent
        /\ pc'[t] \in {"recv", "refused"}
        /\ \A u \in Traversals : u # t => pc'[u] = pc[u] /\ normal'[u] = normal[u]
    BY <1>1 DEF Start, NextId
  <2>2. \A u \in Traversals : u # t => aid'[u] = aid[u] /\ tag'[u] = tag[u]
    BY <2>1
  <2>3. tag'[t] \in {0, aid'[t]} /\ aid'[t] = asyncId + 1
    BY <2>1
  <2> QED BY <2>1, <2>2, <2>3
<1>2. CASE Arrive(t)
  <2>1. /\ asyncId' = asyncId /\ aid' = aid /\ tag' = tag /\ pc' = pc /\ normal' = normal
        /\ normal[t] /\ \A u \in Traversals : u # t => sent'[u] = sent[u]
    BY <1>2 DEF Arrive
  <2> QED BY <2>1
<1>3. CASE RecvResponse(t)
  <2>1. /\ asyncId' = asyncId /\ aid' = aid /\ tag' = tag /\ sent' = sent
        /\ pc[t] = "recv"
        /\ \A u \in Traversals : ~normal[u] => ~normal'[u]
        /\ \A u \in Traversals : u # t => pc'[u] = pc[u]
        /\ pc'[t] = "recv" \/ (pc'[t] = "send" /\ Mine(t, queue[1]))
    BY <1>3, MineMeans, ItemFacts DEF RecvResponse, Received
  <2>2. Mine(t, queue[1]) => tag[t] = aid[t]
    BY <1>3, MineMeans
  <2> QED BY <2>1, <2>2
<1>4. CASE SendToChannel(t)
  BY <1>4 DEF SendToChannel, clientVars
<1>5. CASE CheckState(t)
  BY <1>5 DEF CheckState, clientVars
<1>6. CASE Read(t)
  BY <1>6 DEF Read, clientVars
<1>7. CASE GiveUp(t)
  BY <1>7 DEF GiveUp, clientVars
<1> QED
  BY <1>1, <1>2, <1>3, <1>4, <1>5, <1>6, <1>7 DEF Step, Loop

\* A goroutine takes the response that is next in line for it.
LEMMA ChannelsStep ==
    ASSUME TypeOK, QueueOK, IdsOK, ChannelsOK, NEW t \in Traversals, Step(t)
    PROVE  ChannelsOK'
<1>t. /\ got \in [Traversals -> Seq(Items)] /\ respCh \in [Traversals -> Seq(Items)]
      /\ hand \in [Traversals -> Items \cup {Nobody}]
  BY DEF ChannelsOK
<1>f. /\ got' \in [Traversals -> Seq(Items)] /\ respCh' \in [Traversals -> Seq(Items)]
      /\ hand' \in [Traversals -> Items \cup {Nobody}]
  <2>1. CASE Start(t) \/ Arrive(t) \/ CheckState(t) \/ GiveUp(t)
    BY <1>t, <2>1 DEF Start, Arrive, CheckState, GiveUp
  <2>2. CASE RecvResponse(t)
    BY <1>t, <2>2, MineMeans DEF RecvResponse
  <2>3. CASE SendToChannel(t)
    <3>1. hand[t] \in Items /\ respCh[t] \in Seq(Items)
      BY <1>t, <2>3, TakenSeq DEF SendToChannel
    <3>2. Append(respCh[t], hand[t]) \in Seq(Items)
      BY <3>1, AppendProperties
    <3> QED BY <1>t, <2>3, <3>2 DEF SendToChannel
  <2>4. CASE Read(t)
    <3>1. got[t] \in Seq(Items) /\ respCh[t] \in Seq(Items) /\ respCh[t] # <<>>
      BY <1>t, <2>4 DEF Read
    <3>2. Head(respCh[t]) \in Items /\ Tail(respCh[t]) \in Seq(Items)
      BY <3>1, HeadTailProperties
    <3>3. Append(got[t], Head(respCh[t])) \in Seq(Items)
      BY <3>1, <3>2, AppendProperties
    <3> QED BY <1>t, <2>4, <3>2, <3>3 DEF Read
  <2> QED BY <2>1, <2>2, <2>3, <2>4 DEF Step, Loop
<1>q. /\ queue \in Seq(Items) /\ Len(queue) \in Nat
      /\ \A k \in 1 .. Len(queue) : queue[k] \in Items /\ queue[k][2] \in Nat
                                    /\ queue[k][1] \in Traversals
  <2>1. /\ queue \in Seq(Items) /\ Len(queue) \in Nat
        /\ \A k \in 1 .. Len(queue) : queue[k] \in Items
    BY LenProperties, ElementOfSeq DEF QueueOK
  <2> QED BY <2>1, ItemFacts, Zenon
<1> SUFFICES ASSUME NEW u \in Traversals
             PROVE  /\ \A i \in 1 .. Len(Taken(u)') :
                          Taken(u)'[i][1] = u /\ Taken(u)'[i][2] <= sent'[u]
                    /\ \A i, j \in 1 .. Len(Taken(u)') :
                          i < j => Taken(u)'[i][2] < Taken(u)'[j][2]
                    /\ \A i \in 1 .. Len(Taken(u)'), k \in 1 .. Len(queue') :
                          queue'[k][1] = u => Taken(u)'[i][2] < queue'[k][2]
  BY <1>f DEF ChannelsOK
<1>1. PICK old \in Seq(Items) : old = Taken(u)
  BY TakenSeq
<1>2. /\ Len(old) \in Nat
      /\ \A i \in 1 .. Len(old) : old[i] \in Items /\ old[i][2] \in Nat
  <2>1. Len(old) \in Nat /\ \A i \in 1 .. Len(old) : old[i] \in Items
    BY LenProperties, ElementOfSeq
  <2> QED BY <2>1, ItemFacts, Zenon
<1>3. /\ \A i \in 1 .. Len(old) : old[i][1] = u /\ old[i][2] <= sent[u]
      /\ \A i, j \in 1 .. Len(old) : i < j => old[i][2] < old[j][2]
      /\ \A i \in 1 .. Len(old), k \in 1 .. Len(queue) : queue[k][1] = u => old[i][2] < queue[k][2]
  BY <1>1 DEF ChannelsOK
<1>s. \A v \in Traversals : sent[v] \in Nat /\ sent'[v] \in Nat /\ sent[v] <= sent'[v]
  <2>1. sent \in [Traversals -> Nat]
    BY TraverseAssumption DEF TypeOK
  <2>2. sent' = sent \/ sent' = [sent EXCEPT ![t] = @ + 1]
    BY DEF Step, Loop, Start, Arrive, RecvResponse, SendToChannel, CheckState, Read, GiveUp,
       clientVars
  <2> QED BY <2>1, <2>2
\* A response that waits later on is one that waits now or a new one.
<1>n. ASSUME NEW k \in 1 .. Len(queue')
      PROVE  \/ \E m \in 1 .. Len(queue) : queue'[k] = queue[m] /\ (RecvResponse(t) => m > 1)
             \/ queue'[k] = <<t, sent[t] + 1>> /\ Arrive(t)
  <2>1. CASE Arrive(t)
    <3>1. queue' = Append(queue, <<t, sent[t] + 1>>) /\ <<t, sent[t] + 1>> \in Items
      BY <2>1, TraverseAssumption DEF Arrive, TypeOK, Items
    <3>2. /\ Len(queue') = Len(queue) + 1 /\ queue'[Len(queue) + 1] = <<t, sent[t] + 1>>
          /\ \A i \in 1 .. Len(queue) : queue'[i] = queue[i]
      BY <1>q, <3>1, AppendProperties
    <3>3. ~RecvResponse(t)
      <4>1. sent'[t] # sent[t]
        BY <2>1, TraverseAssumption DEF Arrive, TypeOK
      <4> QED BY <4>1 DEF RecvResponse
    <3> QED BY <1>q, <2>1, <3>2, <3>3
  <2>2. CASE RecvResponse(t)
    <3>1. queue' = Tail(queue) /\ queue # <<>>
      BY <2>2 DEF RecvResponse, Received
    <3>2. Len(queue') = Len(queue) - 1 /\ queue'[k] = queue[k + 1]
      BY <3>1, TailMeans
    <3>3. k + 1 \in 1 .. Len(queue) /\ k + 1 > 1
      BY <1>q, <3>2
    <3> QED BY <3>2, <3>3
  <2>3. CASE ~Arrive(t) /\ ~RecvResponse(t)
    <3>1. queue' = queue
      BY <2>3 DEF Step, Loop, Start, SendToChannel, CheckState, Read, GiveUp, clientVars
    <3> QED BY <2>3, <3>1
  <2> QED BY <2>1, <2>2, <2>3
<1>4. CASE u = t /\ RecvResponse(t) /\ Mine(t, queue[1])
  <2>1. PICK r \in Items : r = queue[1] /\ r[1] = t
    BY <1>4, MineMeans
  <2>2. /\ Taken(u)' = Append(old, r) /\ 1 \in 1 .. Len(queue) /\ r[2] \in Nat
        /\ r[2] <= sent[u] /\ sent' = sent
    <3>1. Taken(u)' = Append(old, r)
      BY <1>1, <1>4, <2>1, TakenStep
    <3>2. 1 \in 1 .. Len(queue) /\ r[2] \in Nat
      BY <1>4, <1>q, <2>1, MineMeans
    <3>3. r[2] <= sent[u]
      BY <1>4, <2>1, <3>2 DEF QueueOK
    <3> QED BY <1>4, <3>1, <3>2, <3>3 DEF RecvResponse
  <2>3. PICK new \in Seq(Items) :
            /\ new = Taken(u)' /\ Len(new) = Len(old) + 1 /\ new[Len(old) + 1] = r
            /\ \A i \in 1 .. Len(old) : new[i] = old[i]
    BY <2>2, AppendProperties
  <2>4. \A i \in 1 .. Len(old) : old[i][2] < r[2]
    BY <1>3, <1>4, <2>1, <2>2
  <2>5. \A i \in 1 .. Len(new) : new[i][1] = u /\ new[i][2] <= sent'[u]
    BY <1>2, <1>3, <1>4, <2>1, <2>2, <2>3
  <2>6. \A i, j \in 1 .. Len(new) : i < j => new[i][2] < new[j][2]
    BY <1>2, <1>3, <2>3, <2>4
  <2>7. ASSUME NEW i \in 1 .. Len(new), NEW k \in 1 .. Len(queue'), queue'[k][1] = u
        PROVE  new[i][2] < queue'[k][2]
    <3>1. ~Arrive(t)
      <4>1. sent'[t] = sent[t]
        BY <2>2
      <4> QED BY <4>1, <1>s DEF Arrive, TypeOK
    <3>2. PICK m \in 1 .. Len(queue) : queue'[k] = queue[m] /\ m > 1
      BY <1>4, <1>n, <3>1
    <3>3. r[2] < queue[m][2]
      BY <1>4, <2>1, <2>2, <2>7, <3>2 DEF QueueOK
    <3>4. new[i][2] <= r[2] /\ new[i][2] \in Nat
      BY <1>2, <2>2, <2>3, <2>4
    <3> QED BY <1>q, <2>2, <3>2, <3>3, <3>4
  <2> QED BY <2>3, <2>5, <2>6, <2>7
<1>5. CASE ~(u = t /\ RecvResponse(t) /\ Mine(t, queue[1]))
  <2>1. Taken(u)' = old
    BY <1>1, <1>5, TakenStep
  <2>2. \A i \in 1 .. Len(old) : old[i][1] = u /\ old[i][2] <= sent'[u]
    BY <1>2, <1>3, <1>s
  <2>3. ASSUME NEW i \in 1 .. Len(old), NEW k \in 1 .. Len(queue'), queue'[k][1] = u
        PROVE  old[i][2] < queue'[k][2]
    <3>1. CASE \E m \in 1 .. Len(queue) : queue'[k] = queue[m]
      BY <1>3, <2>3, <3>1
    <3>2. CASE queue'[k] = <<t, sent[t] + 1>>
      <4>1. u = t /\ queue'[k][2] = sent[u] + 1
        BY <2>3, <3>2
      <4> QED BY <1>2, <1>3, <1>s, <4>1
    <3> QED BY <1>n, <3>1, <3>2
  <2> QED BY <1>3, <2>1, <2>2, <2>3
<1> QED BY <1>4, <1>5

\* What WholeOK says of the responses of one traversal.
Prefix(u) ==
    /\ \A i \in 1 .. Len(Taken(u)) : Taken(u)[i] = <<u, i>>
    /\ u \in Running => \A n \in Len(Taken(u)) + 1 .. sent[u] :
                           \E i \in 1 .. Len(queue) : queue[i] = <<u, n>>
    /\ ~normal[u] => Len(Taken(u)) = Responses
    /\ pc[u] = "closed" => ~normal[u]

\* The goroutine that is alone takes the response with the next number.
LEMMA NextNumber ==
    ASSUME TypeOK, QueueOK, IdsOK, ChannelsOK, NEW t \in Traversals, RecvResponse(t), Prefix(t),
           queue[1][1] = t
    PROVE  queue[1] = <<t, Len(Taken(t)) + 1>>
<1>1. Head(queue) = queue[1] /\ queue[1] \in Items /\ Len(queue) \in Nat \ {0}
  BY MineMeans
<1>2. PICK n \in 1 .. Responses : queue[1] = <<t, n>>
  BY <1>1 DEF Items
<1>3. n \in Nat /\ n <= sent[t] /\ sent[t] \in Nat
  BY <1>1, <1>2, TraverseAssumption DEF QueueOK, TypeOK
<1>4. PICK l \in Nat : l = Len(Taken(t))
  BY TakenSeq, LenProperties
<1>5. l < n
  <2>1. CASE l = 0
    BY <1>2, <2>1, TraverseAssumption
  <2>2. CASE l > 0
    <3>1. l \in 1 .. Len(Taken(t)) /\ 1 \in 1 .. Len(queue)
      BY <1>1, <1>4, <2>2
    <3>2. Taken(t)[l] = <<t, l>>
      BY <3>1 DEF Prefix
    <3>3. Taken(t)[l][2] < queue[1][2]
      BY <1>2, <3>1 DEF ChannelsOK
    <3> QED BY <1>2, <3>2, <3>3
  <2> QED BY <1>4, <2>1, <2>2
<1>6. n <= l + 1
  <2> SUFFICES ASSUME n > l + 1 PROVE FALSE
    BY <1>3, <1>4
  <2>1. t \in Running /\ l + 1 \in Len(Taken(t)) + 1 .. sent[t]
    BY <1>3, <1>4 DEF RecvResponse, Running
  <2>2. PICK i \in 1 .. Len(queue) : queue[i] = <<t, l + 1>>
    BY <2>1 DEF Prefix
  <2>3. i # 1 /\ 1 \in 1 .. Len(queue)
    BY <1>1, <1>2, <1>3, <1>4, <2>2
  <2>4. queue[1][2] < queue[i][2]
    BY <1>2, <2>2, <2>3 DEF QueueOK
  <2> QED BY <1>2, <1>3, <1>4, <2>2, <2>4
<1> QED BY <1>2, <1>3, <1>4, <1>5, <1>6

\* A step that touches neither the responses nor the traverser of u keeps its prefix.
LEMMA PrefixKept ==
    ASSUME NEW u \in Traversals, Prefix(u), Taken(u)' = Taken(u), sent'[u] = sent[u],
           normal'[u] <=> normal[u], pc'[u] = "closed" => pc[u] = "closed" \/ ~normal[u],
           u \in Running' => u \in Running /\ queue' = queue
    PROVE  Prefix(u)'
  BY DEF Prefix

\* The responses that are left stay in the queue when another one is received.
LEMMA RestWaits ==
    ASSUME QueueOK, queue # <<>>, queue' = Tail(queue), NEW x,
           \E i \in 1 .. Len(queue) : queue[i] = x, queue[1] # x
    PROVE  \E i \in 1 .. Len(queue') : queue'[i] = x
<1>1. /\ Len(queue') = Len(queue) - 1
      /\ \A i \in 1 .. Len(queue') : queue'[i] = queue[i + 1]
  BY TailMeans
<1>2. Len(queue) \in Nat
  BY LenProperties DEF QueueOK
<1>3. PICK i \in 1 .. Len(queue) : queue[i] = x /\ i # 1
  OBVIOUS
<1>4. i - 1 \in 1 .. Len(queue') /\ (i - 1) + 1 = i
  BY <1>1, <1>2, <1>3
<1>5. queue'[i - 1] = x
  BY <1>1, <1>3, <1>4
<1> QED BY <1>4, <1>5

\* A traversal that is alone loses none of its responses.
LEMMA WholeStep ==
    ASSUME TypeOK, QueueOK, IdsOK, ChannelsOK, WholeOK, NEW t \in Traversals, Step(t)
    PROVE  WholeOK'
<1> SUFFICES ASSUME NEW u \in Traversals, Alone(u)'
             PROVE  /\ u \in Running' => Running' = {u}
                    /\ tag'[u] = aid'[u] => Prefix(u)'
  BY DEF WholeOK, Prefix
<1>a. Alone(u) => /\ u \in Running => Running = {u}
                  /\ tag[u] = aid[u] => Prefix(u)
  BY DEF WholeOK, Prefix
<1>t. /\ pc \in [Traversals -> {"new", "recv", "send", "check", "closed", "refused"}]
      /\ alone \in [Traversals -> BOOLEAN] /\ normal \in [Traversals -> BOOLEAN]
      /\ sent \in [Traversals -> Nat] /\ aid \in [Traversals -> Nat] /\ tag \in [Traversals -> Nat]
  BY TraverseAssumption DEF TypeOK
<1>l. PICK l \in Nat : l = Len(Taken(u))
  BY TakenSeq, LenProperties
<1>r. ASSUME RecvResponse(t) PROVE queue' # queue
  <2>1. queue \in Seq(Items) /\ queue # <<>> /\ queue' = Tail(queue)
    BY <1>r DEF RecvResponse, Received, QueueOK
  <2>2. Len(queue') = Len(queue) - 1 /\ Len(queue) \in Nat
    BY <2>1, HeadTailProperties, LenProperties
  <2> QED BY <2>2
<1>1. CASE Start(t)
  <2>1. /\ pc[t] = "new" /\ sent' = sent /\ queue' = queue
        /\ \A v \in Traversals : v # t => /\ pc'[v] = pc[v] /\ normal'[v] = normal[v]
                                          /\ tag'[v] = tag[v] /\ aid'[v] = aid[v]
    BY <1>1, <1>t DEF Start
  <2>2. \/ /\ pc'[t] = "recv" /\ normal'[t]
           /\ alone'[u] => alone[u] /\ u \notin Running /\ (u = t => Running = {})
        \/ pc'[t] = "refused" /\ alone' = alone
    BY <1>1, <1>t DEF Start
  <2>3. ~RecvResponse(t) /\ Taken(u)' = Taken(u)
    BY <1>1, <2>1, TakenStep DEF RecvResponse, Step
  <2>4. CASE u = t
    <3>1. pc'[t] = "recv" /\ normal'[t] /\ Running = {} /\ sent[t] = 0
      BY <2>1, <2>2, <2>4 DEF Alone, IdsOK
    <3>2. Running' = {t}
      BY <2>1, <3>1 DEF Running
    <3>3. l = 0
      <4> SUFFICES ASSUME l > 0 PROVE FALSE
        BY <1>l
      <4>1. 1 \in 1 .. Len(Taken(t))
        BY <1>l, <2>4
      <4>2. Taken(t)[1][2] <= 0
        BY <3>1, <4>1 DEF ChannelsOK
      <4>3. Taken(t)[1] \in Items
        BY <4>1, TakenSeq, ElementOfSeq
      <4>4. PICK v \in Traversals, n \in 1 .. Responses : Taken(t)[1] = <<v, n>>
        BY <4>3 DEF Items
      <4> QED BY <4>2, <4>4, TraverseAssumption
    <3>4. Prefix(u)'
      BY <1>l, <2>1, <2>3, <2>4, <3>1, <3>3 DEF Prefix
    <3> QED BY <2>4, <3>2, <3>4
  <2>5. CASE u # t
    <3>1. Alone(u)
      BY <2>1, <2>2, <2>5 DEF Alone
    <3>2. u \in Running' => pc'[t] = "refused" /\ u \in Running
      BY <2>1, <2>2, <2>5 DEF Alone, Running
    <3>3. u \in Running' => Running' = Running
      BY <2>1, <3>2 DEF Running
    <3>4. tag[u] = aid[u] => Prefix(u)'
      BY <1>a, <2>1, <2>3, <2>5, <3>1, <3>2, PrefixKept
    <3> QED BY <1>a, <2>1, <2>5, <3>1, <3>2, <3>3, <3>4
  <2> QED BY <2>4, <2>5
<1>2. CASE Arrive(t)
  <2>1. /\ pc' = pc /\ normal' = normal /\ tag' = tag /\ aid' = aid /\ alone' = alone
        /\ normal[t] /\ sent' = [sent EXCEPT ![t] = @ + 1] /\ sent[t] < Responses
        /\ queue' = Append(queue, <<t, sent[t] + 1>>)
    BY <1>2 DEF Arrive
  <2>2. /\ Len(queue) \in Nat /\ Len(queue') = Len(queue) + 1
        /\ \A i \in 1 .. Len(queue) : queue'[i] = queue[i]
        /\ queue'[Len(queue) + 1] = <<t, sent[t] + 1>>
    <3>1. queue \in Seq(Items) /\ Len(queue) \in Nat
      BY LenProperties DEF QueueOK
    <3>2. <<t, sent[t] + 1>> \in Items
      BY <1>t, <2>1, TraverseAssumption DEF Items
    <3> QED BY <2>1, <3>1, <3>2, AppendProperties
  <2>3. Taken(u)' = Taken(u)
    <3>1. sent'[t] # sent[t]
      BY <1>t, <2>1
    <3>2. ~RecvResponse(t)
      BY <3>1 DEF RecvResponse
    <3> QED BY <1>2, <3>2, TakenStep DEF Step
  <2>4. Alone(u) /\ Running' = Running
    BY <2>1 DEF Alone, Running
  <2>5. ASSUME tag[u] = aid[u], u \in Running, NEW n \in l + 1 .. sent'[u]
        PROVE  \E i \in 1 .. Len(queue') : queue'[i] = <<u, n>>
    <3>1. CASE n <= sent[u]
      <4>1. n \in Len(Taken(u)) + 1 .. sent[u]
        BY <1>t, <1>l, <2>5, <3>1
      <4>2. PICK i \in 1 .. Len(queue) : queue[i] = <<u, n>>
        BY <1>a, <2>4, <2>5, <4>1 DEF Prefix
      <4>3. i \in 1 .. Len(queue')
        BY <2>2
      <4> QED BY <2>2, <4>2, <4>3
    <3>2. CASE n > sent[u]
      <4>1. u = t /\ n = sent[t] + 1
        BY <1>t, <1>l, <2>1, <2>5, <3>2
      <4>2. Len(queue) + 1 \in 1 .. Len(queue')
        BY <2>2
      <4> QED BY <2>2, <4>1, <4>2
    <3>3. n \in Int /\ sent[u] \in Nat
      BY <1>t
    <3> QED BY <3>1, <3>2, <3>3
  <2>6. tag[u] = aid[u] => Prefix(u)'
    BY <1>a, <1>l, <2>1, <2>3, <2>4, <2>5 DEF Prefix
  <2> QED BY <1>a, <2>1, <2>4, <2>6
<1>3. CASE RecvResponse(t)
  <2>1. /\ tag' = tag /\ aid' = aid /\ alone' = alone /\ sent' = sent /\ pc[t] = "recv"
        /\ queue # <<>> /\ queue' = Tail(queue)
        /\ \A v \in Traversals : v # t => pc'[v] = pc[v]
        /\ pc'[t] \in {"recv", "send"} /\ (pc'[t] = "send" => Mine(t, queue[1]))
    BY <1>3, <1>t, MineMeans DEF RecvResponse, Received
  <2>2. PICK r \in Items : r = queue[1]
    BY <1>3, MineMeans
  <2>3. r[1] \in Traversals /\ r[2] \in 1 .. Responses
    BY ItemFacts
  <2>4. /\ normal' = [normal EXCEPT ![r[1]] = @ /\ r[2] < Responses]
        /\ Mine(t, r) <=> r[1] = t /\ tag[t] = aid[t]
    BY <1>3, <2>2, MineMeans DEF RecvResponse, Received
  <2>5. Running' = Running /\ t \in Running
    BY <2>1 DEF Running
  <2>6. Alone(u)
    BY <1>t, <2>1 DEF Alone
  <2>7. CASE u # t
    <3>1. pc[u] = "closed" /\ u \notin Running
      BY <1>a, <2>5, <2>6, <2>7 DEF Alone, Running
    <3>2. Taken(u)' = Taken(u)
      BY <1>3, <2>7, TakenStep DEF Step
    <3>3. tag[u] = aid[u] => Prefix(u) /\ ~normal[u] /\ ~normal'[u]
      BY <1>a, <1>t, <2>3, <2>4, <2>6, <3>1 DEF Prefix
    <3>4. tag[u] = aid[u] => Prefix(u)'
      BY <2>1, <2>5, <2>7, <3>1, <3>2, <3>3, PrefixKept
    <3> QED BY <2>1, <2>5, <3>1, <3>4
  <2>8. ASSUME u = t, tag[t] = aid[t], Mine(t, r) PROVE Prefix(u)'
    <3>1. Prefix(t) /\ r[1] = t
      BY <1>a, <2>4, <2>6, <2>8
    <3>2. r = <<t, l + 1>> /\ r[2] = l + 1
      <4>1. r = <<t, l + 1>>
        BY <1>3, <1>l, <2>2, <2>8, <3>1, NextNumber
      <4> QED BY <4>1
    <3>3. Taken(u)' = Append(Taken(u), r)
      BY <1>3, <2>2, <2>8, TakenStep DEF Step
    <3>4. /\ Len(Taken(u)') = l + 1 /\ Taken(u)'[l + 1] = r
          /\ \A i \in 1 .. l : Taken(u)'[i] = Taken(u)[i]
      BY <1>l, <3>3, TakenSeq, AppendProperties
    <3>5. \A i \in 1 .. Len(Taken(u)') : Taken(u)'[i] = <<u, i>>
      BY <1>l, <2>8, <3>1, <3>2, <3>4 DEF Prefix
    <3>6. ASSUME NEW n \in Len(Taken(u)') + 1 .. sent'[u]
          PROVE  \E i \in 1 .. Len(queue') : queue'[i] = <<u, n>>
      <4>1. n \in Len(Taken(u)) + 1 .. sent[u] /\ n # l + 1
        BY <1>l, <1>t, <2>1, <3>4
      <4>2. queue[1] # <<u, n>> /\ u \in Running
        BY <2>2, <2>5, <2>8, <3>2, <4>1
      <4>3. \E i \in 1 .. Len(queue) : queue[i] = <<u, n>>
        BY <2>8, <3>1, <4>1, <4>2 DEF Prefix
      <4> QED BY <2>1, <4>2, <4>3, RestWaits
    <3>7. ~normal'[u] => Len(Taken(u)') = Responses
      <4>1. normal[t]
        <5> SUFFICES ASSUME ~normal[t] PROVE FALSE
          OBVIOUS
        <5>1. l = Responses
          BY <1>l, <2>8, <3>1 DEF Prefix
        <5> QED BY <2>3, <3>2, <5>1, TraverseAssumption
      <4>2. normal'[t] <=> r[2] < Responses
        BY <1>t, <2>4, <3>1, <4>1
      <4> QED BY <2>3, <2>8, <3>2, <3>4, <4>2, TraverseAssumption
    <3> QED BY <2>1, <2>8, <3>5, <3>6, <3>7 DEF Prefix
  <2>9. ASSUME u = t, tag[t] = aid[t], ~Mine(t, r) PROVE Prefix(u)'
    <3>1. Prefix(t) /\ r[1] # t
      BY <1>a, <2>4, <2>6, <2>9
    <3>2. Taken(u)' = Taken(u) /\ normal'[u] = normal[u]
      BY <1>3, <1>t, <2>2, <2>4, <2>9, <3>1, TakenStep DEF Step
    <3>3. ASSUME NEW n \in Len(Taken(u)) + 1 .. sent[u]
          PROVE  \E i \in 1 .. Len(queue') : queue'[i] = <<u, n>>
      <4>1. queue[1] # <<u, n>>
        BY <2>2, <2>9, <3>1
      <4>2. \E i \in 1 .. Len(queue) : queue[i] = <<u, n>>
        BY <2>5, <2>9, <3>1, <3>3 DEF Prefix
      <4> QED BY <2>1, <4>1, <4>2, RestWaits
    <3> QED BY <2>1, <2>9, <3>1, <3>2, <3>3 DEF Prefix
  <2> QED BY <1>a, <2>1, <2>5, <2>6, <2>7, <2>8, <2>9
<1>4. CASE SendToChannel(t)
  <2>1. /\ tag' = tag /\ aid' = aid /\ alone' = alone /\ sent' = sent /\ queue' = queue
        /\ normal' = normal
        /\ \A v \in Traversals : pc'[v] = pc[v] \/ (pc[v] = "send" /\ pc'[v] = "check")
    BY <1>4, <1>t DEF SendToChannel, clientVars
  <2>2. Taken(u)' = Taken(u)
    <3>1. ~RecvResponse(t)
      BY <1>r, <2>1
    <3> QED BY <1>4, <3>1, TakenStep DEF Step, Loop
  <2>3. Running' = Running /\ Alone(u) /\ (pc'[u] = "closed" <=> pc[u] = "closed")
    BY <2>1 DEF Running, Alone
  <2>4. tag[u] = aid[u] => Prefix(u)'
    BY <1>a, <2>1, <2>2, <2>3, PrefixKept
  <2> QED BY <1>a, <2>1, <2>3, <2>4
<1>5. CASE CheckState(t)
  <2>1. /\ tag' = tag /\ aid' = aid /\ alone' = alone /\ sent' = sent /\ queue' = queue
        /\ normal' = normal /\ pc[t] = "check"
        /\ \A v \in Traversals : v # t => pc'[v] = pc[v]
        /\ IF normal[t] THEN pc'[t] = "recv" ELSE pc'[t] = "closed"
    BY <1>5, <1>t DEF CheckState, clientVars, Ended
  <2>2. Taken(u)' = Taken(u)
    <3>1. ~RecvResponse(t)
      BY <2>1 DEF RecvResponse
    <3> QED BY <1>5, <3>1, TakenStep DEF Step, Loop
  <2>3. Alone(u)
    BY <1>t, <2>1 DEF Alone
  <2>4. u \in Running' => u \in Running
    BY <1>t, <2>1 DEF Running
  <2>5. u \in Running' => Running' = {u}
    <3> SUFFICES ASSUME u \in Running' PROVE Running' = {u}
      OBVIOUS
    <3>1. Running = {u} /\ t \in Running
      BY <1>a, <2>1, <2>3, <2>4 DEF Running
    <3>2. \A v \in Traversals : v \in Running' => v \in Running
      BY <1>t, <2>1 DEF Running
    <3> QED BY <3>1, <3>2 DEF Running
  <2>6. tag[u] = aid[u] => Prefix(u)'
    BY <1>a, <1>t, <2>1, <2>2, <2>3, <2>4, PrefixKept
  <2> QED BY <2>1, <2>5, <2>6
<1>6. CASE Read(t)
  <2>1. /\ tag' = tag /\ aid' = aid /\ alone' = alone /\ sent' = sent /\ queue' = queue
        /\ normal' = normal
        /\ \A v \in Traversals : pc'[v] = pc[v] \/ (pc[v] = "send" /\ pc'[v] = "check")
    BY <1>6, <1>t DEF Read, clientVars
  <2>2. Taken(u)' = Taken(u)
    <3>1. ~RecvResponse(t)
      BY <1>r, <2>1
    <3> QED BY <1>6, <3>1, TakenStep DEF Step, Loop
  <2>3. Running' = Running /\ Alone(u) /\ (pc'[u] = "closed" <=> pc[u] = "closed")
    BY <2>1 DEF Running, Alone
  <2>4. tag[u] = aid[u] => Prefix(u)'
    BY <1>a, <2>1, <2>2, <2>3, PrefixKept
  <2> QED BY <1>a, <2>1, <2>3, <2>4
<1>7. CASE GiveUp(t)
  <2>1. /\ tag' = tag /\ aid' = aid /\ alone' = alone /\ sent' = sent /\ queue' = queue
        /\ normal' = normal
        /\ \A v \in Traversals : pc'[v] = pc[v] \/ (pc[v] = "send" /\ pc'[v] = "check")
    BY <1>7, <1>t DEF GiveUp, clientVars
  <2>2. Taken(u)' = Taken(u)
    <3>1. ~RecvResponse(t)
      BY <1>r, <2>1
    <3> QED BY <1>7, <3>1, TakenStep DEF Step, Loop
  <2>3. Running' = Running /\ Alone(u) /\ (pc'[u] = "closed" <=> pc[u] = "closed")
    BY <2>1 DEF Running, Alone
  <2>4. tag[u] = aid[u] => Prefix(u)'
    BY <1>a, <2>1, <2>2, <2>3, PrefixKept
  <2> QED BY <1>a, <2>1, <2>3, <2>4
<1> QED
  BY <1>1, <1>2, <1>3, <1>4, <1>5, <1>6, <1>7 DEF Step, Loop

---------------------------------------------------------------------------
(* The theorems.                                                           *)

\* It holds before the first Traverse.
LEMMA TraverseInit == Init => TraverseInv
<1> SUFFICES ASSUME Init PROVE TraverseInv
  OBVIOUS
<1>1. <<>> \in Seq(Items) /\ Len(<<>>) = 0 /\ <<>> \o <<>> = <<>>
  BY EmptySeq, ConcatEmptySeq
<1>2. \A t \in Traversals : Taken(t) = <<>>
  BY <1>1 DEF Init, Taken, Delivered
<1>3. TypeOK
  <2>1. /\ asyncId \in Nat /\ aid \in [Traversals -> Nat] /\ tag \in [Traversals -> Nat]
        /\ sent \in [Traversals -> 0 .. Responses]
        /\ \A t \in Traversals : Len(respCh[t]) <= Capacity
    BY <1>1, TraverseAssumption DEF Init
  <2>2. /\ pc \in [Traversals -> {"new", "recv", "send", "check", "closed", "refused"}]
        /\ \A t \in Traversals : pc[t] = "new"
        /\ DOMAIN queue = {}
    BY DEF Init
  <2>3. /\ normal \in [Traversals -> BOOLEAN] /\ reading \in [Traversals -> BOOLEAN]
        /\ alone \in [Traversals -> BOOLEAN] /\ failing \in BOOLEAN
    BY DEF Init
  <2> QED BY <2>1, <2>2, <2>3 DEF TypeOK
<1>4. QueueOK
  BY <1>1 DEF Init, QueueOK
<1>5. IdsOK
  <2>1. \A t \in Traversals : ~normal[t]
    BY Zenon DEF Init
  <2>2. \A t \in Traversals : aid[t] = 0 /\ tag[t] = 0 /\ sent[t] = 0 /\ pc[t] = "new"
    BY DEF Init
  <2>3. \A t \in Traversals : aid[t] <= asyncId
    <3> TAKE t \in Traversals
    <3>1. asyncId \in Nat /\ aid[t] = asyncId
      BY DEF Init
    <3> QED BY <3>1
  <2> QED BY <2>1, <2>2, <2>3, Zenon DEF IdsOK
<1>6. ChannelsOK
  BY <1>1, <1>2 DEF Init, ChannelsOK
<1>7. WholeOK
  BY DEF Init, WholeOK, Alone
<1> QED BY <1>3, <1>4, <1>5, <1>6, <1>7 DEF TraverseInv

\* Every step keeps TraverseInv: one lemma for each part of it, and the histories.
LEMMA TraverseStep == TraverseInv /\ [Next]_vars => TraverseInv'
<1> SUFFICES ASSUME TraverseInv, [Next]_vars PROVE TraverseInv'
  OBVIOUS
<1> USE DEF TraverseInv
<1>1. ASSUME NEW t \in Traversals, Step(t) PROVE TraverseInv'
  <2>1. QueueOK' /\ IdsOK' /\ ChannelsOK' /\ WholeOK'
    BY <1>1, QueueStep, IdsStep, ChannelsStep, WholeStep
  <2> QED BY <1>1, <2>1, TypesStep
<1>2. CASE Fail \/ UNCHANGED vars
  <2>1. /\ UNCHANGED <<asyncId, aid, tag, sent, queue, normal, pc, hand, respCh, got, reading, alone>>
        /\ failing' \in BOOLEAN
    BY <1>2 DEF Fail, vars, clientVars, TypeOK
  <2>2. Running' = Running /\ \A u \in Traversals : Taken(u)' = Taken(u) /\ Alone(u)' = Alone(u)
    BY <2>1 DEF Running, Taken, Delivered, Alone
  <2>3. TypeOK'
    BY <2>1 DEF TypeOK
  <2>4. QueueOK'
    BY <2>1 DEF QueueOK
  <2>5. IdsOK'
    BY <2>1 DEF IdsOK
  <2>6. ChannelsOK'
    BY <2>1, <2>2 DEF ChannelsOK
  <2>7. WholeOK'
    BY <2>1, <2>2 DEF WholeOK
  <2> QED BY <2>3, <2>4, <2>5, <2>6, <2>7
<1> QED BY <1>1, <1>2 DEF Next, Step

\* What the goroutines of Operate keep, whatever the client library delivers and fails.
THEOREM TraverseInductive == Spec => []TraverseInv
  BY TraverseInit, TraverseStep, PTL DEF Spec

\* Ids, channels and states keep their types; no two traversals share an id, and no channel
\* holds more than its capacity.
THEOREM TraverseTypes == Spec => []TypeOK
<1>1. TraverseInv => TypeOK
  BY DEF TraverseInv
<1> QED BY <1>1, TraverseInductive, PTL

\* A channel carries the responses of its own traversal only, in order and none twice.
THEOREM TraverseOwnInOrder == Spec => []OwnInOrder
<1>1. TraverseInv => OwnInOrder
  <2> SUFFICES ASSUME TraverseInv, NEW t \in Traversals, NEW i \in DOMAIN Delivered(t)
               PROVE  /\ Delivered(t)[i][1] = t
                      /\ i > 1 => Delivered(t)[i - 1][2] < Delivered(t)[i][2]
    BY DEF OwnInOrder
  <2> USE DEF TraverseInv
  <2>1. /\ Delivered(t) \in Seq(Items) /\ Len(Delivered(t)) \in Nat
        /\ DOMAIN Delivered(t) = 1 .. Len(Delivered(t))
    BY TakenSeq, LenProperties
  <2>2. Len(Taken(t)) >= Len(Delivered(t)) /\ Len(Taken(t)) \in Nat
    BY <2>1, TakenSeq, AppendProperties DEF Taken
  <2>3. \A j \in 1 .. Len(Delivered(t)) : Taken(t)[j] = Delivered(t)[j]
    BY <2>1, TakenSeq, AppendProperties DEF Taken
  <2>4. i \in 1 .. Len(Taken(t)) /\ i \in 1 .. Len(Delivered(t))
    BY <2>1, <2>2
  <2>5. Delivered(t)[i][1] = t
    BY <2>3, <2>4 DEF ChannelsOK
  <2>6. ASSUME i > 1 PROVE Delivered(t)[i - 1][2] < Delivered(t)[i][2]
    <3>1. i - 1 \in 1 .. Len(Taken(t)) /\ i - 1 \in 1 .. Len(Delivered(t)) /\ i - 1 < i
      BY <2>1, <2>2, <2>4, <2>6
    <3>2. Taken(t)[i - 1][2] < Taken(t)[i][2]
      BY <2>4, <3>1 DEF ChannelsOK
    <3> QED BY <2>3, <2>4, <3>1, <3>2
  <2> QED BY <2>5, <2>6
<1> QED BY <1>1, TraverseInductive, PTL

\* A channel that is closed has carried the whole table, if no other goroutine was receiving.
THEOREM TraverseClosedIsComplete == Spec => []ClosedIsComplete
<1>1. TraverseInv => ClosedIsComplete
  <2> SUFFICES ASSUME TraverseInv, NEW t \in Traversals, pc[t] = "closed", alone[t]
               PROVE  Len(Delivered(t)) = Responses
    BY DEF ClosedIsComplete
  <2>1. Alone(t) /\ tag[t] = aid[t] /\ Taken(t) = Delivered(t)
    BY DEF Alone, TraverseInv, IdsOK, Taken
  <2> QED BY <2>1 DEF TraverseInv, WholeOK
<1> QED BY <1>1, TraverseInductive, PTL
==========================================================================
