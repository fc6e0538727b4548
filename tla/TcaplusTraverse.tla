------------------------- MODULE TcaplusTraverse -------------------------
(***************************************************************************)
(* Asynchronous traversals of the Tcaplus driver: Operate starts a         *)
(* traverser and a goroutine that takes responses from the client, which   *)
(* all traversals share, and passes those with its own asynchronous id to  *)
(* the channel that the application reads.                                 *)
(*                                                                         *)
(* The client library is not part of the repository.  As the loop uses it, *)
(* RecvResponse returns the oldest response that has arrived, and the      *)
(* state of a traverser leaves Normal when RecvResponse returns its last   *)
(* one, to whomever.                                                       *)
(***************************************************************************)
EXTENDS Integers, Sequences

CONSTANTS
    Traversals,   \* calls of Operate
    Responses,    \* number of responses of a traversal
    Capacity      \* size of the channel

ASSUME TraverseAssumption == Responses \in Nat \ {0} /\ Capacity \in Nat \ {0}

VARIABLES
    asyncId,   \* Driver.asyncId
    aid,       \* aid[t]: the id of traversal t
    tag,       \* tag[t]: the id its responses carry, 0 when SetAsyncId failed
    sent,      \* sent[t]: responses that have arrived at the client
    queue,     \* those not received, as <<traversal, number>>
    normal,    \* normal[t]: the state of its traverser is Normal
    pc,        \* pc[t]: where the goroutine of t is
    hand,      \* hand[t]: the response it holds
    respCh,    \* respCh[t]: the channel
    got,       \* got[t]: what the application has read from it
    reading,   \* reading[t]: the application still reads
    alone,     \* alone[t]: no other goroutine was receiving since t began (history)
    failing    \* RecvResponse fails from now on

clientVars == <<asyncId, aid, tag, sent, queue, normal, failing>>
vars == <<clientVars, pc, hand, respCh, got, reading, alone>>

Nobody  == <<>>
Running == {t \in Traversals : pc[t] \in {"recv", "send", "check"}}

TypeOK ==
    /\ asyncId \in Nat
    /\ aid \in [Traversals -> Nat] /\ tag \in [Traversals -> Nat]
    /\ \A t, u \in Traversals : pc[t] # "new" /\ pc[u] # "new" /\ aid[t] = aid[u] => t = u
    /\ sent \in [Traversals -> 0 .. Responses]
    /\ \A i \in DOMAIN queue : queue[i] \in Traversals \X (1 .. Responses)
    /\ normal \in [Traversals -> BOOLEAN]
    /\ pc \in [Traversals -> {"new", "recv", "send", "check", "closed", "refused"}]
    /\ \A t \in Traversals : pc[t] = "send" => hand[t] # Nobody
    /\ \A t \in Traversals : Len(respCh[t]) <= Capacity
    /\ reading \in [Traversals -> BOOLEAN] /\ alone \in [Traversals -> BOOLEAN]
    /\ failing \in BOOLEAN

Init ==
    /\ asyncId = 0
    /\ aid = [t \in Traversals |-> 0]
    /\ tag = [t \in Traversals |-> 0]
    /\ sent = [t \in Traversals |-> 0]
    /\ queue = <<>>
    /\ normal = [t \in Traversals |-> FALSE]
    /\ pc = [t \in Traversals |-> "new"]
    /\ hand = [t \in Traversals |-> Nobody]
    /\ respCh = [t \in Traversals |-> <<>>]
    /\ got = [t \in Traversals |-> <<>>]
    /\ reading = [t \in Traversals |-> TRUE]
    /\ alone = [t \in Traversals |-> TRUE]
    /\ failing = FALSE

\* Mutant: the counter is read and not advanced.
NextId_Same == asyncId
NextId == asyncId + 1

\* An error of SetAsyncId is only logged; with an error of Start there is no goroutine.
Start(t) ==
    /\ pc[t] = "new"
    /\ asyncId' = NextId
    /\ aid' = [aid EXCEPT ![t] = NextId]
    /\ \E id \in {NextId, 0} : tag' = [tag EXCEPT ![t] = id]
    /\ \/ /\ pc' = [pc EXCEPT ![t] = "recv"]
          /\ normal' = [normal EXCEPT ![t] = TRUE]
          /\ alone' = [u \in Traversals |->
                          alone[u] /\ u \notin Running /\ (u = t => Running = {})]
       \/ /\ pc' = [pc EXCEPT ![t] = "refused"]
          /\ UNCHANGED <<normal, alone>>
    /\ UNCHANGED <<sent, queue, hand, respCh, got, reading, failing>>

\* The server answers; the responses of a traversal arrive in order.
Arrive(t) ==
    /\ normal[t]
    /\ sent[t] < Responses
    /\ sent' = [sent EXCEPT ![t] = @ + 1]
    /\ queue' = Append(queue, <<t, sent[t] + 1>>)
    /\ UNCHANGED <<asyncId, aid, tag, normal, failing, pc, hand, respCh, got, reading, alone>>

\* RecvResponse returns a response: the library notes the last one of a traverser.
Received(r) ==
    /\ queue' = Tail(queue)
    /\ normal' = [normal EXCEPT ![r[1]] = @ /\ r[2] < Responses]

\* Mutant: every response is taken for this traversal's.
Mine_Any(t, r) == TRUE
Mine(t, r) == tag[r[1]] = aid[t]

\* Its own response is passed on, another's dropped.  Without one, or with an error, the loop
\* goes round.
RecvResponse(t) ==
    /\ pc[t] = "recv"
    /\ ~failing
    /\ queue # <<>>
    /\ Received(Head(queue))
    /\ IF Mine(t, Head(queue))
       THEN hand' = [hand EXCEPT ![t] = Head(queue)] /\ pc' = [pc EXCEPT ![t] = "send"]
       ELSE UNCHANGED <<hand, pc>>
    /\ UNCHANGED <<asyncId, aid, tag, sent, failing, respCh, got, reading, alone>>

\* Blocks while the channel is full.
SendToChannel(t) ==
    /\ pc[t] = "send"
    /\ Len(respCh[t]) < Capacity
    /\ respCh' = [respCh EXCEPT ![t] = Append(@, hand[t])]
    /\ hand' = [hand EXCEPT ![t] = Nobody]
    /\ pc' = [pc EXCEPT ![t] = "check"]
    /\ UNCHANGED <<clientVars, got, reading, alone>>

\* Mutants: the channel is closed after any response; it is never closed.
Ended_Always(t) == TRUE
Ended_Never(t)  == FALSE
Ended(t) == ~normal[t]

\* Close the channel and stop the traverser, or receive again.
CheckState(t) ==
    /\ pc[t] = "check"
    /\ pc' = [pc EXCEPT ![t] = IF Ended(t) THEN "closed" ELSE "recv"]
    /\ UNCHANGED <<clientVars, hand, respCh, got, reading, alone>>

\* The application reads the channel, or gives up.
Read(t) ==
    /\ reading[t]
    /\ respCh[t] # <<>>
    /\ got' = [got EXCEPT ![t] = Append(@, Head(respCh[t]))]
    /\ respCh' = [respCh EXCEPT ![t] = Tail(@)]
    /\ UNCHANGED <<clientVars, pc, hand, reading, alone>>

GiveUp(t) ==
    /\ reading[t]
    /\ pc[t] # "new"
    /\ reading' = [reading EXCEPT ![t] = FALSE]
    /\ UNCHANGED <<clientVars, pc, hand, respCh, got, alone>>

Fail ==
    /\ ~failing
    /\ failing' = TRUE
    /\ UNCHANGED <<asyncId, aid, tag, sent, queue, normal, pc, hand, respCh, got, reading, alone>>

Loop(t) == RecvResponse(t) \/ SendToChannel(t) \/ CheckState(t)

Next == Fail \/ \E t \in Traversals : Start(t) \/ Arrive(t) \/ Loop(t) \/ Read(t) \/ GiveUp(t)

\* The scheduler runs the goroutine, the server answers in the end, and an application that
\* has not given up reads what there is.
Fairness == \A t \in Traversals : WF_vars(Loop(t)) /\ WF_vars(Arrive(t)) /\ WF_vars(Read(t))

Spec == Init /\ [][Next]_vars /\ Fairness

---------------------------------------------------------------------------
Delivered(t) == got[t] \o respCh[t]

\* A channel carries only responses of its own traversal, in their order and none twice,
\* also when responses of an abandoned traversal are still in the client.
OwnInOrder ==
    \A t \in Traversals : \A i \in DOMAIN Delivered(t) :
        /\ Delivered(t)[i][1] = t
        /\ i > 1 => Delivered(t)[i - 1][2] < Delivered(t)[i][2]

\* A closed channel means that the traversal is complete, as long as no other traversal was
\* receiving from the client: one that was may have taken responses of this one, also the last.
ClosedIsComplete ==
    \A t \in Traversals :
        pc[t] = "closed" /\ alone[t] => Len(Delivered(t)) = Responses

\* A traversal ends and its channel is closed, unless another one takes its responses, the
\* application stops reading, the client fails or the id could not be set; in these cases the
\* goroutine may spin or block for ever.
TraversalEnds ==
    \A t \in Traversals :
        pc[t] = "recv" ~>
            pc[t] = "closed" \/ ~alone[t] \/ ~reading[t] \/ failing \/ tag[t] # aid[t]

---------------------------------------------------------------------------
(* The inductive invariant behind the safety properties.                   *)

Items == Traversals \X (1 .. Responses)

\* The responses that the goroutine of t has taken for its own.
Taken(t) == IF pc[t] = "send" THEN Append(Delivered(t), hand[t]) ELSE Delivered(t)

\* Responses of one traversal wait in their order.
QueueOK ==
    /\ queue \in Seq(Items)
    /\ \A i, j \in 1 .. Len(queue) :
          i < j /\ queue[i][1] = queue[j][1] => queue[i][2] < queue[j][2]
    /\ \A i \in 1 .. Len(queue) : queue[i][2] <= sent[queue[i][1]]

\* Traversals that have started have ids of their own, and only a response with the id of
\* its traversal is ever passed on.
IdsOK ==
    \A t \in Traversals :
        /\ aid[t] <= asyncId
        /\ tag[t] \in {0, aid[t]}
        /\ pc[t] # "new" => aid[t] > 0
        /\ pc[t] = "new" => aid[t] = 0 /\ sent[t] = 0 /\ ~normal[t]
        /\ pc[t] \in {"send", "check", "closed"} => tag[t] = aid[t]

\* What a goroutine has taken came before whatever still waits for it.
ChannelsOK ==
    /\ got \in [Traversals -> Seq(Items)] /\ respCh \in [Traversals -> Seq(Items)]
    /\ hand \in [Traversals -> Items \cup {Nobody}]
    /\ \A t \in Traversals :
          /\ \A i \in 1 .. Len(Taken(t)) : Taken(t)[i][1] = t /\ Taken(t)[i][2] <= sent[t]
          /\ \A i, j \in 1 .. Len(Taken(t)) : i < j => Taken(t)[i][2] < Taken(t)[j][2]
          /\ \A i \in 1 .. Len(Taken(t)), k \in 1 .. Len(queue) :
                queue[k][1] = t => Taken(t)[i][2] < queue[k][2]

\* A goroutine that is alone with the client has taken a prefix of the responses, the rest of
\* those that have arrived wait for it, and its traverser ends with the last one.
Alone(t) == alone[t] /\ pc[t] \in {"recv", "send", "check", "closed"}
WholeOK ==
    \A t \in Traversals :
        Alone(t) =>
            /\ t \in Running => Running = {t}
            /\ tag[t] = aid[t] =>
                  /\ \A i \in 1 .. Len(Taken(t)) : Taken(t)[i] = <<t, i>>
                  /\ t \in Running =>
                        \A n \in Len(Taken(t)) + 1 .. sent[t] :
                            \E i \in 1 .. Len(queue) : queue[i] = <<t, n>>
                  /\ ~normal[t] => Len(Taken(t)) = Responses
                  /\ pc[t] = "closed" => ~normal[t]

TraverseInv == TypeOK /\ QueueOK /\ IdsOK /\ ChannelsOK /\ WholeOK
==========================================================================
