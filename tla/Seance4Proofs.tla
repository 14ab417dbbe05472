-------------------------- MODULE Seance4Proofs --------------------------
(* The servers of seance_4: of docker and docker2 the types, the answers and the *)
(* child's number; of the echo server, for any clients, lines and sizes of the    *)
(* buffers, the bytes it returns.                                                 *)
EXTENDS MCSeance4, SequenceTheorems, TLAPS

Serving == ppc \in {"send", "close"}

\* A connection is open from connect to close, has one place, in the queue or at
\* the server, and a client that is not connected has none.
ConnInv ==
    /\ \A c \in Clients : client[c] = "ready" =>
         /\ ~closed[c]
         /\ ~(Serving /\ conn = c)
         /\ \A i \in 1 .. Len(queue) : queue[i] # c
    /\ \A i \in 1 .. Len(queue) : ~closed[queue[i]] /\ ~(Serving /\ conn = queue[i])
    /\ \A i, j \in 1 .. Len(queue) : queue[i] = queue[j] => i = j
    /\ Serving => ~closed[conn]

\* What is closed, or about to be closed, has its answer.
AnswerInv ==
    /\ \A c \in Clients : closed[c] => inbox[c]
    /\ ppc = "close" => inbox[conn]
    /\ NobodyLeavesUnanswered

ServerInv == TypeOK /\ ConnInv /\ AnswerInv

-----------------------------------------------------------------------------
(* Queues.                                                                   *)

\* The places of a queue with one more element at its end.
LEMMA AppendPlaces ==
    ASSUME NEW S, NEW q \in Seq(S), NEW x \in S
    PROVE  /\ Append(q, x) \in Seq(S)
           /\ Len(Append(q, x)) = Len(q) + 1
           /\ Len(q) \in Nat
           /\ \A i \in 1 .. Len(q) : i \in 1 .. Len(q) + 1 /\ Append(q, x)[i] = q[i]
           /\ Append(q, x)[Len(q) + 1] = x
           /\ \A i \in 1 .. Len(q) + 1 : i \in 1 .. Len(q) \/ i = Len(q) + 1
    OBVIOUS

\* The places of a queue without its first element.
LEMMA TailPlaces ==
    ASSUME NEW S, NEW q \in Seq(S), q # <<>>
    PROVE  /\ Tail(q) \in Seq(S)
           /\ Head(q) = q[1] /\ Head(q) \in S /\ 1 \in 1 .. Len(q)
           /\ Len(q) \in Nat /\ Len(Tail(q)) = Len(q) - 1
           /\ \A i \in 1 .. Len(q) - 1 : i + 1 \in 1 .. Len(q) /\ i + 1 # 1 /\ Tail(q)[i] = q[i + 1]
           /\ \A i, j \in 1 .. Len(q) - 1 : i + 1 = j + 1 => i = j
    OBVIOUS

-----------------------------------------------------------------------------
(* Types.                                                                    *)

\* The initial state has the types.
LEMMA TypeInit == Init => TypeOK
    BY BacklogAssumption DEF Init, TypeOK, Running, Waiting

\* Every step keeps them.
LEMMA TypeStep == TypeOK /\ [Next]_vars => TypeOK'
<1> SUFFICES ASSUME TypeOK, [Next]_vars
             PROVE  TypeOK'
  OBVIOUS
<1> USE BacklogAssumption
<1>1. CASE Fork \/ Listen
  BY <1>1 DEF Fork, Listen, TypeOK, parentVars, clientVars, Running
<1>2. CASE WaitForChild \/ ChildStillRuns \/ ReapChild \/ WaitForAny
  BY <1>2 DEF WaitForChild, ChildStillRuns, ReapChild, WaitForAny, TypeOK, Reported, ForgetPid,
              clientVars
<1>3. CASE Accept
  <2>1. /\ Head(queue) \in Clients
        /\ Tail(queue) \in Seq(Clients)
        /\ Len(Tail(queue)) <= Backlog + 1
    BY <1>3, TailPlaces DEF Accept, TypeOK
  <2> QED  BY <1>3, <2>1 DEF Accept, TypeOK, clientVars
<1>4. CASE AcceptFails \/ Send \/ Close
  BY <1>4 DEF AcceptFails, Send, Close, TypeOK, NextRound, Delivered, clientVars
<1>5. CASE ChildStep \/ ChildKilled
  BY <1>5 DEF ChildStep, Popen, ReadListing, Pclose, ChildKilled, TypeOK, Exit, Running,
              parentVars, clientVars
<1>6. ASSUME NEW c \in Clients, Connect(c)
      PROVE  TypeOK'
  <2>1. /\ Append(queue, c) \in Seq(Clients)
        /\ Len(Append(queue, c)) <= Backlog + 1
    BY <1>6, AppendPlaces DEF Connect, TypeOK
  <2> QED  BY <1>6, <2>1 DEF Connect, TypeOK, Waiting, parentVars
<1>7. ASSUME NEW c \in Clients, WriteHello(c) \/ ReadAnswer(c) \/ KillClient(c) \/ RunAgain(c)
      PROVE  TypeOK'
  BY <1>7 DEF WriteHello, ReadAnswer, KillClient, RunAgain, TypeOK, Waiting, parentVars
<1>8. CASE UNCHANGED vars
  BY <1>8 DEF vars, TypeOK
<1> QED
  BY <1>1, <1>2, <1>3, <1>4, <1>5, <1>6, <1>7, <1>8
  DEF Next, ParentStep, ClientStep, Terminated

\* Type correctness of both servers, for any number of clients and any backlog.
THEOREM TypeCorrect == Spec => []TypeOK
<1>1. Init => TypeOK
  BY TypeInit
<1>2. TypeOK /\ [Next]_vars => TypeOK'
  BY TypeStep
<1> QED  BY <1>1, <1>2, PTL DEF Spec

-----------------------------------------------------------------------------
(* Answers.                                                                  *)

\* Initially nothing is connected.
LEMMA ServerInit == Init => ServerInv
<1> SUFFICES ASSUME Init
             PROVE  ServerInv
  OBVIOUS
<1>1. TypeOK
  BY TypeInit
<1>2. ConnInv
  BY DEF Init, ConnInv, Serving
<1>3. AnswerInv
  BY DEF Init, AnswerInv, NobodyLeavesUnanswered
<1> QED  BY <1>1, <1>2, <1>3 DEF ServerInv

\* The steps of the parent.
LEMMA ParentKeepsAnswers ==
    ASSUME ServerInv, ParentStep
    PROVE  ConnInv' /\ AnswerInv'
<1> USE DEF ServerInv
<1>1. CASE \/ Fork \/ Listen \/ WaitForChild \/ ChildStillRuns \/ ReapChild \/ WaitForAny
           \/ AcceptFails
  <2>1. ~Serving' /\ ppc' # "close" /\ UNCHANGED <<queue, client, inbox, closed>>
    BY <1>1 DEF Fork, Listen, WaitForChild, ChildStillRuns, ReapChild, WaitForAny, AcceptFails,
                NextRound, Serving, clientVars
  <2> QED  BY <2>1 DEF ConnInv, AnswerInv, NobodyLeavesUnanswered
<1>2. CASE Accept
  <2>1. /\ queue \in Seq(Clients) /\ queue # <<>> /\ queue' = Tail(queue)
        /\ conn' = Head(queue) /\ ppc' = "send" /\ UNCHANGED <<client, inbox, closed>>
    BY <1>2 DEF Accept, TypeOK, clientVars
  <2>2. ConnInv'
    <3> DEFINE q == Tail(queue)
    <3>1. /\ queue' = q /\ Len(queue) \in Nat /\ Len(q) = Len(queue) - 1
          /\ conn' = queue[1] /\ 1 \in 1 .. Len(queue)
          /\ \A i \in 1 .. Len(queue) - 1 : i + 1 \in 1 .. Len(queue) /\ q[i] = queue[i + 1]
      BY <2>1, TailPlaces
    <3> HIDE DEF q
    <3>2. /\ \A i \in 1 .. Len(q) : i + 1 \in 1 .. Len(queue) /\ i + 1 # 1 /\ q[i] = queue[i + 1]
          /\ \A i, j \in 1 .. Len(q) : i + 1 = j + 1 => i = j
      BY <3>1
    <3>3. \A i \in 1 .. Len(q) : ~closed[q[i]] /\ q[i] # queue[1]
      BY <3>1, <3>2 DEF ConnInv
    <3>4. \A i, j \in 1 .. Len(q) : q[i] = q[j] => i = j
      BY <3>2 DEF ConnInv
    <3>5. \A c \in Clients : client[c] = "ready" =>
             /\ ~closed[c] /\ c # queue[1] /\ \A i \in 1 .. Len(q) : q[i] # c
      BY <3>1, <3>2 DEF ConnInv
    <3>6. ~closed[queue[1]]
      BY <3>1 DEF ConnInv
    <3> QED  BY <2>1, <3>1, <3>3, <3>4, <3>5, <3>6 DEF ConnInv
  <2>3. AnswerInv'
    BY <2>1 DEF AnswerInv, NobodyLeavesUnanswered
  <2> QED  BY <2>2, <2>3
<1>3. CASE Send
  <2>1. /\ Serving /\ Serving' /\ conn \in Clients /\ inbox' = [inbox EXCEPT ![conn] = TRUE]
        /\ inbox \in [Clients -> BOOLEAN] /\ UNCHANGED <<conn, queue, client, closed>>
    BY <1>3 DEF Send, Serving, TypeOK, Delivered
  <2>2. ConnInv'
    BY <2>1 DEF ConnInv
  <2>3. AnswerInv'
    BY <2>1 DEF AnswerInv, NobodyLeavesUnanswered
  <2> QED  BY <2>2, <2>3
<1>4. CASE Close
  <2>1. /\ ppc = "close" /\ Serving /\ ~Serving' /\ ppc' # "close"
        /\ conn \in Clients /\ closed \in [Clients -> BOOLEAN] /\ queue \in Seq(Clients)
        /\ closed' = [closed EXCEPT ![conn] = TRUE] /\ UNCHANGED <<queue, client, inbox>>
    BY <1>4 DEF Close, Serving, TypeOK, NextRound
  <2>2. \A i \in 1 .. Len(queue) : queue[i] \in Clients
    BY <2>1
  <2>3. ConnInv'
    BY <2>1, <2>2 DEF ConnInv
  <2>4. AnswerInv'
    BY <2>1 DEF AnswerInv, NobodyLeavesUnanswered
  <2> QED  BY <2>3, <2>4
<1> QED  BY <1>1, <1>2, <1>3, <1>4 DEF ParentStep

\* A client's own steps.
LEMMA ClientKeepsAnswers ==
    ASSUME ServerInv, NEW c \in Clients, ClientStep(c)
    PROVE  ConnInv' /\ AnswerInv'
<1> USE DEF ServerInv
<1>1. /\ client \in [Clients -> Waiting \cup {"ready", "answered", "unanswered", "killed"}]
      /\ inbox \in [Clients -> BOOLEAN] /\ closed \in [Clients -> BOOLEAN]
      /\ queue \in Seq(Clients)
  BY DEF TypeOK
<1>2. CASE Connect(c)
  <2>1. /\ client[c] = "ready" /\ client' = [client EXCEPT ![c] = "connected"]
        /\ queue' = Append(queue, c) /\ UNCHANGED <<ppc, conn, inbox, closed>>
    BY <1>2 DEF Connect, parentVars
  <2>2. /\ ~closed[c] /\ ~(Serving /\ conn = c) /\ Serving' = Serving
        /\ \A i \in 1 .. Len(queue) : queue[i] # c
    BY <2>1 DEF ConnInv, Serving
  <2>3. ConnInv'
    BY <1>1, <2>1, <2>2, AppendPlaces DEF ConnInv
  <2>4. AnswerInv'
    BY <1>1, <2>1 DEF AnswerInv, NobodyLeavesUnanswered
  <2> QED  BY <2>3, <2>4
<1>3. CASE WriteHello(c) \/ ReadAnswer(c) \/ KillClient(c)
  <2>1. /\ UNCHANGED <<ppc, conn, queue, inbox, closed>>
        /\ \E s \in {"sent", "answered", "killed"} : client' = [client EXCEPT ![c] = s]
    BY <1>3 DEF WriteHello, ReadAnswer, KillClient, parentVars, AnswerInv
  <2>2. Serving' = Serving
    BY <2>1 DEF Serving
  <2>3. ConnInv'
    BY <1>1, <2>1, <2>2 DEF ConnInv
  <2>4. AnswerInv'
    BY <1>1, <2>1 DEF AnswerInv, NobodyLeavesUnanswered
  <2> QED  BY <2>3, <2>4
<1>4. CASE RunAgain(c)
  <2>1. /\ closed[c] /\ client' = [client EXCEPT ![c] = "ready"]
        /\ inbox' = [inbox EXCEPT ![c] = FALSE] /\ closed' = [closed EXCEPT ![c] = FALSE]
        /\ UNCHANGED <<ppc, conn, queue>>
    BY <1>4 DEF RunAgain, parentVars
  <2>2. /\ ~(Serving /\ conn = c) /\ Serving' = Serving
        /\ \A i \in 1 .. Len(queue) : queue[i] # c
    BY <2>1 DEF ConnInv, Serving
  <2>3. /\ \A i \in 1 .. Len(queue) : queue[i] \in Clients
        /\ Serving => conn \in Clients
    BY <1>1 DEF TypeOK, Serving
  <2>4. ConnInv'
    BY <1>1, <2>1, <2>2, <2>3 DEF ConnInv
  <2>5. AnswerInv'
    BY <1>1, <2>1, <2>2, <2>3 DEF AnswerInv, NobodyLeavesUnanswered, Serving
  <2> QED  BY <2>4, <2>5
<1> QED  BY <1>2, <1>3, <1>4 DEF ClientStep

\* The connections of either server, over every step.
LEMMA ServerStep == ServerInv /\ [Next]_vars => ServerInv'
<1> SUFFICES ASSUME ServerInv, [Next]_vars
             PROVE  ServerInv'
  OBVIOUS
<1>1. TypeOK'
  BY TypeStep DEF ServerInv
<1>2. CASE ParentStep
  BY <1>1, <1>2, ParentKeepsAnswers DEF ServerInv
<1>3. ASSUME NEW c \in Clients, ClientStep(c)
      PROVE  ServerInv'
  BY <1>1, <1>3, ClientKeepsAnswers DEF ServerInv
<1>4. CASE ChildStep \/ ChildKilled \/ UNCHANGED vars
  <2>1. UNCHANGED <<ppc, conn, queue, client, inbox, closed>>
    BY <1>4 DEF ChildStep, Popen, ReadListing, Pclose, ChildKilled, vars, parentVars, clientVars
  <2> QED  BY <1>1, <2>1 DEF ServerInv, ConnInv, AnswerInv, Serving, NobodyLeavesUnanswered
<1> QED  BY <1>2, <1>3, <1>4 DEF Next, Terminated

\* No client of client.c reads the end of the stream instead of its answer.
THEOREM EveryCloseIsAnAnswer == Spec => []NobodyLeavesUnanswered
<1>1. Init => ServerInv
  BY ServerInit
<1>2. ServerInv /\ [Next]_vars => ServerInv'
  BY ServerStep
<1>3. ServerInv => NobodyLeavesUnanswered
  BY DEF ServerInv, AnswerInv
<1> QED  BY <1>1, <1>2, <1>3, PTL DEF Spec

-----------------------------------------------------------------------------
(* The number of the child.                                                  *)

\* Which program runs never changes, and only ReapChild ends docker2's child.
LEMMA PidStep == PidIsNotStale /\ [Next]_vars => PidIsNotStale'
<1> SUFFICES ASSUME PidIsNotStale, [Next]_vars
             PROVE  PidIsNotStale'
  OBVIOUS
<1> USE DEF PidIsNotStale, Running
<1>1. CASE ParentStep
  BY <1>1 DEF ParentStep, Fork, Listen, WaitForChild, ChildStillRuns, ReapChild, WaitForAny,
              Accept, AcceptFails, Send, Close, ForgetPid, ChildPid, MinusOne
<1>2. CASE ChildStep \/ ChildKilled
  BY <1>2 DEF ChildStep, Popen, ReadListing, Pclose, ChildKilled, Exit, parentVars
<1>3. ASSUME NEW c \in Clients, ClientStep(c)
      PROVE  PidIsNotStale'
  BY <1>3 DEF ClientStep, Connect, WriteHello, ReadAnswer, KillClient, RunAgain, parentVars
<1>4. CASE UNCHANGED vars
  BY <1>4 DEF vars
<1> QED  BY <1>1, <1>2, <1>3, <1>4 DEF Next, Terminated

\* docker2 never waits for a number that the kernel may have given away.
THEOREM NoStalePid == Spec => []PidIsNotStale
<1>1. Init => PidIsNotStale
  BY DEF Init, PidIsNotStale
<1>2. PidIsNotStale /\ [Next]_vars => PidIsNotStale'
  BY PidStep
<1> QED  BY <1>1, <1>2, PTL DEF Spec

-----------------------------------------------------------------------------
(* The echo server.                                                          *)

\* The bytes of s are those that were typed after the first a.
Segment(s, a) == \A i \in 1 .. Len(s) : s[i] = a + i

-----------------------------------------------------------------------------
(* Segments. *)

\* A sequence in two.
LEMMA Cut ==
    ASSUME NEW s \in Seq(Nat), NEW w \in 0 .. Len(s)
    PROVE  /\ w \in Nat /\ Len(s) \in Nat /\ w <= Len(s)
           /\ SubSeq(s, 1, w) \in Seq(Nat) /\ SubSeq(s, w + 1, Len(s)) \in Seq(Nat)
           /\ Len(SubSeq(s, 1, w)) = w /\ Len(SubSeq(s, w + 1, Len(s))) = Len(s) - w
           /\ \A i \in 1 .. w : SubSeq(s, 1, w)[i] = s[i]
           /\ \A i \in 1 .. Len(s) - w : SubSeq(s, w + 1, Len(s))[i] = s[w + i]
  <1>1. Len(s) \in Nat /\ w \in Nat /\ w <= Len(s)
    BY LenProperties
  <1>2. \A i \in 1 .. Len(s) : s[i] \in Nat
    BY <1>1, ElementOfSeq
  <1>3. /\ SubSeq(s, 1, w) \in Seq(Nat)
        /\ Len(SubSeq(s, 1, w)) = w
        /\ \A i \in 1 .. w : SubSeq(s, 1, w)[i] = s[i]
    <2>1. \A i \in 1 .. w : s[i] \in Nat
      BY <1>1, <1>2
    <2>2. /\ SubSeq(s, 1, w) \in Seq(Nat)
          /\ Len(SubSeq(s, 1, w)) = IF 1 <= w THEN w - 1 + 1 ELSE 0
          /\ \A i \in 1 .. w - 1 + 1 : SubSeq(s, 1, w)[i] = s[1 + i - 1]
      BY <1>1, <2>1, SubSeqProperties, Z3
    <2> QED  BY <1>1, <2>2
  <1>4. /\ SubSeq(s, w + 1, Len(s)) \in Seq(Nat)
        /\ Len(SubSeq(s, w + 1, Len(s))) = Len(s) - w
        /\ \A i \in 1 .. Len(s) - w : SubSeq(s, w + 1, Len(s))[i] = s[w + i]
    <2>1. \A i \in w + 1 .. Len(s) : s[i] \in Nat
      BY <1>1, <1>2
    <2>2. /\ SubSeq(s, w + 1, Len(s)) \in Seq(Nat)
          /\ Len(SubSeq(s, w + 1, Len(s))) = IF w + 1 <= Len(s) THEN Len(s) - (w + 1) + 1 ELSE 0
          /\ \A i \in 1 .. Len(s) - (w + 1) + 1 : SubSeq(s, w + 1, Len(s))[i] = s[w + 1 + i - 1]
      BY <1>1, <2>1, SubSeqProperties, Z3
    <2> DEFINE b == SubSeq(s, w + 1, Len(s))
    <2> HIDE DEF b
    <2>3. /\ b \in Seq(Nat)
          /\ Len(b) = IF w + 1 <= Len(s) THEN Len(s) - (w + 1) + 1 ELSE 0
          /\ \A i \in 1 .. Len(s) - (w + 1) + 1 : b[i] = s[w + 1 + i - 1]
      BY <2>2 DEF b
    <2>4. Len(b) = Len(s) - w
      BY <1>1, <2>3
    <2>5. ASSUME NEW i \in 1 .. Len(s) - w PROVE b[i] = s[w + i]
      <3>1. i \in 1 .. Len(s) - (w + 1) + 1 /\ w + 1 + i - 1 = w + i
        BY <1>1
      <3> QED  BY <2>3, <3>1
    <2> QED  BY <2>3, <2>4, <2>5 DEF b
  <1> QED  BY <1>1, <1>3, <1>4

\* What is cut off at the front is a segment, and so is the rest.
LEMMA CutSegment ==
    ASSUME NEW s \in Seq(Nat), NEW a \in Nat, Segment(s, a), NEW w \in 0 .. Len(s)
    PROVE  /\ Segment(SubSeq(s, 1, w), a)
           /\ Segment(SubSeq(s, w + 1, Len(s)), a + w)
  <1>1. Segment(SubSeq(s, 1, w), a)
    BY Cut DEF Segment
  <1>2. Segment(SubSeq(s, w + 1, Len(s)), a + w)
    <2>1. ASSUME NEW i \in 1 .. Len(s) - w
          PROVE  w + i \in 1 .. Len(s) /\ s[w + i] = a + w + i
      <3>1. w \in Nat /\ Len(s) \in Nat /\ w <= Len(s)
        BY Cut
      <3>2. w + i \in 1 .. Len(s)
        BY <3>1
      <3> QED  BY <3>1, <3>2 DEF Segment
    <2> QED  BY Cut, <2>1 DEF Segment
  <1> QED  BY <1>1, <1>2

\* Two segments that follow each other are one.
LEMMA JoinSegments ==
    ASSUME NEW s \in Seq(Nat), NEW t \in Seq(Nat), NEW a \in Nat,
           Segment(s, a), Segment(t, a + Len(s))
    PROVE  /\ s \o t \in Seq(Nat) /\ Len(s \o t) = Len(s) + Len(t)
           /\ Segment(s \o t, a)
  <1>1. Len(s) \in Nat /\ Len(t) \in Nat
    BY LenProperties
  <1>2. /\ s \o t \in Seq(Nat)
        /\ Len(s \o t) = Len(s) + Len(t)
        /\ \A i \in 1 .. Len(s) + Len(t) :
               (s \o t)[i] = IF i <= Len(s) THEN s[i] ELSE t[i - Len(s)]
    BY ConcatProperties
  <1>3. ASSUME NEW i \in 1 .. Len(s) + Len(t)
        PROVE  (s \o t)[i] = a + i
    <2>1. CASE i <= Len(s)
      BY <1>1, <1>2, <2>1 DEF Segment
    <2>2. CASE ~(i <= Len(s))
      <3>1. i - Len(s) \in 1 .. Len(t)
        BY <1>1, <2>2
      <3> QED  BY <1>1, <1>2, <2>2, <3>1 DEF Segment
    <2> QED  BY <2>1, <2>2
  <1> QED  BY <1>1, <1>2, <1>3 DEF Segment

\* A part of t goes from its front to the end of s.
LEMMA MoveSegment ==
    ASSUME NEW s \in Seq(Nat), NEW t \in Seq(Nat), NEW a \in Nat,
           Segment(s, a), Segment(t, a + Len(s)), NEW w \in 0 .. Len(t)
    PROVE  /\ s \o SubSeq(t, 1, w) \in Seq(Nat) /\ SubSeq(t, w + 1, Len(t)) \in Seq(Nat)
           /\ Len(s \o SubSeq(t, 1, w)) = Len(s) + w
           /\ Len(SubSeq(t, w + 1, Len(t))) = Len(t) - w
           /\ Segment(s \o SubSeq(t, 1, w), a)
           /\ Segment(SubSeq(t, w + 1, Len(t)), a + Len(s) + w)
  <1>1. Len(s) \in Nat /\ a + Len(s) \in Nat
    BY LenProperties
  <1>2. /\ SubSeq(t, 1, w) \in Seq(Nat) /\ SubSeq(t, w + 1, Len(t)) \in Seq(Nat)
        /\ Len(SubSeq(t, 1, w)) = w /\ Len(SubSeq(t, w + 1, Len(t))) = Len(t) - w
    BY Cut
  <1>3. Segment(SubSeq(t, 1, w), a + Len(s)) /\ Segment(SubSeq(t, w + 1, Len(t)), a + Len(s) + w)
    BY <1>1, CutSegment
  <1> DEFINE part == SubSeq(t, 1, w)
  <1> HIDE DEF part
  <1>4. /\ s \o part \in Seq(Nat) /\ Len(s \o part) = Len(s) + w
        /\ Segment(s \o part, a)
    <2>1. part \in Seq(Nat) /\ Len(part) = w /\ Segment(part, a + Len(s))
      BY <1>2, <1>3 DEF part
    <2> QED  BY <2>1, JoinSegments
  <1> QED  BY <1>2, <1>3, <1>4 DEF part

\* A segment from the beginning is the text up to its length.
LEMMA SegmentIsText ==
    ASSUME NEW s \in Seq(Nat), NEW n \in Nat, Segment(s, 0), Len(s) <= n
    PROVE  /\ Len(s) = n => s = [i \in 1 .. n |-> i]
           /\ Echo!IsPrefix(s, [i \in 1 .. n |-> i])
  <1> DEFINE text == [i \in 1 .. n |-> i]
  <1>1. Len(s) \in Nat /\ \A i \in 1 .. Len(s) : s[i] = i
    BY LenProperties DEF Segment
  <1>2. text \in Seq(Nat) /\ Len(text) = n /\ \A i \in 1 .. n : text[i] = i
    BY IsASeq
  <1>3. ASSUME NEW t \in Seq(Nat), Len(t) = Len(s), \A i \in 1 .. Len(s) : t[i] = i
        PROVE  s = t
    BY <1>1, <1>3, SeqEqual
  <1>4. SubSeq(s, 1, Len(s)) = s
    BY SubSeqFull
  <1>5. /\ SubSeq(text, 1, Len(s)) \in Seq(Nat)
        /\ Len(SubSeq(text, 1, Len(s))) = Len(s)
        /\ \A i \in 1 .. Len(s) : SubSeq(text, 1, Len(s))[i] = i
    <2>1. \A i \in 1 .. n : text[i] \in Nat
      BY <1>2
    <2>2. Segment(text, 0)
      BY <1>2 DEF Segment
    <2>3. Len(s) \in 0 .. Len(text)
      BY <1>1, <1>2
    <2> HIDE DEF text
    <2>4. /\ SubSeq(text, 1, Len(s)) \in Seq(Nat)
          /\ Len(SubSeq(text, 1, Len(s))) = Len(s)
          /\ Segment(SubSeq(text, 1, Len(s)), 0)
      BY <1>2, <2>2, <2>3, Cut, CutSegment
    <2> QED  BY <1>1, <2>4 DEF Segment
  <1> HIDE DEF text
  <1>6. Echo!IsPrefix(s, text)
    BY <1>2, <1>3, <1>4, <1>5 DEF Echo!IsPrefix
  <1>7. Len(s) = n => s = text
    BY <1>2, <1>3
  <1> QED  BY <1>6, <1>7 DEF text

-----------------------------------------------------------------------------
(* The invariant. *)

\* The bytes that the server has read from c and not written.
Kept(c) == IF fd = c THEN buf ELSE <<>>

StreamTypes ==
    /\ typed \in [EchoClients -> Nat]
    /\ received \in [EchoClients -> Seq(Nat)] /\ down \in [EchoClients -> Seq(Nat)]
    /\ up \in [EchoClients -> Seq(Nat)] /\ out \in [EchoClients -> Seq(Nat)]
    /\ buf \in Seq(Nat)

\* Only write has bytes in its hands, a client has sent its line before it reads, and the
\* server hears of the end of a client that has left.
PointsInv ==
    /\ Echo!Alive /\ spc # "write" => buf = <<>>
    /\ \A c \in EchoClients :
           /\ epc[c] \in {"connect", "fgets", "read"} => out[c] = <<>>
           /\ gone[c] # "no" => epc[c] = "done"

\* The bytes of a text of n bytes, in the hands of the client, on the way back, in the
\* server, on the way there and still to be sent, are consecutive segments of it.
Complete(r, d, k, u, o, n) ==
    /\ Segment(k, Len(r) + Len(d))
    /\ Segment(u, Len(r) + Len(d) + Len(k))
    /\ Segment(o, Len(r) + Len(d) + Len(k) + Len(u))
    /\ Len(r) + Len(d) + Len(k) + Len(u) + Len(o) = n

\* A client that has left has discarded what was on its way back, a server that is dead
\* all that it had not written.
ReadInv(c) == Segment(received[c], 0) /\ Len(received[c]) <= typed[c]
ReplyInv(c) ==
    Segment(down[c], Len(received[c])) /\ Len(received[c]) + Len(down[c]) <= typed[c]
Flow(c) ==
    /\ ReadInv(c)
    /\ epc[c] # "done" => ReplyInv(c)
    /\ Echo!Alive /\ epc[c] # "done" =>
           Complete(received[c], down[c], Kept(c), up[c], out[c], typed[c])

EchoInv == Echo!TypeOK /\ StreamTypes /\ PointsInv /\ \A c \in EchoClients : Flow(c)

-----------------------------------------------------------------------------
(* The five ways in which bytes move. *)

\* The user types a line.
LEMMA TypeMoves ==
    ASSUME NEW r \in Seq(Nat), NEW d \in Seq(Nat), NEW k \in Seq(Nat), NEW u \in Seq(Nat),
           NEW n \in Nat, NEW m \in Nat, Complete(r, d, k, u, <<>>, n)
    PROVE  /\ [i \in 1 .. m |-> n + i] \in Seq(Nat)
           /\ Complete(r, d, k, u, [i \in 1 .. m |-> n + i], n + m)
  <1> DEFINE line == [i \in 1 .. m |-> n + i]
  <1>1. line \in Seq(Nat) /\ Len(line) = m /\ \A i \in 1 .. m : line[i] = n + i
    <2>1. \A i \in 1 .. m : n + i \in Nat
      OBVIOUS
    <2> QED  BY <2>1, IsASeq
  <1> HIDE DEF line
  <1>2. /\ Len(r) \in Nat /\ Len(d) \in Nat /\ Len(k) \in Nat /\ Len(u) \in Nat /\ Len(<<>>) = 0
        /\ Len(r) + Len(d) + Len(k) + Len(u) = n
    BY LenProperties DEF Complete
  <1>3. Segment(line, Len(r) + Len(d) + Len(k) + Len(u))
    BY <1>1, <1>2 DEF Segment
  <1>4. Complete(r, d, k, u, line, n + m)
    BY <1>1, <1>2, <1>3 DEF Complete
  <1> QED  BY <1>1, <1>4 DEF line

\* send takes w bytes of the line.
LEMMA SendMoves ==
    ASSUME NEW r \in Seq(Nat), NEW d \in Seq(Nat), NEW k \in Seq(Nat), NEW u \in Seq(Nat),
           NEW o \in Seq(Nat), NEW n \in Nat, Complete(r, d, k, u, o, n), NEW w \in 0 .. Len(o)
    PROVE  Complete(r, d, k, u \o SubSeq(o, 1, w), SubSeq(o, w + 1, Len(o)), n)
  <1> DEFINE a == Len(r) + Len(d) + Len(k)
             u1 == u \o SubSeq(o, 1, w)
             o1 == SubSeq(o, w + 1, Len(o))
  <1>1. /\ Len(r) \in Nat /\ Len(d) \in Nat /\ Len(k) \in Nat /\ Len(u) \in Nat
        /\ Len(o) \in Nat /\ w \in Nat /\ a \in Nat
    BY LenProperties
  <1>2. Segment(u, a) /\ Segment(o, a + Len(u))
    BY DEF Complete
  <1>3. /\ Len(u1) = Len(u) + w /\ Len(o1) = Len(o) - w
        /\ Segment(u1, a) /\ Segment(o1, a + Len(u) + w)
    BY <1>1, <1>2, MoveSegment
  <1> HIDE DEF u1, o1
  <1>4. /\ a + Len(u) + w = Len(r) + Len(d) + Len(k) + Len(u1)
        /\ Len(u1) + Len(o1) = Len(u) + Len(o)
    BY <1>1, <1>3
  <1>5. Len(r) + Len(d) + Len(k) + Len(u1) + Len(o1) = n
    <2>1. Len(r) + Len(d) + Len(k) + Len(u) + Len(o) = n
      BY DEF Complete
    <2>2. Len(u1) \in Nat /\ Len(o1) \in Nat
      BY <1>1, <1>3
    <2> QED  BY <1>1, <1>4, <2>1, <2>2
  <1>6. Complete(r, d, k, u1, o1, n)
    BY <1>3, <1>4, <1>5 DEF Complete
  <1> QED  BY <1>6 DEF u1, o1

\* The server reads w bytes, having none.
LEMMA ServerReadMoves ==
    ASSUME NEW r \in Seq(Nat), NEW d \in Seq(Nat), NEW u \in Seq(Nat),
           NEW o \in Seq(Nat), NEW n \in Nat, Complete(r, d, <<>>, u, o, n), NEW w \in 0 .. Len(u)
    PROVE  Complete(r, d, SubSeq(u, 1, w), SubSeq(u, w + 1, Len(u)), o, n)
  <1> DEFINE a == Len(r) + Len(d)
             k1 == SubSeq(u, 1, w)
             u1 == SubSeq(u, w + 1, Len(u))
  <1>1. /\ Len(r) \in Nat /\ Len(d) \in Nat /\ Len(u) \in Nat /\ Len(<<>>) = 0
        /\ Len(o) \in Nat /\ w \in Nat /\ a \in Nat
    BY LenProperties
  <1>2. Segment(u, a) /\ Segment(o, a + Len(u)) /\ a + Len(u) + Len(o) = n
    BY <1>1 DEF Complete
  <1>3. /\ Len(k1) = w /\ Len(u1) = Len(u) - w
        /\ Segment(k1, a) /\ Segment(u1, a + w)
    BY <1>1, <1>2, Cut, CutSegment
  <1> HIDE DEF k1, u1
  <1>4. a + w = Len(r) + Len(d) + Len(k1) /\ a + Len(u) = Len(r) + Len(d) + Len(k1) + Len(u1)
    BY <1>1, <1>3
  <1>5. Complete(r, d, k1, u1, o, n)
    BY <1>1, <1>2, <1>3, <1>4 DEF Complete
  <1> QED  BY <1>5 DEF k1, u1

\* It writes w of them.
LEMMA WriteMoves ==
    ASSUME NEW r \in Seq(Nat), NEW d \in Seq(Nat), NEW k \in Seq(Nat), NEW u \in Seq(Nat),
           NEW o \in Seq(Nat), NEW n \in Nat, Complete(r, d, k, u, o, n), NEW w \in 0 .. Len(k),
           Segment(d, Len(r))
    PROVE  /\ Complete(r, d \o SubSeq(k, 1, w), SubSeq(k, w + 1, Len(k)), u, o, n)
           /\ Segment(d \o SubSeq(k, 1, w), Len(r))
           /\ Len(r) + Len(d \o SubSeq(k, 1, w)) <= n
  <1> DEFINE d1 == d \o SubSeq(k, 1, w)
             k1 == SubSeq(k, w + 1, Len(k))
  <1>1. /\ Len(r) \in Nat /\ Len(d) \in Nat /\ Len(k) \in Nat /\ Len(u) \in Nat
        /\ Len(o) \in Nat /\ w \in Nat /\ w <= Len(k)
    BY LenProperties
  <1>2. /\ Segment(k, Len(r) + Len(d)) /\ Segment(u, Len(r) + Len(d) + Len(k))
        /\ Segment(o, Len(r) + Len(d) + Len(k) + Len(u))
        /\ Len(r) + Len(d) + Len(k) + Len(u) + Len(o) = n
    BY DEF Complete
  <1>3. /\ Len(d1) = Len(d) + w /\ Len(k1) = Len(k) - w
        /\ Segment(d1, Len(r)) /\ Segment(k1, Len(r) + Len(d) + w)
    BY <1>1, <1>2, MoveSegment
  <1> HIDE DEF d1, k1
  <1>4. /\ Len(r) + Len(d) + w = Len(r) + Len(d1)
        /\ Len(r) + Len(d) + Len(k) = Len(r) + Len(d1) + Len(k1)
        /\ Len(r) + Len(d1) <= n
    BY <1>1, <1>2, <1>3
  <1>5. Complete(r, d1, k1, u, o, n)
    BY <1>2, <1>3, <1>4 DEF Complete
  <1> QED  BY <1>3, <1>4, <1>5 DEF d1, k1

\* The client reads w bytes.
LEMMA ReplyMoves ==
    ASSUME NEW r \in Seq(Nat), NEW d \in Seq(Nat), Segment(r, 0), Segment(d, Len(r)),
           NEW w \in 0 .. Len(d)
    PROVE  LET r1 == r \o SubSeq(d, 1, w)
               d1 == SubSeq(d, w + 1, Len(d))
           IN  /\ Segment(r1, 0) /\ Segment(d1, Len(r1))
               /\ Len(r1) \in Nat /\ Len(d1) \in Nat
               /\ Len(r1) + Len(d1) = Len(r) + Len(d)
               /\ \A k, u, o, n : Complete(r, d, k, u, o, n) => Complete(r1, d1, k, u, o, n)
  <1> DEFINE r1 == r \o SubSeq(d, 1, w)
             d1 == SubSeq(d, w + 1, Len(d))
  <1>1. Len(r) \in Nat /\ Len(d) \in Nat /\ w \in Nat /\ w <= Len(d) /\ 0 + Len(r) = Len(r)
    BY LenProperties
  <1>2. /\ Len(r1) = Len(r) + w /\ Len(d1) = Len(d) - w
        /\ Segment(r1, 0) /\ Segment(d1, 0 + Len(r) + w)
    BY <1>1, MoveSegment
  <1> HIDE DEF r1, d1
  <1>3. /\ Len(r1) \in Nat /\ Len(d1) \in Nat
        /\ Len(r1) + Len(d1) = Len(r) + Len(d) /\ 0 + Len(r) + w = Len(r1)
    BY <1>1, <1>2
  <1>4. ASSUME NEW k, NEW u, NEW o, NEW n, Complete(r, d, k, u, o, n)
        PROVE  Complete(r1, d1, k, u, o, n)
    BY <1>3, <1>4 DEF Complete
  <1>5. Segment(d1, Len(r1))
    BY <1>2, <1>3
  <1> QED  BY <1>2, <1>3, <1>4, <1>5 DEF r1, d1

-----------------------------------------------------------------------------
(* The invariant holds. *)

\* At the start there are no bytes.
LEMMA EchoInit == Echo!EchoAssumption /\ Echo!Init => EchoInv
  <1> SUFFICES ASSUME Echo!EchoAssumption, Echo!Init PROVE EchoInv
    OBVIOUS
  <1>1. <<>> \in Seq(Nat) /\ Len(<<>>) = 0
    OBVIOUS
  <1>2. /\ \A c \in EchoClients : /\ received[c] = <<>> /\ down[c] = <<>> /\ up[c] = <<>>
                                   /\ out[c] = <<>> /\ typed[c] = 0
        /\ buf = <<>>
    BY DEF Echo!Init
  <1>3. Echo!TypeOK
    <2>1. 0 <= RoomUp /\ 0 <= RoomDown
      BY DEF Echo!EchoAssumption
    <2>2. \A c \in EchoClients : Len(up[c]) <= RoomUp /\ Len(down[c]) <= RoomDown
      BY <1>1, <1>2, <2>1
    <2> QED  BY <2>2 DEF Echo!Init, Echo!TypeOK
  <1>4. StreamTypes
    BY <1>1 DEF Echo!Init, StreamTypes
  <1>5. PointsInv
    BY <1>2 DEF Echo!Init, PointsInv
  <1>6. \A c \in EchoClients : Flow(c)
    <2> TAKE c \in EchoClients
    <2>1. Kept(c) = <<>>
      BY <1>2 DEF Kept
    <2>2. \A a \in Nat : Segment(<<>>, a)
      BY DEF Segment
    <2>3. ReadInv(c) /\ ReplyInv(c)
      <3>1. Len(received[c]) = 0 /\ Len(down[c]) = 0 /\ typed[c] = 0
        BY <1>1, <1>2
      <3>2. Segment(received[c], 0) /\ Segment(down[c], Len(received[c]))
        BY <1>2, <2>2, <3>1
      <3> QED  BY <3>1, <3>2 DEF ReadInv, ReplyInv
    <2>4. Complete(<<>>, <<>>, <<>>, <<>>, <<>>, 0)
      BY <1>1, <2>2 DEF Complete
    <2> QED  BY <1>2, <2>1, <2>3, <2>4 DEF Flow
  <1> QED  BY <1>3, <1>4, <1>5, <1>6 DEF EchoInv

\* A client none of whose bytes moves, or whose bytes are lost because one end is gone.
LEMMA FlowKept ==
    ASSUME NEW c \in EchoClients, Flow(c),
           received'[c] = received[c], typed'[c] = typed[c],
           epc'[c] # "done" => epc[c] # "done" /\ down'[c] = down[c],
           Echo!Alive' /\ epc'[c] # "done" =>
               Echo!Alive /\ Kept(c)' = Kept(c) /\ up'[c] = up[c] /\ out'[c] = out[c]
    PROVE  Flow(c)'
  <1>1. ReadInv(c)'
    BY DEF Flow, ReadInv
  <1>2. ASSUME epc'[c] # "done" PROVE ReplyInv(c)'
    BY <1>2 DEF Flow, ReplyInv
  <1>3. ASSUME Echo!Alive', epc'[c] # "done"
        PROVE  Complete(received[c], down[c], Kept(c), up[c], out[c], typed[c])'
    <2>1. /\ Complete(received[c], down[c], Kept(c), up[c], out[c], typed[c])
          /\ down'[c] = down[c] /\ Kept(c)' = Kept(c) /\ up'[c] = up[c] /\ out'[c] = out[c]
      BY <1>3 DEF Flow
    <2> QED  BY <2>1 DEF Complete
  <1> QED  BY <1>1, <1>2, <1>3 DEF Flow

\* No byte moves.
LEMMA QuietStep ==
    ASSUME EchoInv, UNCHANGED <<received, typed, down, up, out, buf, fd, gone>>,
           Echo!TypeOK',
           Echo!Alive' => Echo!Alive, Echo!Alive' /\ spc' # "write" => spc # "write",
           \A c \in EchoClients :
               /\ epc'[c] \in {"connect", "fgets", "read"} => epc[c] \in {"connect", "fgets", "read"}
               /\ epc[c] = "done" => epc'[c] = "done"
    PROVE  EchoInv'
  <1>1. StreamTypes'
    BY DEF EchoInv, StreamTypes
  <1>2. PointsInv'
    BY DEF EchoInv, PointsInv
  <1>3. ASSUME NEW c \in EchoClients PROVE Flow(c)'
    <2>1. Kept(c)' = Kept(c) /\ Flow(c)
      BY DEF Kept, EchoInv
    <2> QED  BY <2>1, FlowKept
  <1> QED  BY <1>1, <1>2, <1>3 DEF EchoInv

\* The server: everything but reading from and writing to a client.
LEMMA ServerQuiet ==
    ASSUME EchoInv,
           \/ Echo!Setup \/ Echo!EpollWait \/ Echo!Accept \/ Echo!AcceptFails
           \/ Echo!HandleTimer \/ Echo!CloseClient
           \/ Echo!WriteRaisesSigpipe \/ Echo!Expire
    PROVE  EchoInv'
  <1> USE DEF EchoInv
  <1>1. CASE Echo!Setup
    <2>1. Echo!TypeOK'
      BY <1>1 DEF Echo!Setup, Echo!TypeOK, Echo!clientVars, Echo!socketVars
    <2> QED  BY <1>1, <2>1, QuietStep DEF Echo!Setup, Echo!clientVars, Echo!socketVars, Echo!Alive
  <1>2. CASE Echo!EpollWait
    <2>1. Echo!Readable \subseteq EchoClients \cup {Echo!ListenFd, Echo!TimerFd}
      BY DEF Echo!TypeOK, Echo!Readable
    <2>2. Echo!TypeOK'
      BY <1>2, <2>1 DEF Echo!EpollWait, Echo!TypeOK, Echo!clientVars, Echo!socketVars
    <2> QED  BY <1>2, <2>2, QuietStep DEF Echo!EpollWait, Echo!clientVars, Echo!socketVars,
                Echo!Alive
  <1>3. CASE Echo!Accept
    <2>1. Echo!TypeOK'
      BY <1>3 DEF Echo!Accept, Echo!Handled, Echo!TypeOK, Echo!clientVars, Echo!socketVars
    <2> QED  BY <1>3, <2>1, QuietStep DEF Echo!Accept, Echo!Handled, Echo!clientVars,
                Echo!socketVars, Echo!Alive
  <1>4. CASE Echo!AcceptFails
    <2>1. Echo!TypeOK'
      BY <1>4 DEF Echo!AcceptFails, Echo!Handled, Echo!TypeOK, Echo!clientVars, Echo!socketVars
    <2> QED  BY <1>4, <2>1, QuietStep DEF Echo!AcceptFails, Echo!Handled, Echo!clientVars,
                Echo!socketVars, Echo!Alive
  <1>5. CASE Echo!HandleTimer
    <2>1. Echo!TypeOK'
      BY <1>5 DEF Echo!HandleTimer, Echo!ReadTimer, Echo!Handled, Echo!TypeOK, Echo!clientVars,
         Echo!socketVars
    <2> QED  BY <1>5, <2>1, QuietStep DEF Echo!HandleTimer, Echo!Handled, Echo!clientVars,
                Echo!socketVars, Echo!Alive
  <1>6. CASE Echo!CloseClient
    <2>1. Echo!TypeOK'
      BY <1>6 DEF Echo!CloseClient, Echo!Handled, Echo!TypeOK, Echo!clientVars, Echo!socketVars
    <2> QED  BY <1>6, <2>1, QuietStep DEF Echo!CloseClient, Echo!Handled, Echo!clientVars,
                Echo!socketVars, Echo!Alive
  <1>7. CASE Echo!WriteRaisesSigpipe
    <2>1. Echo!TypeOK'
      BY <1>7 DEF Echo!WriteRaisesSigpipe, Echo!TypeOK, Echo!clientVars, Echo!socketVars
    <2> QED  BY <1>7, <2>1, QuietStep DEF Echo!WriteRaisesSigpipe, Echo!clientVars,
                Echo!socketVars, Echo!Alive
  <1>8. CASE Echo!Expire
    <2>1. Echo!TypeOK'
      BY <1>8 DEF Echo!Expire, Echo!TypeOK, Echo!clientVars, Echo!socketVars
    <2> QED  BY <1>8, <2>1, QuietStep DEF Echo!Expire, Echo!clientVars, Echo!socketVars, Echo!Alive
  <1> QED  BY <1>1, <1>2, <1>3, <1>4, <1>5, <1>6, <1>7, <1>8

\* A client that connects, or finds that its server is dead.
LEMMA ClientQuiet ==
    ASSUME EchoInv, NEW c \in EchoClients, Echo!Connect(c) \/ Echo!LoseServer(c)
    PROVE  EchoInv'
  <1> USE DEF EchoInv
  <1>1. CASE Echo!Connect(c)
    <2>1. Echo!TypeOK'
      BY <1>1 DEF Echo!Connect, Echo!Go, Echo!TypeOK, Echo!socketVars
    <2>2. \A d \in EchoClients : epc'[d] = epc[d] \/ (epc[d] = "connect" /\ epc'[d] \in {"fgets", "done"})
      BY <1>1 DEF Echo!Connect, Echo!Go, Echo!TypeOK
    <2> QED  BY <1>1, <2>1, <2>2, QuietStep DEF Echo!Connect, Echo!socketVars, Echo!Alive
  <1>2. CASE Echo!LoseServer(c)
    <2>1. Echo!TypeOK'
      BY <1>2 DEF Echo!LoseServer, Echo!Go, Echo!TypeOK, Echo!serverVars, Echo!socketVars
    <2>2. \A d \in EchoClients : epc'[d] = epc[d] \/ epc'[d] = "done"
      BY <1>2 DEF Echo!LoseServer, Echo!Go, Echo!TypeOK
    <2> QED  BY <1>2, <2>1, <2>2, QuietStep DEF Echo!LoseServer, Echo!serverVars,
                Echo!socketVars, Echo!Alive
  <1> QED  BY <1>1, <1>2

\* A client leaves: what was on its way back is lost.
LEMMA LeaveStep ==
    ASSUME Echo!EchoAssumption, EchoInv, NEW c \in EchoClients, Echo!Leave(c)
    PROVE  EchoInv'
  <1>1. /\ epc' = [epc EXCEPT ![c] = "done"] /\ down' = [down EXCEPT ![c] = <<>>]
        /\ gone' = [gone EXCEPT ![c] = IF down[c] = <<>> THEN "closed" ELSE "reset"]
        /\ UNCHANGED <<spc, batch, fd, buf, backlog, open, expired, typed, out, received, up>>
    BY DEF Echo!Leave, Echo!Go, Echo!serverVars
  <1>2. <<>> \in Seq(Nat) /\ Len(<<>>) = 0
    OBVIOUS
  <1>3. \A d \in EchoClients : /\ epc'[d] = IF d = c THEN "done" ELSE epc[d]
                               /\ down'[d] = IF d = c THEN <<>> ELSE down[d]
                               /\ d # c => gone'[d] = gone[d]
    BY <1>1 DEF EchoInv, Echo!TypeOK, StreamTypes
  <1>4. Echo!TypeOK'
    <2>1. \A d \in EchoClients : Len(up'[d]) <= RoomUp /\ Len(down'[d]) <= RoomDown
      <3> TAKE d \in EchoClients
      <3>1. Len(down[d]) \in Nat /\ Len(down[d]) <= RoomDown /\ Len(up[d]) <= RoomUp
        BY LenProperties DEF EchoInv, Echo!TypeOK, StreamTypes
      <3>2. 0 <= RoomDown
        BY DEF Echo!EchoAssumption
      <3> QED  BY <1>1, <1>2, <1>3, <3>1, <3>2
    <2> QED  BY <1>1, <2>1 DEF EchoInv, Echo!TypeOK
  <1>5. StreamTypes'
    BY <1>1, <1>2 DEF EchoInv, StreamTypes
  <1>6. PointsInv'
    BY <1>1, <1>3 DEF EchoInv, PointsInv, Echo!Alive
  <1>7. ASSUME NEW d \in EchoClients PROVE Flow(d)'
    <2>1. Kept(d)' = Kept(d) /\ Flow(d)
      BY <1>1 DEF Kept, EchoInv
    <2> QED  BY <1>1, <1>3, <2>1, FlowKept DEF Echo!Alive
  <1> QED  BY <1>4, <1>5, <1>6, <1>7 DEF EchoInv

\* What the buffers hold is a number.
LEMMA Lengths ==
    ASSUME Echo!EchoAssumption, EchoInv
    PROVE  /\ \A c \in EchoClients :
                  /\ Len(up[c]) \in Nat /\ Len(down[c]) \in Nat /\ Len(out[c]) \in Nat
                  /\ Len(up[c]) <= RoomUp /\ Len(down[c]) <= RoomDown
           /\ Len(buf) \in Nat
           /\ BufSize \in Nat /\ LineMax \in Nat /\ RoomUp \in Nat /\ RoomDown \in Nat
  <1>1. ASSUME NEW c \in EchoClients
        PROVE  /\ Len(up[c]) \in Nat /\ Len(down[c]) \in Nat /\ Len(out[c]) \in Nat
               /\ Len(up[c]) <= RoomUp /\ Len(down[c]) <= RoomDown
    BY LenProperties DEF EchoInv, StreamTypes, Echo!TypeOK
  <1>2. Len(buf) \in Nat
    BY LenProperties DEF EchoInv, StreamTypes
  <1> QED  BY <1>1, <1>2 DEF Echo!EchoAssumption

\* The server reads from a client.
LEMMA ReadClientStep ==
    ASSUME Echo!EchoAssumption, EchoInv, Echo!ReadClient
    PROVE  EchoInv'
  <1>1. PICK c \in batch \cap open :
            LET n == IF Len(up[c]) < BufSize THEN Len(up[c]) ELSE BufSize IN
            /\ n > 0
            /\ buf' = SubSeq(up[c], 1, n)
            /\ up' = [up EXCEPT ![c] = SubSeq(@, n + 1, Len(@))]
            /\ fd' = c
            /\ batch' = batch \ {c}
            /\ spc' = "write"
    BY DEF Echo!ReadClient
  <1>2. /\ spc = "dispatch"
        /\ UNCHANGED <<backlog, open, expired, epc, typed, out, received, down, gone>>
    BY DEF Echo!ReadClient, Echo!clientVars
  <1>3. c \in EchoClients /\ up[c] \in Seq(Nat)
    BY DEF EchoInv, Echo!TypeOK, StreamTypes
  <1> DEFINE n == IF Len(up[c]) < BufSize THEN Len(up[c]) ELSE BufSize
             rest == SubSeq(up[c], n + 1, Len(up[c]))
  <1>4. n \in 0 .. Len(up[c])
    BY <1>3, Lengths
  <1>5. /\ buf' = SubSeq(up[c], 1, n)
        /\ \A d \in EchoClients : up'[d] = IF d = c THEN rest ELSE up[d]
        /\ up' = [up EXCEPT ![c] = rest]
    BY <1>1, <1>3 DEF EchoInv, StreamTypes
  <1> HIDE DEF n
  <1>6. buf' \in Seq(Nat) /\ rest \in Seq(Nat) /\ Len(rest) = Len(up[c]) - n /\ n \in Nat
    BY <1>3, <1>4, <1>5, Cut
  <1> HIDE DEF rest
  <1>7. Echo!TypeOK'
    <2>1. \A d \in EchoClients : Len(up'[d]) <= RoomUp /\ Len(down'[d]) <= RoomDown
      BY <1>2, <1>5, <1>6, Lengths
    <2> QED  BY <1>1, <1>2, <1>3, <2>1 DEF EchoInv, Echo!TypeOK
  <1>8. StreamTypes'
    BY <1>2, <1>5, <1>6 DEF EchoInv, StreamTypes
  <1>9. PointsInv'
    BY <1>1, <1>2 DEF EchoInv, PointsInv
  <1>10. \A d \in EchoClients : Kept(d) = <<>>
    BY <1>2 DEF EchoInv, PointsInv, Kept, Echo!Alive
  <1>11. ASSUME NEW d \in EchoClients, d # c PROVE Flow(d)'
    <2>1. Kept(d)' = <<>> /\ up'[d] = up[d] /\ Flow(d)
      BY <1>1, <1>5, <1>11 DEF Kept, EchoInv
    <2> QED  BY <1>2, <1>10, <2>1, FlowKept DEF Echo!Alive
  <1>12. Flow(c)'
    <2>1. Flow(c) /\ Kept(c)' = SubSeq(up[c], 1, n) /\ up'[c] = rest /\ Echo!Alive
      BY <1>1, <1>2, <1>3, <1>5 DEF Kept, EchoInv, Echo!Alive
    <2>2. ReadInv(c)' /\ (epc[c] # "done" => ReplyInv(c)')
      BY <1>2, <2>1 DEF Flow, ReadInv, ReplyInv
    <2>3. ASSUME epc[c] # "done"
          PROVE  Complete(received[c], down[c], SubSeq(up[c], 1, n), rest, out[c], typed[c])
      <3>1. Complete(received[c], down[c], <<>>, up[c], out[c], typed[c])
        BY <1>3, <1>10, <2>1, <2>3 DEF Flow
      <3>2. /\ received[c] \in Seq(Nat) /\ down[c] \in Seq(Nat) /\ out[c] \in Seq(Nat)
            /\ typed[c] \in Nat
        BY <1>3 DEF EchoInv, StreamTypes
      <3> QED  BY <1>3, <1>4, <3>1, <3>2, ServerReadMoves DEF rest
    <2> QED  BY <1>2, <2>1, <2>2, <2>3 DEF Flow
  <1> QED  BY <1>3, <1>7, <1>8, <1>9, <1>11, <1>12 DEF EchoInv

\* The client has gone: what was to be written is lost.
LEMMA WriteLost ==
    ASSUME Echo!EchoAssumption, EchoInv, Echo!WriteToClosed \/ Echo!WriteFails
    PROVE  EchoInv'
  <1>1. /\ spc = "write" /\ fd \in EchoClients /\ gone[fd] # "no" /\ epc[fd] = "done"
    BY DEF Echo!WriteToClosed, Echo!WriteFails, EchoInv, Echo!TypeOK, PointsInv
  <1>2. /\ buf' = <<>> /\ fd' = Echo!Nobody /\ Echo!NextInBatch
        /\ UNCHANGED <<batch, backlog, expired, epc, typed, out, received, up, down>>
    <2>1. SubSeq(buf, Len(buf) + 1, Len(buf)) = <<>>
      BY Lengths, SubSeqEmpty
    <2> QED  BY <2>1 DEF Echo!WriteToClosed, Echo!WriteFails, Echo!Written, Echo!RestToWrite,
                Echo!clientVars, Echo!socketVars
  <1>3. /\ open' \subseteq open
        /\ gone' \in [EchoClients -> {"no", "closed", "reset", "broken"}]
        /\ \A d \in EchoClients : d # fd => gone'[d] = gone[d]
    BY <1>1 DEF Echo!WriteToClosed, Echo!WriteFails, Echo!Written, EchoInv, Echo!TypeOK,
       Echo!socketVars
  <1>4. Echo!TypeOK' /\ spc' \in {"epoll_wait", "dispatch"}
    BY <1>1, <1>2, <1>3 DEF EchoInv, Echo!TypeOK, Echo!NextInBatch
  <1>5. StreamTypes'
    BY <1>2 DEF EchoInv, StreamTypes
  <1>6. PointsInv'
    BY <1>1, <1>2, <1>3 DEF EchoInv, PointsInv
  <1>7. ASSUME NEW d \in EchoClients PROVE Flow(d)'
    <2>1. Flow(d) /\ (epc[d] # "done" => Kept(d)' = Kept(d))
      BY <1>1, <1>2 DEF Kept, EchoInv
    <2> QED  BY <1>1, <1>2, <2>1, FlowKept DEF Echo!Alive
  <1> QED  BY <1>4, <1>5, <1>6, <1>7 DEF EchoInv

\* The server writes to a client that is there.
LEMMA WriteSomeStep ==
    ASSUME Echo!EchoAssumption, EchoInv, Echo!WriteSome, NEW c \in EchoClients, c = fd
    PROVE  EchoInv'
  <1>1. PICK w \in 1 .. Len(buf) :
            /\ Len(down[c]) + w <= RoomDown
            /\ down' = [down EXCEPT ![c] = @ \o SubSeq(buf, 1, w)]
            /\ Echo!Written(w)
    BY DEF Echo!WriteSome
  <1> DEFINE rest == SubSeq(buf, w + 1, Len(buf))
             more == down[c] \o SubSeq(buf, 1, w)
  <1>2. /\ spc = "write" /\ gone' = gone
        /\ down[c] \in Seq(Nat) /\ buf \in Seq(Nat) /\ w \in 0 .. Len(buf)
    BY Lengths DEF Echo!WriteSome, EchoInv, Echo!TypeOK, StreamTypes
  <1>3. /\ buf' = rest
        /\ w = Len(buf) => Echo!NextInBatch /\ fd' = Echo!Nobody
        /\ w # Len(buf) => spc' = spc /\ fd' = fd
        /\ UNCHANGED <<batch, backlog, expired, open, epc, typed, out, received, up>>
    BY <1>1 DEF Echo!Written, Echo!RestToWrite, Echo!clientVars
  <1>4. w = Len(buf) => rest = <<>>
    BY <1>2, Lengths, SubSeqEmpty
  <1>5. /\ \A d \in EchoClients : down'[d] = IF d = c THEN more ELSE down[d]
        /\ down' = [down EXCEPT ![c] = more]
    BY <1>1, <1>2 DEF EchoInv, StreamTypes
  <1>6. rest \in Seq(Nat) /\ more \in Seq(Nat) /\ Len(more) = Len(down[c]) + w
    <2>1. rest \in Seq(Nat) /\ SubSeq(buf, 1, w) \in Seq(Nat) /\ Len(SubSeq(buf, 1, w)) = w
      BY <1>2, Cut
    <2> QED  BY <1>2, <2>1, ConcatProperties
  <1> HIDE DEF rest, more
  <1>7. Echo!TypeOK'
    <2>1. \A d \in EchoClients : Len(up'[d]) <= RoomUp /\ Len(down'[d]) <= RoomDown
      BY <1>1, <1>3, <1>5, <1>6, Lengths
    <2>2. /\ spc' \in {"epoll_wait", "dispatch", "write"}
          /\ fd' \in IF spc' = "write" THEN EchoClients ELSE {Echo!Nobody}
      BY <1>2, <1>3 DEF Echo!NextInBatch
    <2> QED  BY <1>2, <1>3, <2>1, <2>2 DEF EchoInv, Echo!TypeOK
  <1>8. StreamTypes'
    BY <1>2, <1>3, <1>5, <1>6 DEF EchoInv, StreamTypes
  <1>9. PointsInv'
    BY <1>2, <1>3, <1>4 DEF EchoInv, PointsInv
  <1>10. Echo!Alive
    BY <1>2 DEF Echo!Alive
  <1>11. ASSUME NEW d \in EchoClients, d # c PROVE Flow(d)'
    <2>1. Kept(d)' = <<>> /\ Kept(d) = <<>> /\ down'[d] = down[d] /\ Flow(d)
      BY <1>3, <1>4, <1>5, <1>11 DEF Kept, EchoInv
    <2> QED  BY <1>3, <1>10, <2>1, FlowKept
  <1>12. Flow(c)'
    <2>1. Flow(c) /\ Kept(c) = buf /\ Kept(c)' = rest /\ down'[c] = more
      BY <1>2, <1>3, <1>4, <1>5 DEF Kept, EchoInv
    <2>2. ReadInv(c)'
      BY <1>3, <2>1 DEF Flow, ReadInv
    <2>3. ASSUME epc[c] # "done"
          PROVE  /\ Complete(received[c], more, rest, up[c], out[c], typed[c])
                 /\ Segment(more, Len(received[c])) /\ Len(received[c]) + Len(more) <= typed[c]
      <3>1. /\ Complete(received[c], down[c], buf, up[c], out[c], typed[c])
            /\ Segment(down[c], Len(received[c]))
        BY <1>10, <2>1, <2>3 DEF Flow, ReplyInv
      <3>2. /\ received[c] \in Seq(Nat) /\ up[c] \in Seq(Nat) /\ out[c] \in Seq(Nat)
            /\ typed[c] \in Nat
        BY <1>2 DEF EchoInv, StreamTypes
      <3> QED  BY <1>2, <3>1, <3>2, WriteMoves DEF rest, more
    <2> QED  BY <1>3, <2>1, <2>2, <2>3 DEF Flow, ReplyInv
  <1> QED  BY <1>2, <1>7, <1>8, <1>9, <1>11, <1>12 DEF EchoInv

\* A longer text has room for whatever a shorter one has.
LEMMA MoreRoom ==
    ASSUME NEW a \in Nat, NEW b \in Nat, NEW t \in Nat, NEW m \in Nat, a <= t, a + b <= t
    PROVE  a <= t + m /\ a + b <= t + m
  OBVIOUS

\* A user types a line.
LEMMA TypeLineStep ==
    ASSUME Echo!EchoAssumption, EchoInv, NEW c \in EchoClients, Echo!TypeLine(c)
    PROVE  EchoInv'
  <1>1. PICK n \in 1 .. LineMax :
            /\ typed' = [typed EXCEPT ![c] = @ + n]
            /\ out' = [out EXCEPT ![c] = [i \in 1 .. n |-> typed[c] + i]]
    BY DEF Echo!TypeLine
  <1> DEFINE line == [i \in 1 .. n |-> typed[c] + i]
  <1>2. /\ epc[c] = "fgets" /\ epc' = [epc EXCEPT ![c] = "send"]
        /\ UNCHANGED <<spc, batch, fd, buf, backlog, open, expired, received, up, down, gone>>
    BY DEF Echo!TypeLine, Echo!Go, Echo!serverVars, Echo!socketVars
  <1>3. /\ n \in Nat /\ typed[c] \in Nat /\ out[c] = <<>> /\ Flow(c)
        /\ received[c] \in Seq(Nat) /\ down[c] \in Seq(Nat) /\ up[c] \in Seq(Nat)
        /\ buf \in Seq(Nat) /\ Kept(c) \in Seq(Nat)
    BY <1>2, Lengths DEF EchoInv, StreamTypes, PointsInv, Kept
  <1>4. \A d \in EchoClients : /\ epc'[d] = IF d = c THEN "send" ELSE epc[d]
                               /\ typed'[d] = IF d = c THEN typed[c] + n ELSE typed[d]
                               /\ out'[d] = IF d = c THEN line ELSE out[d]
    BY <1>1, <1>2 DEF EchoInv, Echo!TypeOK, StreamTypes
  <1>5. line \in Seq(Nat)
    <2>1. \A i \in 1 .. n : typed[c] + i \in Nat
      BY <1>3
    <2> QED  BY <1>3, <2>1, IsASeq
  <1>6. Echo!Alive => Complete(received[c], down[c], Kept(c), up[c], line, typed[c] + n)
    <2>1. Echo!Alive => Complete(received[c], down[c], Kept(c), up[c], <<>>, typed[c])
      BY <1>2, <1>3 DEF Flow
    <2> QED  BY <1>3, <2>1, TypeMoves
  <1> HIDE DEF line
  <1>7. Echo!TypeOK'
    BY <1>2, <1>4 DEF EchoInv, Echo!TypeOK
  <1>8. StreamTypes'
    <2>1. typed' \in [EchoClients -> Nat]
      BY <1>1, <1>3 DEF EchoInv, StreamTypes
    <2>2. out' \in [EchoClients -> Seq(Nat)]
      BY <1>1, <1>5 DEF EchoInv, StreamTypes, line
    <2> QED  BY <1>2, <2>1, <2>2 DEF EchoInv, StreamTypes
  <1>9. PointsInv'
    BY <1>2, <1>4 DEF EchoInv, PointsInv, Echo!Alive
  <1>10. ASSUME NEW d \in EchoClients, d # c PROVE Flow(d)'
    <2>1. Kept(d)' = Kept(d) /\ Flow(d)
      BY <1>2 DEF Kept, EchoInv
    <2> QED  BY <1>2, <1>4, <1>10, <2>1, FlowKept DEF Echo!Alive
  <1>11. Flow(c)'
    <2>1. Len(received[c]) \in Nat /\ Len(down[c]) \in Nat
      BY <1>3, LenProperties
    <2>2. ReadInv(c) /\ ReplyInv(c)
      BY <1>2, <1>3 DEF Flow
    <2>3. ReadInv(c)' /\ ReplyInv(c)'
      <3>1. /\ received'[c] = received[c] /\ down'[c] = down[c]
            /\ typed'[c] = typed[c] + n
        BY <1>2, <1>4
      <3>2. Len(received[c]) <= typed[c] + n /\ Len(received[c]) + Len(down[c]) <= typed[c] + n
        <4>1. Len(received[c]) <= typed[c] /\ Len(received[c]) + Len(down[c]) <= typed[c]
          BY <2>2 DEF ReadInv, ReplyInv
        <4>2. n \in Nat /\ typed[c] \in Nat
          BY <1>3
        <4> QED  BY <2>1, <4>1, <4>2, MoreRoom
      <3> QED  BY <2>2, <3>1, <3>2 DEF ReadInv, ReplyInv
    <2>4. Kept(c)' = Kept(c) /\ (Echo!Alive' => Echo!Alive)
      BY <1>2 DEF Kept, Echo!Alive
    <2> QED  BY <1>2, <1>4, <1>6, <2>3, <2>4 DEF Flow
  <1> QED  BY <1>7, <1>8, <1>9, <1>10, <1>11 DEF EchoInv

\* A client sends a part of its line.
LEMMA SendAllStep ==
    ASSUME Echo!EchoAssumption, EchoInv, NEW c \in EchoClients, Echo!SendAll(c)
    PROVE  EchoInv'
  <1>1. PICK w \in 1 .. Len(out[c]) :
            /\ Len(up[c]) + w <= RoomUp
            /\ up' = [up EXCEPT ![c] = @ \o SubSeq(out[c], 1, w)]
            /\ out' = [out EXCEPT ![c] = SubSeq(@, w + 1, Len(@))]
            /\ epc' = [epc EXCEPT ![c] = IF w = Len(out[c]) THEN "read" ELSE "send"]
    BY DEF Echo!SendAll, Echo!Go
  <1> DEFINE rest == SubSeq(out[c], w + 1, Len(out[c]))
             more == up[c] \o SubSeq(out[c], 1, w)
  <1>2. /\ epc[c] = "send" /\ Echo!Alive
        /\ UNCHANGED <<spc, batch, fd, buf, backlog, open, expired, typed, received, down, gone>>
    BY DEF Echo!SendAll, Echo!serverVars
  <1>3. /\ w \in 0 .. Len(out[c]) /\ typed[c] \in Nat /\ out[c] \in Seq(Nat) /\ Flow(c)
        /\ received[c] \in Seq(Nat) /\ down[c] \in Seq(Nat) /\ up[c] \in Seq(Nat)
        /\ buf \in Seq(Nat) /\ Kept(c) \in Seq(Nat)
    BY Lengths DEF EchoInv, StreamTypes, Kept
  <1>4. w = Len(out[c]) => rest = <<>>
    BY <1>3, Lengths, SubSeqEmpty
  <1>5. /\ \A d \in EchoClients :
               /\ up'[d] = IF d = c THEN more ELSE up[d]
               /\ out'[d] = IF d = c THEN rest ELSE out[d]
               /\ d # c => epc'[d] = epc[d]
        /\ up' = [up EXCEPT ![c] = more] /\ out' = [out EXCEPT ![c] = rest]
        /\ epc'[c] = IF w = Len(out[c]) THEN "read" ELSE "send"
    BY <1>1, <1>3 DEF EchoInv, Echo!TypeOK, StreamTypes
  <1>6. rest \in Seq(Nat) /\ more \in Seq(Nat) /\ Len(more) = Len(up[c]) + w
    <2>1. /\ rest \in Seq(Nat) /\ SubSeq(out[c], 1, w) \in Seq(Nat)
          /\ Len(SubSeq(out[c], 1, w)) = w
      BY <1>3, Cut
    <2> QED  BY <1>3, <2>1, ConcatProperties
  <1>7. Complete(received[c], down[c], Kept(c), more, rest, typed[c])
    <2>1. Complete(received[c], down[c], Kept(c), up[c], out[c], typed[c])
      BY <1>2, <1>3 DEF Flow
    <2> QED  BY <1>3, <2>1, SendMoves
  <1> HIDE DEF rest, more
  <1>8. Echo!TypeOK'
    <2>1. \A d \in EchoClients : Len(up'[d]) <= RoomUp /\ Len(down'[d]) <= RoomDown
      BY <1>1, <1>2, <1>5, <1>6, Lengths
    <2> QED  BY <1>1, <1>2, <2>1 DEF EchoInv, Echo!TypeOK
  <1>9. StreamTypes'
    <2>1. up' \in [EchoClients -> Seq(Nat)] /\ out' \in [EchoClients -> Seq(Nat)]
      BY <1>5, <1>6 DEF EchoInv, StreamTypes
    <2> QED  BY <1>2, <2>1 DEF EchoInv, StreamTypes
  <1>10. PointsInv'
    BY <1>2, <1>4, <1>5 DEF EchoInv, PointsInv, Echo!Alive
  <1>11. Kept(c)' = Kept(c) /\ \A d \in EchoClients : Kept(d)' = Kept(d)
    BY <1>2 DEF Kept
  <1>12. ASSUME NEW d \in EchoClients, d # c PROVE Flow(d)'
    <2>1. Flow(d)
      BY DEF EchoInv
    <2> QED  BY <1>2, <1>5, <1>11, <1>12, <2>1, FlowKept DEF Echo!Alive
  <1>13. Flow(c)'
    <2>1. ReadInv(c) /\ ReplyInv(c)
      BY <1>2, <1>3 DEF Flow
    <2>2. ReadInv(c)' /\ ReplyInv(c)'
      BY <1>2, <2>1 DEF ReadInv, ReplyInv
    <2> QED  BY <1>2, <1>5, <1>7, <1>11, <2>2 DEF Flow
  <1> QED  BY <1>8, <1>9, <1>10, <1>12, <1>13 DEF EchoInv

\* A client reads once.
LEMMA ReadReplyStep ==
    ASSUME Echo!EchoAssumption, EchoInv, NEW c \in EchoClients, Echo!ReadReply(c)
    PROVE  EchoInv'
  <1> DEFINE w == IF Len(down[c]) < LineMax THEN Len(down[c]) ELSE LineMax
             more == received[c] \o SubSeq(down[c], 1, w)
             rest == SubSeq(down[c], w + 1, Len(down[c]))
  <1>1. /\ epc[c] = "read"
        /\ received' = [received EXCEPT ![c] = @ \o SubSeq(down[c], 1, w)]
        /\ down' = [down EXCEPT ![c] = SubSeq(@, w + 1, Len(@))]
        /\ epc' = [epc EXCEPT ![c] = "fgets"]
        /\ UNCHANGED <<spc, batch, fd, buf, backlog, open, expired, typed, out, up, gone>>
    BY DEF Echo!ReadReply, Echo!Go, Echo!serverVars
  <1>2. /\ w \in 0 .. Len(down[c]) /\ typed[c] \in Nat /\ Flow(c)
        /\ received[c] \in Seq(Nat) /\ down[c] \in Seq(Nat)
    BY Lengths DEF EchoInv, StreamTypes
  <1>3. /\ \A d \in EchoClients :
               /\ received'[d] = IF d = c THEN more ELSE received[d]
               /\ down'[d] = IF d = c THEN rest ELSE down[d]
               /\ epc'[d] = IF d = c THEN "fgets" ELSE epc[d]
        /\ received' = [received EXCEPT ![c] = more] /\ down' = [down EXCEPT ![c] = rest]
    BY <1>1, <1>2 DEF EchoInv, Echo!TypeOK, StreamTypes
  <1> HIDE DEF w
  <1>4. /\ rest \in Seq(Nat) /\ more \in Seq(Nat) /\ Len(rest) = Len(down[c]) - w
        /\ w \in Nat
    <2>1. /\ rest \in Seq(Nat) /\ Len(rest) = Len(down[c]) - w /\ w \in Nat
          /\ SubSeq(down[c], 1, w) \in Seq(Nat)
      BY <1>2, Cut
    <2> QED  BY <1>2, <2>1, ConcatProperties
  <1>5. Segment(received[c], 0) /\ Segment(down[c], Len(received[c]))
    BY <1>1, <1>2 DEF Flow, ReadInv, ReplyInv
  <1>6. /\ Segment(more, 0) /\ Segment(rest, Len(more))
        /\ Len(more) \in Nat /\ Len(rest) \in Nat
        /\ Len(more) + Len(rest) = Len(received[c]) + Len(down[c])
        /\ \A k, u, o, n : Complete(received[c], down[c], k, u, o, n)
                            => Complete(more, rest, k, u, o, n)
    BY <1>2, <1>5, ReplyMoves
  <1> HIDE DEF rest, more
  <1>7. Echo!TypeOK'
    <2>1. \A d \in EchoClients : Len(up'[d]) <= RoomUp /\ Len(down'[d]) <= RoomDown
      BY <1>1, <1>3, <1>4, Lengths
    <2> QED  BY <1>1, <2>1 DEF EchoInv, Echo!TypeOK
  <1>8. StreamTypes'
    <2>1. received' \in [EchoClients -> Seq(Nat)] /\ down' \in [EchoClients -> Seq(Nat)]
      BY <1>3, <1>4 DEF EchoInv, StreamTypes
    <2> QED  BY <1>1, <2>1 DEF EchoInv, StreamTypes
  <1>9. PointsInv'
    BY <1>1, <1>3 DEF EchoInv, PointsInv, Echo!Alive
  <1>10. \A d \in EchoClients : Kept(d)' = Kept(d)
    BY <1>1 DEF Kept
  <1>11. ASSUME NEW d \in EchoClients, d # c PROVE Flow(d)'
    <2>1. Flow(d)
      BY DEF EchoInv
    <2> QED  BY <1>1, <1>3, <1>10, <1>11, <2>1, FlowKept DEF Echo!Alive
  <1>12. Flow(c)'
    <2>1. Len(more) + Len(rest) <= typed[c] /\ Len(more) <= typed[c]
      <3>1. Len(more) + Len(rest) <= typed[c]
        BY <1>1, <1>2, <1>6 DEF Flow, ReplyInv
      <3> QED  BY <1>2, <1>6, <3>1
    <2>2. ReadInv(c)' /\ ReplyInv(c)'
      BY <1>1, <1>3, <1>6, <2>1 DEF ReadInv, ReplyInv
    <2>3. Echo!Alive => Complete(more, rest, Kept(c), up[c], out[c], typed[c])
      BY <1>1, <1>2, <1>6 DEF Flow
    <2> QED  BY <1>1, <1>3, <1>10, <2>2, <2>3 DEF Flow, Echo!Alive
  <1> QED  BY <1>7, <1>8, <1>9, <1>11, <1>12 DEF EchoInv

\* Every step keeps the invariant.
LEMMA EchoStep == Echo!EchoAssumption /\ EchoInv /\ [Echo!Next]_(Echo!vars) => EchoInv'
  <1> SUFFICES ASSUME Echo!EchoAssumption, EchoInv, [Echo!Next]_(Echo!vars) PROVE EchoInv'
    OBVIOUS
  <1>1. CASE UNCHANGED Echo!vars
    <2>1. Echo!TypeOK'
      BY <1>1 DEF Echo!vars, Echo!serverVars, Echo!clientVars, Echo!socketVars, EchoInv, Echo!TypeOK
    <2> QED  BY <1>1, <2>1, QuietStep DEF Echo!vars, Echo!serverVars, Echo!clientVars,
                Echo!socketVars, Echo!Alive
  <1>2. CASE Echo!ServerStep
    <2>1. CASE Echo!WriteSome
      <3>1. fd \in EchoClients
        BY <2>1 DEF Echo!WriteSome, EchoInv, Echo!TypeOK
      <3> QED  BY <2>1, <3>1, WriteSomeStep
    <2> QED  BY <1>2, <2>1, ServerQuiet, ReadClientStep, WriteLost DEF Echo!ServerStep, Echo!Write
  <1>3. CASE Echo!Expire
    BY <1>3, ServerQuiet
  <1>4. ASSUME NEW c \in EchoClients, Echo!ClientStep(c) \/ Echo!TypeLine(c) \/ Echo!Leave(c)
        PROVE  EchoInv'
    BY <1>4, ClientQuiet, SendAllStep, ReadReplyStep, TypeLineStep, LeaveStep DEF Echo!ClientStep
  <1> QED  BY <1>1, <1>2, <1>3, <1>4 DEF Echo!Next

\* What the invariant says of the whole text.
LEMMA EchoInvIsExact == Echo!EchoAssumption /\ EchoInv => Echo!EchoIsExact
  <1> SUFFICES ASSUME Echo!EchoAssumption, EchoInv PROVE Echo!EchoIsExact
    OBVIOUS
  <1>1. ASSUME NEW c \in EchoClients
        PROVE  LET text == [i \in 1 .. typed[c] |-> i] IN
               /\ Echo!IsPrefix(received[c], text)
               /\ Echo!Alive /\ epc[c] # "done" =>
                      received[c] \o down[c] \o (IF fd = c THEN buf ELSE <<>>) \o up[c] \o out[c] = text
    <2>1. /\ received[c] \in Seq(Nat) /\ down[c] \in Seq(Nat) /\ Kept(c) \in Seq(Nat)
          /\ up[c] \in Seq(Nat) /\ out[c] \in Seq(Nat) /\ typed[c] \in Nat /\ Flow(c)
      BY DEF EchoInv, StreamTypes, Kept
    <2>2. Echo!IsPrefix(received[c], [i \in 1 .. typed[c] |-> i])
      BY <2>1, SegmentIsText DEF Flow, ReadInv
    <2>3. ASSUME Echo!Alive, epc[c] # "done"
          PROVE  received[c] \o down[c] \o Kept(c) \o up[c] \o out[c] = [i \in 1 .. typed[c] |-> i]
      <3> DEFINE s2 == received[c] \o down[c]
                 s3 == s2 \o Kept(c)
                 s4 == s3 \o up[c]
                 s5 == s4 \o out[c]
      <3>1. /\ Len(received[c]) \in Nat /\ Len(down[c]) \in Nat /\ Len(Kept(c)) \in Nat
            /\ Len(up[c]) \in Nat /\ Len(out[c]) \in Nat
        BY <2>1, LenProperties
      <3>2. /\ Segment(received[c], 0) /\ Segment(down[c], Len(received[c]))
            /\ Segment(Kept(c), Len(received[c]) + Len(down[c]))
            /\ Segment(up[c], Len(received[c]) + Len(down[c]) + Len(Kept(c)))
            /\ Segment(out[c], Len(received[c]) + Len(down[c]) + Len(Kept(c)) + Len(up[c]))
            /\ Len(received[c]) + Len(down[c]) + Len(Kept(c)) + Len(up[c]) + Len(out[c]) = typed[c]
        BY <2>1, <2>3 DEF Flow, ReadInv, ReplyInv, Complete
      <3>3. s2 \in Seq(Nat) /\ Len(s2) = Len(received[c]) + Len(down[c]) /\ Segment(s2, 0)
        <4>1. 0 + Len(received[c]) = Len(received[c])
          BY <3>1
        <4> QED  BY <2>1, <3>2, <4>1, JoinSegments
      <3> HIDE DEF s2
      <3>4. s3 \in Seq(Nat) /\ Len(s3) = Len(s2) + Len(Kept(c)) /\ Segment(s3, 0)
        <4>1. 0 + Len(s2) = Len(received[c]) + Len(down[c])
          BY <3>1, <3>3
        <4>2. Segment(Kept(c), 0 + Len(s2))
          BY <3>2, <4>1
        <4> QED  BY <2>1, <3>3, <4>2, JoinSegments
      <3> HIDE DEF s3
      <3>5. s4 \in Seq(Nat) /\ Len(s4) = Len(s3) + Len(up[c]) /\ Segment(s4, 0)
        <4>1. 0 + Len(s3) = Len(received[c]) + Len(down[c]) + Len(Kept(c))
          BY <3>1, <3>3, <3>4
        <4>2. Segment(up[c], 0 + Len(s3))
          BY <3>2, <4>1
        <4> QED  BY <2>1, <3>4, <4>2, JoinSegments
      <3> HIDE DEF s4
      <3>6. s5 \in Seq(Nat) /\ Len(s5) = Len(s4) + Len(out[c]) /\ Segment(s5, 0)
        <4>1. 0 + Len(s4) = Len(received[c]) + Len(down[c]) + Len(Kept(c)) + Len(up[c])
          BY <3>1, <3>3, <3>4, <3>5
        <4>2. Segment(out[c], 0 + Len(s4))
          BY <3>2, <4>1
        <4> QED  BY <2>1, <3>5, <4>2, JoinSegments
      <3> HIDE DEF s5
      <3>7. Len(s5) = typed[c]
        BY <3>1, <3>2, <3>3, <3>4, <3>5, <3>6
      <3>8. Len(s5) <= typed[c]
        BY <2>1, <3>7
      <3>9. s5 = [i \in 1 .. typed[c] |-> i]
        BY <2>1, <3>6, <3>7, <3>8, SegmentIsText
      <3> QED  BY <3>9 DEF s5, s4, s3, s2
    <2> QED  BY <2>2, <2>3 DEF Kept
  <1>2. Echo!TypeOK
    BY DEF EchoInv
  <1> QED  BY <1>1, <1>2 DEF Echo!EchoIsExact

\* A step of the exercises is one of the echo server or leaves it alone.
LEMMA EchoSteps ==
    ASSUME [Seance4Next]_<<exercise, vars, echoVars, timerVars>>
    PROVE  [Echo!Next]_(Echo!vars)
  <1>1. Echo!Next \/ UNCHANGED echoVars
    BY DEF Seance4Next
  <1>2. UNCHANGED echoVars => UNCHANGED Echo!vars
    BY DEF echoVars, Echo!vars, Echo!serverVars, Echo!clientVars, Echo!socketVars
  <1> QED  BY <1>1, <1>2

\* EchoIsExact: "echo back exactly what was received", for any number of clients, any
\* lines and any sizes of the buffers, and whatever exercise runs: what a client reads is
\* the beginning of what its user has typed, and while both ends live no byte is lost,
\* repeated or out of order.
THEOREM EchoStaysExact == Seance4Spec => []EchoIsExact
  <1>1. Echo!EchoAssumption
    BY Seance4Assumption
  <1>2. Seance4Init => EchoInv
    BY <1>1, EchoInit DEF Seance4Init
  <1>3. EchoInv /\ [Seance4Next]_<<exercise, vars, echoVars, timerVars>> => EchoInv'
    BY <1>1, EchoSteps, EchoStep
  <1>4. EchoInv => EchoIsExact
    BY <1>1, EchoInvIsExact DEF EchoIsExact
  <1> QED  BY <1>2, <1>3, <1>4, PTL DEF Seance4Spec
=============================================================================
