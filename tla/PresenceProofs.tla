--------------------------- MODULE PresenceProofs ---------------------------
(***************************************************************************)
(* Theorems about Presence, for any users and any finite set of sockets.   *)
(***************************************************************************)
EXTENDS Presence, FiniteSetTheorems, TLAPS

\* The sockets counted for a user are finitely many.
LEMMA CountedFinite ==
  ASSUME NEW u
  PROVE  IsFiniteSet(Counted(u)) /\ Cardinality(Counted(u)) \in Nat
<1>1. Counted(u) \subseteq Sockets
  BY DEF Counted, SocketsOf
<1> QED
  BY <1>1, PresenceAssumption, FS_Subset, FS_CardinalityType

\* Every variable keeps its type, whoever comes and goes.
THEOREM TypeCorrect == Spec => []TypeOK
<1> USE PresenceAssumption
<1>1. Init => TypeOK
  BY DEF Init, TypeOK, Stages
<1>2. TypeOK /\ [Next]_vars => TypeOK'
  <2> SUFFICES ASSUME TypeOK, [Next]_vars PROVE TypeOK'
    OBVIOUS
  <2> USE DEF TypeOK, Stages, Goto
  <2>1. CASE UNCHANGED vars
    BY <2>1 DEF vars
  <2>2. ASSUME NEW s \in Sockets, CountIn(s) PROVE TypeOK'
    BY <2>2 DEF CountIn
  <2>3. ASSUME NEW s \in Sockets, AddOnline(s) \/ RemoveOnline(s) PROVE TypeOK'
    BY <2>3 DEF AddOnline, RemoveOnline
  <2>4. ASSUME NEW s \in Sockets, Connected(s) \/ Aborted(s) \/ Disconnect(s)
        PROVE  TypeOK'
    BY <2>4 DEF Connected, Aborted, Disconnect
  <2>5. ASSUME NEW s \in Sockets, CountOut(s) PROVE TypeOK'
    BY <2>5 DEF CountOut
  <2>6. ASSUME NEW s \in Sockets, ForgetCount(s) PROVE TypeOK'
    BY <2>6 DEF ForgetCount
  <2>7. ASSUME Crash PROVE TypeOK'
    BY <2>7 DEF Crash
  <2> QED
    BY <2>1, <2>2, <2>3, <2>4, <2>5, <2>6, <2>7 DEF Next, Run
<1> QED
  BY <1>1, <1>2, PTL DEF Spec

\* What a socket's step does to the sockets counted for each user.
LEMMA CountedMoves ==
  ASSUME TypeOK, NEW s \in Sockets, NEW stage \in Stages, Goto(s, stage), NEW u \in Users
  PROVE  LET in(x) == x \in {"add", "join", "up", "leave", "aborted", "killed"} IN
         /\ Owner[s] # u \/ (in(at[s]) <=> in(stage)) => Counted(u)' = Counted(u)
         /\ Owner[s] = u /\ ~in(at[s]) /\ in(stage) =>
               Counted(u)' = Counted(u) \cup {s} /\ s \notin Counted(u)
         /\ Owner[s] = u /\ in(at[s]) /\ ~in(stage) =>
               Counted(u)' = Counted(u) \ {s} /\ s \in Counted(u)
  BY DEF TypeOK, Goto, Counted, SocketsOf, Leaked

\* The counter never exceeds the sockets that were counted in and not out.
THEOREM CountsAtMostItsSockets == Spec => []NeverOvercounts
<1> USE PresenceAssumption
<1>1. Init => NeverOvercounts
  <2> SUFFICES ASSUME Init, NEW u \in Users PROVE count[u] <= Cardinality(Counted(u))
    BY DEF NeverOvercounts
  <2> QED
    BY CountedFinite DEF Init
<1>2. TypeOK /\ NeverOvercounts /\ [Next]_vars => NeverOvercounts'
  <2> SUFFICES ASSUME TypeOK, NeverOvercounts, [Next]_vars, NEW u \in Users
               PROVE  count'[u] <= Cardinality(Counted(u)')
    BY DEF NeverOvercounts
  <2>0. /\ count[u] <= Cardinality(Counted(u)) /\ count[u] \in Int
        /\ IsFiniteSet(Counted(u)) /\ Cardinality(Counted(u)) \in Nat
    BY CountedFinite DEF NeverOvercounts, TypeOK
  <2>1. ASSUME NEW s \in Sockets, CountIn(s) PROVE count'[u] <= Cardinality(Counted(u)')
    <3>1. PICK stage \in {"add", "join"} : Goto(s, stage)
      BY <2>1 DEF CountIn
    <3>2. CASE Owner[s] # u
      BY <2>0, <2>1, <3>1, <3>2, CountedMoves DEF CountIn, Stages, TypeOK
    <3>3. CASE Owner[s] = u
      <4>1. Counted(u)' = Counted(u) \cup {s} /\ s \notin Counted(u)
        BY <2>1, <3>1, <3>3, CountedMoves DEF CountIn, Stages
      <4>2. Cardinality(Counted(u)') = Cardinality(Counted(u)) + 1
        BY <2>0, <4>1, FS_AddElement
      <4> QED
        BY <2>0, <2>1, <3>3, <4>2 DEF CountIn, TypeOK
    <3> QED
      BY <3>2, <3>3
  <2>2. ASSUME NEW s \in Sockets, CountOut(s) PROVE count'[u] <= Cardinality(Counted(u)')
    <3>1. PICK stage \in {"remove", "closed"} : Goto(s, stage)
      BY <2>2 DEF CountOut
    <3>2. CASE Owner[s] # u
      BY <2>0, <2>2, <3>1, <3>2, CountedMoves DEF CountOut, Stages, TypeOK
    <3>3. CASE Owner[s] = u
      <4>1. Counted(u)' = Counted(u) \ {s} /\ s \in Counted(u)
        BY <2>2, <3>1, <3>3, CountedMoves DEF CountOut, Stages
      <4>2. Cardinality(Counted(u)') = Cardinality(Counted(u)) - 1
        BY <2>0, <4>1, FS_RemoveElement
      <4> QED
        BY <2>0, <2>2, <3>3, <4>2 DEF CountOut, TypeOK
    <3> QED
      BY <3>2, <3>3
  <2>3. ASSUME NEW s \in Sockets, ForgetCount(s) PROVE count'[u] <= Cardinality(Counted(u)')
    <3>1. Counted(u)' = Counted(u)
      BY <2>3, CountedMoves DEF ForgetCount, Stages
    <3> QED
      BY <2>0, <2>3, <3>1 DEF ForgetCount, TypeOK
  <2>4. ASSUME NEW s \in Sockets,
               AddOnline(s) \/ Connected(s) \/ Aborted(s) \/ Disconnect(s) \/ RemoveOnline(s)
        PROVE  count'[u] <= Cardinality(Counted(u)')
    <3>1. Counted(u)' = Counted(u)
      BY <2>4, CountedMoves DEF AddOnline, Connected, Aborted, Disconnect, RemoveOnline, Stages
    <3> QED
      BY <2>0, <2>4, <3>1 DEF AddOnline, Connected, Aborted, Disconnect, RemoveOnline
  <2>5. ASSUME Crash PROVE count'[u] <= Cardinality(Counted(u)')
    <3>1. Counted(u) \subseteq Counted(u)' /\ Counted(u)' \subseteq Sockets
      BY <2>5 DEF Crash, Counted, SocketsOf, Leaked, TypeOK
    <3>2. /\ Cardinality(Counted(u)') \in Nat
          /\ Cardinality(Counted(u)) <= Cardinality(Counted(u)')
      BY <3>1, FS_Subset, FS_CardinalityType
    <3> QED
      BY <2>0, <2>5, <3>2 DEF Crash
  <2>6. CASE UNCHANGED vars
    BY <2>0, <2>6 DEF vars, Counted, Leaked
  <2> QED
    BY <2>1, <2>2, <2>3, <2>4, <2>5, <2>6 DEF Next, Run
<1> QED
  BY <1>1, <1>2, TypeCorrect, PTL DEF Spec

\* Nobody stays online without a socket, unless one of his was lost with its
\* handshake or with the process, however the handlers of his sockets interleave.
THEOREM NobodyIsAGhost == Spec => []NoGhost
<1> USE PresenceAssumption
<1>1. Init => NoGhost
  BY DEF Init, NoGhost
<1>2. TypeOK /\ NeverOvercounts /\ NeverOvercounts' /\ NoGhost /\ [Next]_vars => NoGhost'
  <2> SUFFICES ASSUME TypeOK, NeverOvercounts, NeverOvercounts', NoGhost, [Next]_vars,
                      NEW u \in online'
               PROVE  \E s \in SocketsOf(u) : Present(s)'
    BY DEF NoGhost, SocketsOf
  <2>1. ASSUME NEW s \in Sockets, AddOnline(s) PROVE \E x \in SocketsOf(u) : Present(x)'
    BY <2>1 DEF AddOnline, NoGhost, SocketsOf, Present, Leaked, Goto, TypeOK
  <2>2. ASSUME NEW s \in Sockets,
               CountIn(s) \/ Connected(s) \/ Aborted(s) \/ Disconnect(s)
        PROVE  \E x \in SocketsOf(u) : Present(x)'
    BY <2>2 DEF CountIn, Connected, Aborted, Disconnect, NoGhost, SocketsOf, Present,
                Leaked, Goto, TypeOK
  <2>3. ASSUME NEW s \in Sockets, CountOut(s) PROVE \E x \in SocketsOf(u) : Present(x)'
    <3>0. u \in Users /\ online' = online
      BY <2>3 DEF CountOut, TypeOK
    <3>1. PICK w \in SocketsOf(u) : Present(w)
      BY <3>0 DEF NoGhost
    <3>2. CASE w # s \/ at'[s] = "remove"
      BY <2>3, <3>1, <3>2 DEF CountOut, Goto, SocketsOf, Present, Leaked, TypeOK
    <3>3. CASE w = s /\ at'[s] # "remove"
      <4>1. count'[u] \in Int /\ count'[u] > 0
        BY <2>3, <3>0, <3>1, <3>3 DEF CountOut, Goto, SocketsOf, TypeOK
      <4>2. count'[u] <= Cardinality(Counted(u)')
        BY <3>0 DEF NeverOvercounts
      <4>3. Counted(u)' # {}
        BY <4>1, <4>2, FS_EmptySet
      <4> QED
        BY <4>3 DEF Counted, SocketsOf, Present, Leaked
    <3> QED
      BY <3>2, <3>3
  <2>4. ASSUME NEW s \in Sockets, RemoveOnline(s) PROVE \E x \in SocketsOf(u) : Present(x)'
    BY <2>4 DEF RemoveOnline, NoGhost, SocketsOf, Present, Leaked, Goto, TypeOK
  <2>5. ASSUME NEW s \in Sockets, ForgetCount(s) PROVE \E x \in SocketsOf(u) : Present(x)'
    BY <2>5 DEF ForgetCount, NoGhost, SocketsOf, Present, Leaked, Goto, TypeOK
  <2>6. ASSUME Crash PROVE \E x \in SocketsOf(u) : Present(x)'
    BY <2>6 DEF Crash, NoGhost, SocketsOf, Present, Leaked, TypeOK
  <2>7. CASE UNCHANGED vars
    BY <2>7 DEF vars, NoGhost, SocketsOf, Present, Leaked
  <2> QED
    BY <2>1, <2>2, <2>3, <2>4, <2>5, <2>6, <2>7 DEF Next, Run
<1> QED
  BY <1>1, <1>2, TypeCorrect, CountsAtMostItsSockets, PTL DEF Spec

\* A positive count means that the user is in the set, that a handler of his is
\* about to put him there or to forget the count, or that the process died.
THEOREM CountAndSetAgree == Spec => []CountedIsOnline
<1> USE PresenceAssumption
<1>1. Init => CountedIsOnline
  BY DEF Init, CountedIsOnline
<1>2. TypeOK /\ CountedIsOnline /\ [Next]_vars => CountedIsOnline'
  <2> SUFFICES ASSUME TypeOK, CountedIsOnline, [Next]_vars, NEW u \in Users, count'[u] >= 1
               PROVE  \/ u \in online'
                      \/ \E s \in SocketsOf(u) : Unsettled(s)'
    BY DEF CountedIsOnline, SocketsOf, Unsettled
  <2> USE DEF TypeOK, CountedIsOnline, SocketsOf, Unsettled, Goto
  <2>1. ASSUME NEW s \in Sockets, CountIn(s)
        PROVE  u \in online' \/ \E x \in SocketsOf(u) : Unsettled(x)'
    BY <2>1 DEF CountIn
  <2>2. ASSUME NEW s \in Sockets, AddOnline(s) \/ RemoveOnline(s)
        PROVE  u \in online' \/ \E x \in SocketsOf(u) : Unsettled(x)'
    BY <2>2 DEF AddOnline, RemoveOnline
  <2>3. ASSUME NEW s \in Sockets, Connected(s) \/ Aborted(s) \/ Disconnect(s)
        PROVE  u \in online' \/ \E x \in SocketsOf(u) : Unsettled(x)'
    BY <2>3 DEF Connected, Aborted, Disconnect
  <2>4. ASSUME NEW s \in Sockets, CountOut(s)
        PROVE  u \in online' \/ \E x \in SocketsOf(u) : Unsettled(x)'
    BY <2>4 DEF CountOut
  <2>5. ASSUME NEW s \in Sockets, ForgetCount(s)
        PROVE  u \in online' \/ \E x \in SocketsOf(u) : Unsettled(x)'
    BY <2>5 DEF ForgetCount
  <2>6. ASSUME Crash
        PROVE  u \in online' \/ \E x \in SocketsOf(u) : Unsettled(x)'
    BY <2>6 DEF Crash
  <2>7. CASE UNCHANGED vars
    BY <2>7 DEF vars
  <2> QED
    BY <2>1, <2>2, <2>3, <2>4, <2>5, <2>6, <2>7 DEF Next, Run
<1> QED
  BY <1>1, <1>2, TypeCorrect, PTL DEF Spec
=============================================================================
