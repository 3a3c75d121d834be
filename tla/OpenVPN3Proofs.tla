--------------------------- MODULE OpenVPN3Proofs ---------------------------
(***************************************************************************)
(* Proofs about the OpenVPN 3 backend, for any number of sessions, inputs  *)
(* and signals in flight: the window shows a connection that is there and  *)
(* will be heard of, and, as long as the user abandons nothing and nothing *)
(* overtakes a signal, exactly the one connection there is, with no other  *)
(* session left behind than one the session manager refused to end.  Any   *)
(* number of calls may fail.                                               *)
(*                                                                         *)
(* What the window shows is right only once the signals on their way have  *)
(* been dispatched, so the invariants are about the queue of signals: what *)
(* the last one will make the window say, and that the signal which ends   *)
(* a session is the last one.                                              *)
(***************************************************************************)
EXTENDS OpenVPN3, SequenceTheorems, TLAPS

Signals == [kind : StatusKinds \cup {"attention"}, s : Ids]
Ends == {"disconnected", "auth failed"}

(* Of a queue of signals.                                                  *)
Has(q, k) == \E i \in 1..Len(q) : q[i].kind = k
OnlyAttention(q) == \A i \in 1..Len(q) : q[i].kind = "attention"
LastKind(q) == q[Len(q)].kind
EndsLast(q) == \A i \in 1..Len(q) : q[i].kind \in Ends => i = Len(q)
AttentionBefore(q) == \A i \in 1..Len(q) : q[i].kind # "attention" => i = Len(q)

Attempting == [Off EXCEPT !.attempt = TRUE]

(* Calls that failed for session s.                                        *)
Refused(s) == "disconnect" \in Failed(s)
Unheard(s) == "listen" \in Failed(s)

(* A connection the window shows, or is about to show, is there and        *)
(* listened to, or a signal that ends it is on its way.                    *)
HeardInv ==
    "switched" \notin untidy /\ (window.connected \/ Has(signals, "connected")) =>
        \/ \E s \in subs : sessions[s].st \in Up
        \/ \E k \in Ends : Has(signals, k)

(* Session s connects, or has, without the window being told.              *)
Blind(s) == Unheard(s) /\ window = Attempting /\ OnlyAttention(signals)

(* What the window shows of the session s the manager holds, and what the  *)
(* last signal will make it show.                                          *)
Normal(s) ==
    LET st == sessions[s].st IN
    /\ st \in {"waiting", "connecting", "failed"} => window = Attempting
    /\ st \in {"connecting", "connected", "paused", "failed"} => s \in subs
    /\ st \in {"waiting", "connecting"} => OnlyAttention(signals)
    /\ st = "failed" =>
          signals # <<>> /\ LastKind(signals) = "auth failed" /\ AttentionBefore(signals)
    /\ st \in Up =>
          /\ window.connected \/ Has(signals, "connected")
          /\ IF signals = <<>> THEN window.paused <=> st = "paused"
             ELSE LastKind(signals) \in IF st = "paused" THEN {"paused"}
                                        ELSE {"connected", "resuming"}

Held(s) == session = s /\ (Normal(s) \/ (Blind(s) /\ sessions[s].st # "paused"))

(* Session s is gone, or its password was refused and so was its end.      *)
Past(s) == sessions[s].st \in Live =>
              Refused(s) /\ sessions[s].st = "failed" /\ session # s
NoneLeft == \A s \in Ids : Past(s)

(* The end of session s was refused while it was up: it is listened to,    *)
(* nothing on its way ends anything, and there is no other session.        *)
LeftUp(s) ==
    /\ Refused(s) /\ sessions[s].st \in Up /\ s \in subs /\ session = 0
    /\ \A k \in Ends : ~Has(signals, k)

(* All sessions are past, or all but one.                                  *)
InStep ==
    /\ \/ /\ NoneLeft
          /\ IF OnlyAttention(signals) THEN ~window.connected /\ ~window.paused
             ELSE LastKind(signals) = "disconnected"
       \/ \E s \in Ids : /\ \A r \in Ids : r # s => Past(r)
                         /\ \/ sessions[s].st \in Live /\ ~Refused(s) /\ Held(s)
                            \/ LeftUp(s)
    /\ EndsLast(signals)

TidyInv == untidy = {} => InStep
-----------------------------------------------------------------------------
(* Queues of signals.                                                      *)

LEMMA AppendQueue ==
    ASSUME NEW q \in Seq(Signals), NEW g \in Signals, NEW r, r = Append(q, g)
    PROVE  /\ r \in Seq(Signals) /\ r # <<>> /\ LastKind(r) = g.kind
           /\ \A k : Has(r, k) <=> Has(q, k) \/ g.kind = k
           /\ OnlyAttention(r) <=> OnlyAttention(q) /\ g.kind = "attention"
           /\ OnlyAttention(q) => AttentionBefore(r)
           /\ (\A k \in Ends : ~Has(q, k)) => EndsLast(r)
<1>1. /\ r \in Seq(Signals) /\ Len(r) = Len(q) + 1 /\ Len(q) \in Nat /\ r # <<>>
      /\ \A i \in 1..Len(q) : r[i] = q[i]
      /\ r[Len(r)] = g
  BY AppendProperties
<1>2. 1..Len(r) = 1..Len(q) \cup {Len(r)} /\ Len(r) \notin 1..Len(q)
  BY <1>1
<1>3. ASSUME NEW k PROVE Has(r, k) <=> Has(q, k) \/ g.kind = k
  BY <1>1, <1>2 DEF Has
<1>4. OnlyAttention(r) <=> OnlyAttention(q) /\ g.kind = "attention"
  BY <1>1, <1>2 DEF OnlyAttention
<1>5. OnlyAttention(q) => AttentionBefore(r)
  BY <1>1, <1>2 DEF OnlyAttention, AttentionBefore
<1>6. (\A k \in Ends : ~Has(q, k)) => EndsLast(r)
  BY <1>1, <1>2 DEF EndsLast, Has
<1>7. QED
  BY <1>1, <1>3, <1>4, <1>5, <1>6 DEF LastKind

LEMMA AppendSignal ==
    ASSUME NEW q \in Seq(Signals), NEW g \in Signals
    PROVE  /\ Append(q, g) # <<>> /\ LastKind(Append(q, g)) = g.kind
           /\ Has(Append(q, g), g.kind)
           /\ OnlyAttention(q) => AttentionBefore(Append(q, g))
           /\ OnlyAttention(q) /\ g.kind = "attention" => OnlyAttention(Append(q, g))
           /\ (\A k \in Ends : ~Has(q, k)) => EndsLast(Append(q, g))
<1> DEFINE r == Append(q, g)
<1>1. /\ r # <<>> /\ LastKind(r) = g.kind /\ \A k : Has(r, k) <=> Has(q, k) \/ g.kind = k
      /\ OnlyAttention(r) <=> OnlyAttention(q) /\ g.kind = "attention"
      /\ OnlyAttention(q) => AttentionBefore(r)
      /\ (\A k \in Ends : ~Has(q, k)) => EndsLast(r)
  BY AppendQueue
<1>2. QED
  BY <1>1

LEMMA TailQueue ==
    ASSUME NEW q \in Seq(Signals), q # <<>>, NEW t, t = Tail(q)
    PROVE  /\ t \in Seq(Signals) /\ Head(q) \in Signals
           /\ LastKind(q) = IF t = <<>> THEN Head(q).kind ELSE LastKind(t)
           /\ \A k : Has(q, k) <=> Has(t, k) \/ Head(q).kind = k
           /\ OnlyAttention(q) => OnlyAttention(t) /\ Head(q).kind = "attention"
           /\ AttentionBefore(q) => /\ AttentionBefore(t)
                                    /\ t # <<>> => Head(q).kind = "attention"
           /\ EndsLast(q) => /\ EndsLast(t)
                             /\ Head(q).kind \in Ends => LastKind(q) = Head(q).kind
<1>1. /\ t \in Seq(Signals) /\ Head(q) \in Signals /\ Len(q) \in Nat /\ Len(q) # 0
      /\ Len(t) = Len(q) - 1 /\ Len(t) \in Nat /\ Head(q) = q[1]
      /\ \A i \in 1..Len(t) : t[i] = q[i + 1]
  BY HeadTailProperties
<1>2. /\ 1 \in 1..Len(q) /\ \A i \in 1..Len(t) : i + 1 \in 1..Len(q)
      /\ \A i \in 1..Len(q) : i = 1 \/ \E j \in 1..Len(t) : i = j + 1
  <2>1. ASSUME NEW n \in Nat, NEW m \in Nat, n # 0, m = n - 1
        PROVE  /\ 1 \in 1..n /\ \A i \in 1..m : i + 1 \in 1..n
               /\ \A i \in 1..n : i = 1 \/ \E j \in 1..m : i = j + 1
    <3>1. \A i \in 1..n : i # 1 => i - 1 \in 1..m /\ i = (i - 1) + 1
      BY <2>1
    <3>2. QED
      BY <2>1, <3>1
  <2>2. QED
    BY <1>1, <2>1
<1>3. LastKind(q) = IF t = <<>> THEN Head(q).kind ELSE LastKind(t)
  <2>1. CASE t = <<>>
    <3>1. Len(<<>>) = 0
      OBVIOUS
    <3>2. Len(t) = 0
      BY <2>1, <3>1, Zenon
    <3>3. Len(q) = 1
      <4>1. \A n \in Nat : n - 1 = 0 => n = 1
        OBVIOUS
      <4>2. QED
        BY <1>1, <3>2, <4>1, Zenon
    <3>4. QED
      BY <1>1, <2>1, <3>3 DEF LastKind
  <2>2. CASE t # <<>>
    <3>1. Len(t) # 0
      BY <1>1, <2>2
    <3>2. Len(t) \in 1..Len(t) /\ Len(t) + 1 = Len(q)
      BY <1>1, <3>1
    <3>3. t[Len(t)] = q[Len(q)]
      BY <1>1, <3>2
    <3>4. QED
      BY <2>2, <3>3 DEF LastKind
  <2>3. QED
    BY <2>1, <2>2
<1>4. ASSUME NEW k PROVE Has(q, k) <=> Has(t, k) \/ Head(q).kind = k
  BY <1>1, <1>2 DEF Has
<1>5. OnlyAttention(q) => OnlyAttention(t) /\ Head(q).kind = "attention"
  BY <1>1, <1>2 DEF OnlyAttention
<1>6. AttentionBefore(q) => /\ AttentionBefore(t)
                            /\ t # <<>> => Head(q).kind = "attention"
  <2> SUFFICES ASSUME AttentionBefore(q)
               PROVE  AttentionBefore(t) /\ (t # <<>> => Head(q).kind = "attention")
    OBVIOUS
  <2>1. ASSUME NEW i \in 1..Len(t), t[i].kind # "attention" PROVE i = Len(t)
    <3>1. i + 1 = Len(q)
      BY <1>1, <1>2, <2>1 DEF AttentionBefore
    <3>2. i \in Nat
      OBVIOUS
    <3>3. \A n \in Nat, m \in Nat, j \in Nat : m = n - 1 /\ j + 1 = n => j = m
      OBVIOUS
    <3>4. QED
      BY <1>1, <3>1, <3>2, <3>3, Zenon
  <2>2. t # <<>> => Len(q) # 1
    BY <1>1
  <2>3. t # <<>> => Head(q).kind = "attention"
    BY <1>1, <1>2, <2>2 DEF AttentionBefore
  <2>4. QED
    BY <2>1, <2>3 DEF AttentionBefore
<1>7. EndsLast(q) => /\ EndsLast(t)
                     /\ Head(q).kind \in Ends => LastKind(q) = Head(q).kind
  <2> SUFFICES ASSUME EndsLast(q)
               PROVE  EndsLast(t) /\ (Head(q).kind \in Ends => LastKind(q) = Head(q).kind)
    OBVIOUS
  <2>1. ASSUME NEW i \in 1..Len(t), t[i].kind \in Ends PROVE i = Len(t)
    <3>1. i + 1 = Len(q)
      BY <1>1, <1>2, <2>1 DEF EndsLast
    <3>2. i \in Nat
      OBVIOUS
    <3>3. \A n \in Nat, m \in Nat, j \in Nat : m = n - 1 /\ j + 1 = n => j = m
      OBVIOUS
    <3>4. QED
      BY <1>1, <3>1, <3>2, <3>3, Zenon
  <2>2. Head(q).kind \in Ends => Len(q) = 1
    BY <1>1, <1>2 DEF EndsLast
  <2>3. QED
    BY <1>1, <2>1, <2>2 DEF EndsLast, LastKind
<1>8. QED
  BY <1>1, <1>3, <1>4, <1>5, <1>6, <1>7

(* An empty queue holds nothing; one whose last signal ends nothing holds  *)
(* no signal that does.                                                    *)
LEMMA NothingEnds ==
    ASSUME NEW q \in Seq(Signals)
    PROVE  /\ q = <<>> => /\ \A k : ~Has(q, k)
                          /\ OnlyAttention(q) /\ EndsLast(q) /\ AttentionBefore(q)
           /\ EndsLast(q) /\ (q = <<>> \/ LastKind(q) \notin Ends) => \A k \in Ends : ~Has(q, k)
           /\ OnlyAttention(q) => \A k : k # "attention" => ~Has(q, k)
<1>1. q = <<>> => 1..Len(q) = {}
  OBVIOUS
<1>2. q = <<>> => /\ \A k : ~Has(q, k)
                  /\ OnlyAttention(q) /\ EndsLast(q) /\ AttentionBefore(q)
  BY <1>1 DEF Has, OnlyAttention, EndsLast, AttentionBefore
<1>3. ASSUME EndsLast(q), LastKind(q) \notin Ends PROVE \A k \in Ends : ~Has(q, k)
  BY <1>3 DEF EndsLast, LastKind, Has
<1>4. OnlyAttention(q) => \A k : k # "attention" => ~Has(q, k)
  BY DEF OnlyAttention, Has
<1>5. QED
  BY <1>2, <1>3, <1>4

-----------------------------------------------------------------------------
(* Types, and what the helpers do.                                         *)

SessionsType == sessions \in [Ids -> [st : States, need : SUBSET Inputs, asks : 0..MaxAsks]]

LEMMA TypeFacts ==
    ASSUME TypeOK
    PROVE  /\ SessionsType /\ signals \in Seq(Signals) /\ Started \subseteq Ids
           /\ session # 0 <=> session \in Started
           /\ \A s \in Ids : sessions[s].st \in Live => s \in Started
           /\ 0 \notin Ids
<1>1. SessionsType /\ signals \in Seq(Signals)
  BY DEF TypeOK, SessionsType, Signals
<1>2. 0 \notin Ids
  BY OpenVPN3Assumption DEF Ids
<1>3. session # 0 <=> session \in Started
  BY <1>2 DEF TypeOK, Started
<1>4. QED
  BY <1>1, <1>2, <1>3 DEF Started, Live

LEMMA BecomesEffect ==
    ASSUME TypeOK, NEW s \in Started, NEW st \in States \ {"none"}, NEW kind \in StatusKinds,
           Becomes(s, st, kind)
    PROVE  /\ SessionsType' /\ signals' \in Seq(Signals) /\ Started' = Started
           /\ sessions'[s].st = st /\ \A r \in Ids : r # s => sessions'[r] = sessions[r]
           /\ s \notin subs => UNCHANGED signals
           /\ s \in subs => signals' = Append(signals, [kind |-> kind, s |-> s])
           /\ [kind |-> kind, s |-> s] \in Signals
<1>1. SessionsType /\ signals \in Seq(Signals) /\ s \in Ids /\ sessions[s].st # "none"
  BY TypeFacts DEF Started
<1>2. SessionsType' /\ sessions'[s].st = st /\ \A r \in Ids : r # s => sessions'[r] = sessions[r]
  BY <1>1 DEF Becomes, SessionsType
<1>3. Started' = Started
  BY <1>1, <1>2 DEF Started
<1>4. [kind |-> kind, s |-> s] \in Signals
  BY <1>1 DEF Signals
<1>5. signals' \in {signals, Append(signals, [kind |-> kind, s |-> s])}
  BY DEF Becomes
<1>6. signals' \in Seq(Signals)
  BY <1>1, <1>4, <1>5, AppendQueue
<1>7. QED
  BY <1>2, <1>3, <1>4, <1>6 DEF Becomes

(* A call fails for a session of this program.                             *)
FailedType == failed \subseteq Faults \X Started
FailedMore == failed \subseteq failed' /\ \A s \in Ids : Refused(s)' <=> Refused(s)

LEMMA FailsEffect ==
    ASSUME TypeOK, NEW s \in Started, NEW call, Fails(call, s), Started' = Started
    PROVE  /\ FailedType' /\ failed \subseteq failed' /\ call \in Failed(s)'
           /\ \A r \in Ids : r # s => (Refused(r)' <=> Refused(r))
           /\ call # "disconnect" => FailedMore
<1>1. /\ call \in Faults /\ failed' = failed \cup {<<call, s>>} /\ failed \subseteq Faults \X Started
      /\ <<call, s>> \in Faults \X Started
  BY DEF Fails, TypeOK
<1>2. FailedType' /\ failed \subseteq failed' /\ call \in Failed(s)'
  BY <1>1 DEF FailedType, Failed
<1>3. \A r \in Ids : r # s \/ call # "disconnect" => (Refused(r)' <=> Refused(r))
  BY <1>1 DEF Refused, Failed
<1>4. QED
  BY <1>2, <1>3 DEF FailedMore

LEMMA KeepsFailed ==
    ASSUME TypeOK, UNCHANGED failed, Started \subseteq Started'
    PROVE  FailedType' /\ FailedMore
BY DEF TypeOK, FailedType, FailedMore, Refused, Failed

LEMMA TryEffect ==
    ASSUME TypeOK, NEW s, s = session, s # 0, NEW need \in SUBSET Inputs, TryToConnect(need)
    PROVE  /\ SessionsType' /\ Started' = Started /\ subs' \subseteq Started
           /\ FailedType' /\ FailedMore
           /\ \A r \in Ids : r # s => sessions'[r] = sessions[r]
           /\ subs' \in {subs, subs \cup {s}}
           /\ \/ sessions'[s].st = sessions[s].st
              \/ /\ sessions[s].st = "waiting" /\ sessions'[s].st = "connecting"
                 /\ s \in subs' \/ Unheard(s)'
<1>1. SessionsType /\ session \in Started /\ session \in Ids /\ subs \subseteq Started
  BY TypeFacts DEF TypeOK
<1> DEFINE ready == need = {} /\ sessions[session].st \in Live
           st == IF ready /\ sessions[session].st = "waiting" THEN "connecting"
                 ELSE sessions[session].st
<1>2. st \in States /\ sessions[session].st \in States
  BY <1>1 DEF SessionsType, States
<1>3. CASE /\ sessions' = [sessions EXCEPT ![session].need = need, ![session].st = st]
           /\ \/ /\ subs' = IF ready THEN subs \cup {session} ELSE subs
                 /\ UNCHANGED failed
              \/ ready /\ Fails("listen", session) /\ UNCHANGED subs
  <2>1. /\ SessionsType' /\ sessions'[session].st = st
        /\ \A r \in Ids : r # session => sessions'[r] = sessions[r]
    <3> HIDE DEF st, ready
    <3>1. QED
      BY <1>1, <1>2, <1>3 DEF SessionsType
  <2>2. Started' = Started
    BY <1>1, <2>1 DEF Started
  <2>3. CASE subs' = (IF ready THEN subs \cup {session} ELSE subs) /\ UNCHANGED failed
    <3>1. FailedType' /\ FailedMore
      BY <2>2, <2>3, KeepsFailed
    <3>2. QED
      BY <1>1, <2>1, <2>2, <2>3, <3>1
  <2>4. CASE ready /\ Fails("listen", session) /\ UNCHANGED subs
    <3>1. FailedType' /\ FailedMore /\ "listen" \in Failed(s)'
      BY <1>1, <2>2, <2>4, FailsEffect
    <3>2. Unheard(s)'
      BY <3>1 DEF Unheard
    <3>3. QED
      BY <1>1, <2>1, <2>2, <2>4, <3>1, <3>2
  <2>5. QED
    BY <1>3, <2>3, <2>4
<1>4. CASE /\ Fails("connect", session)
           /\ sessions' = [sessions EXCEPT ![session].need = need]
           /\ subs' \in {subs, subs \cup {session}}
  <2>1. /\ SessionsType' /\ sessions'[session].st = sessions[session].st
        /\ \A r \in Ids : r # session => sessions'[r] = sessions[r]
    BY <1>1, <1>4 DEF SessionsType
  <2>2. Started' = Started
    BY <1>1, <2>1 DEF Started
  <2>3. FailedType' /\ FailedMore
    BY <1>1, <1>4, <2>2, FailsEffect
  <2>4. QED
    BY <1>1, <1>4, <2>1, <2>2, <2>3
<1>5. QED
  BY <1>3, <1>4 DEF TryToConnect

LEMMA NativeEffect ==
    ASSUME TypeOK, NEW s \in Started, NativeDisconnect(s)
    PROVE  /\ SessionsType' /\ Started' = Started /\ FailedType'
           /\ \A r \in Ids : r # s => sessions'[r] = sessions[r] /\ (Refused(r)' <=> Refused(r))
           /\ failed \subseteq failed'
           /\ \/ /\ sessions[s].st \in Live /\ sessions'[s].st = "gone" /\ sessions' # sessions
                 /\ sessions' = [sessions EXCEPT ![s].st = "gone"] /\ UNCHANGED failed
              \/ sessions[s].st \in Live /\ UNCHANGED sessions /\ Refused(s)'
              \/ sessions[s].st \notin Live /\ UNCHANGED <<sessions, failed>>
<1>1. SessionsType /\ s \in Ids
  BY TypeFacts
<1>2. CASE /\ sessions[s].st \in Live /\ sessions' = [sessions EXCEPT ![s].st = "gone"]
           /\ UNCHANGED failed
  <2>1. /\ SessionsType' /\ sessions'[s].st = "gone"
        /\ \A r \in Ids : r # s => sessions'[r] = sessions[r]
    BY <1>1, <1>2 DEF SessionsType, States
  <2>2. Started' = Started /\ sessions' # sessions
    BY <1>1, <1>2, <2>1 DEF Started, Live
  <2>3. FailedType' /\ FailedMore
    BY <1>2, <2>2, KeepsFailed
  <2>4. QED
    BY <1>2, <2>1, <2>2, <2>3 DEF FailedMore
<1>3. CASE sessions[s].st \in Live /\ Fails("disconnect", s) /\ UNCHANGED sessions
  <2>1. SessionsType' /\ Started' = Started
    BY <1>1, <1>3 DEF SessionsType, Started
  <2>2. /\ FailedType' /\ failed \subseteq failed' /\ "disconnect" \in Failed(s)'
        /\ \A r \in Ids : r # s => (Refused(r)' <=> Refused(r))
    BY <1>3, <2>1, FailsEffect
  <2>3. QED
    BY <1>3, <2>1, <2>2 DEF Refused
<1>4. CASE sessions[s].st \notin Live /\ UNCHANGED <<sessions, failed>>
  <2>1. SessionsType' /\ Started' = Started
    BY <1>1, <1>4 DEF SessionsType, Started
  <2>2. FailedType' /\ FailedMore
    BY <1>4, <2>1, KeepsFailed
  <2>3. QED
    BY <1>4, <2>1, <2>2 DEF FailedMore
<1>5. QED
  BY <1>2, <1>3, <1>4 DEF NativeDisconnect


WindowType ==
    /\ window \in [attempt : BOOLEAN, connected : BOOLEAN, paused : BOOLEAN]
    /\ ~(window.attempt /\ window.connected)
UntidyType ==
    untidy \subseteq {"cancelled", "code refused", "overtaken", "switched", "misread"}
HandleType ==
    /\ SessionsType /\ session \in {0} \cup Started /\ subs \subseteq Started
    /\ {foreign, watch, attention} \subseteq BOOLEAN /\ FailedType
RestType == dialogs \in Nat /\ signals \in Seq(Signals) /\ WindowType /\ UntidyType

LEMMA TypeIsParts == TypeOK <=> HandleType /\ RestType
BY DEF TypeOK, HandleType, RestType, SessionsType, WindowType, UntidyType, Signals, FailedType

LEMMA WindowValues ==
    ASSUME WindowType
    PROVE  /\ UNCHANGED window \/ window' = Off => WindowType'
           /\ window' = Attempting => WindowType'
           /\ window' = [attempt |-> FALSE, connected |-> TRUE, paused |-> FALSE] => WindowType'
           /\ \A b \in BOOLEAN : window' = [window EXCEPT !.paused = b] => WindowType'
<1>0. ASSUME UNCHANGED window PROVE WindowType'
  BY <1>0 DEF WindowType
<1>1. ASSUME window' = Off PROVE WindowType'
  BY <1>1 DEF WindowType, Off
<1>2. window' = Attempting => WindowType'
  BY DEF WindowType, Off, Attempting
<1>3. window' = [attempt |-> FALSE, connected |-> TRUE, paused |-> FALSE] => WindowType'
  BY DEF WindowType
<1>4. ASSUME NEW b \in BOOLEAN, window' = [window EXCEPT !.paused = b] PROVE WindowType'
  BY <1>4 DEF WindowType
<1>5. QED
  BY <1>0, <1>1, <1>2, <1>3, <1>4

LEMMA InitType == Init => TypeOK
<1> SUFFICES ASSUME Init PROVE TypeOK
  OBVIOUS
<1>1. SessionsType
  BY OpenVPN3Assumption DEF Init, SessionsType, States, Inputs
<1>2. session = 0 /\ {foreign, watch, attention} \subseteq BOOLEAN /\ subs = {} /\ dialogs = 0
      /\ signals = <<>> /\ window = Off /\ untidy = {} /\ failed = {}
  BY DEF Init
<1>3. WindowType
  BY <1>2 DEF WindowType, Off
<1>4. signals \in Seq(Signals)
  BY <1>2
<1>5. QED
  BY <1>1, <1>2, <1>3, <1>4, TypeIsParts DEF HandleType, RestType, UntidyType, FailedType

(* Another session of the program comes into being.                        *)
NewSession ==
    \E s \in Ids, need \in Needs :
        /\ sessions[s].st = "none"
        /\ sessions' = [sessions EXCEPT ![s].st = "waiting", ![s].need = need]
        /\ session' = s

LEMMA NewEffect ==
    ASSUME TypeOK, NewSession
    PROVE  /\ SessionsType' /\ Started \subseteq Started' /\ session' \in Started'
           /\ sessions[session'].st = "none" /\ sessions'[session'].st = "waiting"
           /\ \A r \in Ids : r # session' => sessions'[r] = sessions[r]
<1>1. SessionsType
  BY TypeFacts
<1>2. PICK s \in Ids, need \in Needs :
        /\ sessions[s].st = "none"
        /\ sessions' = [sessions EXCEPT ![s].st = "waiting", ![s].need = need]
        /\ session' = s
  BY DEF NewSession
<1>3. need \in SUBSET Inputs
  BY OpenVPN3Assumption DEF Inputs
<1>4. SessionsType'
  BY <1>1, <1>2, <1>3 DEF SessionsType, States
<1>5. sessions'[s].st = "waiting" /\ \A r \in Ids : r # s => sessions'[r] = sessions[r]
  BY <1>1, <1>2 DEF SessionsType
<1>6. QED
  BY <1>2, <1>4, <1>5 DEF Started

(* What a click on connect does.                                           *)
LEMMA ConnectEffect ==
    ASSUME ClickConnect
    PROVE  /\ dialogs = 0 /\ ~window.attempt
           /\ UNCHANGED <<foreign, subs, dialogs, signals, failed>>
           /\ \/ window' \in {window, Off} /\ UNCHANGED <<sessions, session>>
              \/ window' = Attempting /\ session' \in {session, 0} /\ UNCHANGED sessions
              \/ window' = Attempting /\ NewSession
           /\ untidy' = {} => ~Status /\ signals = <<>> /\ untidy = {}
           /\ untidy \subseteq untidy' /\ untidy' \subseteq untidy \cup {"overtaken", "misread"}
           /\ watch' = TRUE /\ attention' = (attention \/ ~watch)
BY DEF ClickConnect, Attempting, NewSession, Overtake, Untidy, StartWatch

LEMMA UntidyGrows ==
    ASSUME [Next]_vars
    PROVE  untidy \subseteq untidy'
<1>1. CASE ClickConnect
  BY <1>1, ConnectEffect
<1>2. CASE CancelAttempt \/ SelectBackend \/ CloseDialog
  BY <1>2 DEF CancelAttempt, SelectBackend, CloseDialog, Untidy
<1>3. CASE ClickDisconnect \/ ClickPause \/ ClickResume \/ SubmitCode \/ Deliver \/ OtherProcess
  BY <1>3 DEF ClickDisconnect, ClickPause, ClickResume, SubmitCode, Deliver, OtherProcess
<1>4. ASSUME NEW s \in Ids, Ask(s) \/ Outcome(s) \/ Drop(s) PROVE untidy \subseteq untidy'
  BY <1>4 DEF Ask, Outcome, Drop
<1>5. CASE UNCHANGED vars
  BY <1>5 DEF vars
<1>6. QED
  BY <1>1, <1>2, <1>3, <1>4, <1>5 DEF Next

LEMMA NextType == TypeOK /\ [Next]_vars => TypeOK'
<1>0. TypeOK' <=> HandleType' /\ RestType'
  BY TypeIsParts, PTL
<1> SUFFICES ASSUME TypeOK, [Next]_vars PROVE HandleType' /\ RestType'
  BY <1>0
<1>1. HandleType /\ RestType /\ 0 \notin Ids /\ (session # 0 <=> session \in Started)
  BY TypeIsParts, TypeFacts
<1>2. ASSUME SessionsType', Started \subseteq Started', session' \in {0} \cup Started',
             subs' \in {subs, {}}, {foreign, watch, attention}' \subseteq BOOLEAN, FailedType'
      PROVE  HandleType'
  BY <1>1, <1>2 DEF HandleType
<1>3. ASSUME UNCHANGED <<sessions, session, subs, failed>>, {foreign, watch, attention}' \subseteq BOOLEAN
      PROVE  HandleType'
  BY <1>1, <1>3 DEF HandleType, SessionsType, Started, FailedType
<1>4. ASSUME UNCHANGED untidy \/ \E k : Untidy(k) /\ k \in {"cancelled", "code refused", "overtaken", "switched"}
      PROVE  UntidyType'
  BY <1>1, <1>4 DEF UntidyType, RestType, Untidy
<1>5. ASSUME dialogs' \in Nat, signals' \in Seq(Signals), UntidyType',
             UNCHANGED window \/ window' = Off
      PROVE  RestType'
  BY <1>1, <1>5, WindowValues DEF RestType
<1>6. CASE CancelAttempt
  <2>1. HandleType'
    BY <1>1, <1>3, <1>6 DEF CancelAttempt, manager, HandleType
  <2>2. RestType'
    BY <1>1, <1>4, <1>5, <1>6 DEF CancelAttempt, RestType, HandleDisconnected
  <2>3. QED
    BY <2>1, <2>2
<1>7. CASE ClickDisconnect
  <2>1. /\ UNCHANGED <<foreign, subs, dialogs, untidy>> /\ watch' = TRUE
        /\ attention' = (attention \/ ~watch) /\ session' = 0
        /\ UNCHANGED window \/ window' = Off
        /\ \/ /\ session # 0 /\ NativeDisconnect(session)
              /\ signals' \in {signals, Append(signals, [kind |-> "disconnected", s |-> session])}
           \/ UNCHANGED <<sessions, signals, failed>>
    BY <1>7 DEF ClickDisconnect, StartWatch, HandleDisconnected
  <2>2. {foreign, watch, attention}' \subseteq BOOLEAN
    BY <1>1, <2>1 DEF HandleType
  <2>3. SessionsType' /\ Started' = Started /\ signals' \in Seq(Signals) /\ FailedType'
    <3>1. CASE /\ session # 0 /\ NativeDisconnect(session)
               /\ signals' \in {signals, Append(signals, [kind |-> "disconnected", s |-> session])}
      <4>1. SessionsType' /\ Started' = Started /\ FailedType'
        BY <1>1, <3>1, NativeEffect
      <4>2. [kind |-> "disconnected", s |-> session] \in Signals
        BY <1>1, <3>1 DEF Signals, StatusKinds, Started
      <4>3. signals' \in Seq(Signals)
        BY <1>1, <3>1, <4>2, AppendQueue DEF RestType
      <4>4. QED
        BY <4>1, <4>3
    <3>2. CASE UNCHANGED <<sessions, signals, failed>>
      BY <1>1, <3>2 DEF HandleType, RestType, SessionsType, Started, FailedType
    <3>3. QED
      BY <2>1, <3>1, <3>2
  <2>4. HandleType'
    BY <1>2, <2>1, <2>2, <2>3
  <2>5. RestType'
    BY <1>1, <1>4, <1>5, <2>1, <2>3 DEF RestType
  <2>6. QED
    BY <2>4, <2>5
<1>8. CASE ClickConnect
  <2>1. /\ {foreign, watch, attention}' \subseteq BOOLEAN
        /\ UNCHANGED <<subs, dialogs, signals, failed>>
    BY <1>1, <1>8, ConnectEffect DEF HandleType
  <2>2. HandleType'
    <3>1. CASE NewSession
      <4>1. SessionsType' /\ Started \subseteq Started' /\ session' \in Started'
        BY <3>1, NewEffect
      <4>2. FailedType'
        BY <2>1, <4>1, KeepsFailed
      <4>3. QED
        BY <1>2, <2>1, <4>1, <4>2
    <3>2. CASE UNCHANGED sessions /\ session' \in {session, 0}
      <4>1. SessionsType' /\ Started' = Started /\ FailedType'
        BY <1>1, <2>1, <3>2 DEF HandleType, SessionsType, Started, FailedType
      <4>2. session' \in {0} \cup Started'
        BY <1>1, <3>2, <4>1 DEF HandleType
      <4>3. QED
        BY <1>2, <2>1, <4>1, <4>2
    <3>3. QED
      BY <1>8, <3>1, <3>2, ConnectEffect
  <2>3. UntidyType'
    BY <1>1, <1>8, ConnectEffect DEF RestType, UntidyType
  <2>4. WindowType'
    BY <1>1, <1>8, ConnectEffect, WindowValues DEF RestType
  <2>5. RestType'
    BY <1>1, <2>1, <2>3, <2>4 DEF RestType
  <2>6. QED
    BY <2>2, <2>5
<1>9. ASSUME NEW s \in Started, NEW st \in States \ {"none"}, NEW kind \in StatusKinds,
             Becomes(s, st, kind), UNCHANGED <<foreign, manager, dialogs, window, untidy, failed>>
      PROVE  HandleType' /\ RestType'
  <2>1. SessionsType' /\ signals' \in Seq(Signals) /\ Started' = Started
    BY <1>9, BecomesEffect
  <2>2. HandleType'
    BY <1>1, <1>2, <1>9, <2>1, KeepsFailed DEF HandleType, manager
  <2>3. RestType'
    BY <1>1, <1>4, <1>5, <1>9, <2>1 DEF RestType
  <2>4. QED
    BY <2>2, <2>3
<1>10. CASE ClickPause \/ ClickResume
  <2>1. "paused" \in StatusKinds /\ "resuming" \in StatusKinds
        /\ {"paused", "connected"} \subseteq States \ {"none"}
    BY DEF StatusKinds, States
  <2>2. QED
    BY <1>1, <1>9, <1>10, <2>1 DEF ClickPause, ClickResume
<1>11. CASE SelectBackend
  <2>1. /\ session' = 0 /\ watch' = FALSE /\ attention' = FALSE /\ subs' = {} /\ signals' = <<>>
        /\ UNCHANGED <<sessions, foreign, dialogs, window, failed>> /\ Untidy("switched")
    BY <1>11 DEF SelectBackend, UnsubscribeAll
  <2>2. SessionsType' /\ Started' = Started /\ signals' \in Seq(Signals) /\ FailedType'
    BY <1>1, <2>1 DEF HandleType, SessionsType, Started, FailedType
  <2>3. HandleType'
    BY <1>1, <1>2, <2>1, <2>2 DEF HandleType
  <2>4. RestType'
    BY <1>1, <1>4, <1>5, <2>1, <2>2 DEF RestType
  <2>5. QED
    BY <2>3, <2>4
<1>12. ASSUME NEW need \in SUBSET Inputs, session # 0 /\ TryToConnect(need),
              UNCHANGED <<foreign, session, watch, attention>>
       PROVE  HandleType'
  <2>1. SessionsType' /\ Started' = Started /\ subs' \subseteq Started /\ FailedType'
    BY <1>12, TryEffect
  <2>2. QED
    BY <1>1, <1>12, <2>1 DEF HandleType
<1>12b. ASSUME NEW call, session # 0 /\ Fails(call, session),
               UNCHANGED <<sessions, subs, foreign, session, watch, attention>>
        PROVE  HandleType'
  <2>1. SessionsType' /\ Started' = Started
    BY <1>1, <1>12b DEF HandleType, SessionsType, Started
  <2>2. FailedType'
    BY <1>1, <1>12b, <2>1, FailsEffect
  <2>3. QED
    BY <1>1, <1>12b, <2>1, <2>2 DEF HandleType
<1>13. session # 0 => sessions[session].need \in SUBSET Inputs
  BY <1>1 DEF HandleType, SessionsType, Started
<1>14. CASE SubmitCode
  <2>1. HandleType'
    <3>1. CASE session # 0 /\ TryToConnect(sessions[session].need \ {"otp"})
      BY <1>12, <1>13, <1>14, <3>1 DEF SubmitCode
    <3>2. CASE session # 0 /\ Fails("input", session) /\ UNCHANGED <<sessions, subs>>
      BY <1>12b, <1>14, <3>2 DEF SubmitCode
    <3>3. CASE UNCHANGED <<sessions, subs, failed>>
      BY <1>1, <1>3, <1>14, <3>3 DEF SubmitCode, HandleType
    <3>4. QED
      BY <1>14, <3>1, <3>2, <3>3 DEF SubmitCode
  <2>2. RestType'
    BY <1>1, <1>4, <1>5, <1>14 DEF SubmitCode, RestType
  <2>3. QED
    BY <2>1, <2>2
<1>15. CASE CloseDialog
  <2>1. HandleType'
    BY <1>1, <1>3, <1>15 DEF CloseDialog, manager, HandleType
  <2>2. UntidyType'
    BY <1>4, <1>15 DEF CloseDialog
  <2>3. dialogs' \in Nat
    <3>1. dialogs \in Nat /\ dialogs > 0 /\ dialogs' = dialogs - 1
      BY <1>1, <1>15 DEF CloseDialog, RestType
    <3>2. QED
      BY <3>1
  <2>4. RestType'
    BY <1>1, <1>5, <1>15, <2>2, <2>3 DEF CloseDialog, RestType, HandleDisconnected
  <2>5. QED
    BY <2>1, <2>4
<1>16. CASE Deliver
  <2>0. signals # <<>> /\ UNCHANGED <<foreign, untidy>> /\ UntidyType'
    BY <1>4, <1>16 DEF Deliver
  <2>1. Tail(signals) \in Seq(Signals) /\ <<>> \in Seq(Signals)
    BY <1>1, <2>0, TailQueue DEF RestType
  <2>2. CASE OnAttention
    <3>1. HandleType'
      <4>1. CASE session # 0 /\ TryToConnect(sessions[session].need \ {"login"})
        BY <1>12, <1>13, <2>0, <2>2, <4>1 DEF OnAttention
      <4>2. CASE session # 0 /\ Fails("input", session) /\ UNCHANGED <<sessions, subs>>
        BY <1>12b, <2>0, <2>2, <4>2 DEF OnAttention
      <4>3. CASE UNCHANGED <<sessions, subs, failed>>
        BY <1>1, <1>3, <2>0, <2>2, <4>3 DEF OnAttention, HandleType
      <4>4. QED
        BY <2>2, <4>1, <4>2, <4>3 DEF OnAttention
    <3>2. dialogs' \in Nat
      <4>1. dialogs' \in {dialogs, dialogs + 1}
        BY <2>2 DEF OnAttention
      <4>2. QED
        BY <1>1, <4>1 DEF RestType
    <3>3. RestType'
      BY <1>5, <2>0, <2>1, <2>2, <3>2 DEF OnAttention
    <3>4. QED
      BY <3>1, <3>3
  <2>3. ASSUME UNCHANGED <<sessions, manager, dialogs, failed>>, signals' = Tail(signals), WindowType'
        PROVE  HandleType' /\ RestType'
    <3>1. HandleType'
      BY <1>1, <1>3, <2>0, <2>3 DEF manager, HandleType
    <3>2. QED
      BY <1>1, <2>0, <2>1, <2>3, <3>1 DEF RestType
  <2>4. CASE OnConnected
    <3>1. WindowType'
      BY <1>1, <2>4, WindowValues DEF OnConnected, RestType
    <3>2. QED
      BY <2>3, <2>4, <3>1 DEF OnConnected
  <2>5. ASSUME NEW b \in BOOLEAN, OnPaused(b) PROVE HandleType' /\ RestType'
    <3>1. WindowType'
      BY <1>1, <2>5, WindowValues DEF OnPaused, RestType
    <3>2. QED
      BY <2>3, <2>5, <3>1 DEF OnPaused
  <2>6. CASE OnDisconnected \/ OnAuthFailed
    <3>1. /\ attention' = FALSE /\ subs' = {} /\ signals' = <<>> /\ window' = Off
          /\ UNCHANGED <<watch, dialogs>> /\ session' \in {session, 0}
      BY <2>6 DEF OnDisconnected, OnAuthFailed, UnsubscribeAll, HandleDisconnected
    <3>2. SessionsType' /\ Started' = Started /\ FailedType'
      <4>1. CASE UNCHANGED <<sessions, failed>>
        BY <1>1, <4>1 DEF HandleType, SessionsType, Started, FailedType
      <4>2. CASE session # 0 /\ NativeDisconnect(session)
        BY <1>1, <4>2, NativeEffect
      <4>3. QED
        BY <2>6, <4>1, <4>2 DEF OnDisconnected, OnAuthFailed
    <3>3. HandleType'
      BY <1>1, <1>2, <2>0, <3>1, <3>2 DEF HandleType
    <3>4. RestType'
      BY <1>1, <1>5, <2>0, <2>1, <3>1 DEF RestType
    <3>5. QED
      BY <3>3, <3>4
  <2>7. QED
    BY <1>16, <2>2, <2>4, <2>5, <2>6 DEF Deliver
<1>17. CASE OtherProcess
  <2>1. HandleType'
    BY <1>1, <1>3, <1>17 DEF OtherProcess, manager, HandleType
  <2>2. RestType'
    BY <1>1, <1>4, <1>5, <1>17 DEF OtherProcess, RestType
  <2>3. QED
    BY <2>1, <2>2
<1>18. ASSUME NEW s \in Ids, Ask(s) PROVE HandleType' /\ RestType'
  <2>1. SessionsType' /\ Started' = Started /\ FailedType'
    <3>1. sessions[s].asks \in 0..MaxAsks /\ sessions[s].asks < MaxAsks
      BY <1>1, <1>18 DEF Ask, HandleType, SessionsType
    <3>2. sessions[s].asks + 1 \in 0..MaxAsks
      BY <3>1, OpenVPN3Assumption
    <3>3. sessions' = [sessions EXCEPT ![s].asks = sessions[s].asks + 1]
      BY <1>18 DEF Ask
    <3>4. SessionsType'
      BY <1>1, <3>2, <3>3 DEF HandleType, SessionsType
    <3>5. Started' = Started
      BY <1>1, <3>3 DEF HandleType, SessionsType, Started
    <3>6. UNCHANGED failed
      BY <1>18 DEF Ask
    <3>7. QED
      BY <1>1, <3>4, <3>5, <3>6 DEF HandleType, FailedType
  <2>2. [kind |-> "attention", s |-> s] \in Signals
    BY DEF Signals
  <2>3. signals' \in Seq(Signals)
    <3>1. signals' \in {signals, Append(signals, [kind |-> "attention", s |-> s])}
      BY <1>18 DEF Ask
    <3>2. QED
      BY <1>1, <2>2, <3>1, AppendQueue DEF RestType
  <2>4. HandleType'
    BY <1>1, <1>2, <1>18, <2>1 DEF Ask, manager, HandleType
  <2>5. RestType'
    BY <1>1, <1>4, <1>5, <1>18, <2>3 DEF Ask, RestType
  <2>6. QED
    BY <2>4, <2>5
<1>19. ASSUME NEW s \in Ids, Outcome(s) \/ Drop(s) PROVE HandleType' /\ RestType'
  <2>1. s \in Started
    BY <1>19 DEF Outcome, Drop, Started, Up
  <2>2. {"connected", "auth failed", "disconnected"} \subseteq StatusKinds
        /\ {"connected", "failed", "gone"} \subseteq States \ {"none"}
    BY DEF StatusKinds, States
  <2>3. QED
    BY <1>9, <1>19, <2>1, <2>2 DEF Outcome, Drop
<1>20. CASE UNCHANGED vars
  <2>1. HandleType'
    BY <1>1, <1>3, <1>20 DEF vars, manager, HandleType
  <2>2. RestType'
    BY <1>1, <1>4, <1>5, <1>20 DEF vars, RestType
  <2>3. QED
    BY <2>1, <2>2
<1>21. QED
  BY <1>6, <1>7, <1>8, <1>10, <1>11, <1>14, <1>15, <1>16, <1>17, <1>18, <1>19, <1>20 DEF Next


(* Every variable keeps its type: among others, the session whose handle   *)
(* the manager holds and the sessions it listens to are its own            *)
(* (connection_manager.py, class OpenVPN3).                                *)
THEOREM TypeCorrect == Spec => []TypeOK
BY InitType, NextType, PTL DEF Spec

-----------------------------------------------------------------------------
(* What is shown will be heard of.                                         *)

Heard == \E s \in subs : sessions[s].st \in Up
Ending == \E k \in Ends : Has(signals, k)
Shown == window.connected \/ Has(signals, "connected")

LEMMA HeardIs == HeardInv <=> ("switched" \notin untidy /\ Shown => Heard \/ Ending)
BY DEF HeardInv, Shown, Heard, Ending

LEMMA EmptyHas ==
    ASSUME NEW q, q = <<>>
    PROVE  \A k : ~Has(q, k)
BY DEF Has

LEMMA InitHeard == Init => HeardInv
<1> SUFFICES ASSUME Init PROVE HeardInv
  OBVIOUS
<1>1. signals = <<>> /\ ~window.connected
  BY DEF Init, Off
<1>2. ~Has(signals, "connected")
  BY <1>1, EmptyHas
<1>3. QED
  BY <1>1, <1>2 DEF HeardInv

(* A session goes to a state and says so.                                  *)
LEMMA BecomesHeard ==
    ASSUME TypeOK, NEW s \in Started, NEW st \in States \ {"none"}, NEW kind \in StatusKinds,
           Becomes(s, st, kind), UNCHANGED subs,
           Shown => Heard \/ Ending, window'.connected => window.connected,
           \/ st \in Up
           \/ kind \in Ends
    PROVE  Shown' => Heard' \/ Ending'
<1>1. /\ sessions'[s].st = st /\ \A r \in Ids : r # s => sessions'[r] = sessions[r]
      /\ s \notin subs => UNCHANGED signals
      /\ s \in subs => signals' = Append(signals, [kind |-> kind, s |-> s])
      /\ [kind |-> kind, s |-> s] \in Signals
      /\ signals \in Seq(Signals) /\ subs \subseteq Ids
  BY BecomesEffect, TypeFacts DEF TypeOK
<1>2. CASE s \notin subs
  <2>1. Heard => Heard'
    BY <1>1, <1>2 DEF Heard
  <2>2. QED
    BY <1>1, <1>2, <2>1 DEF Shown, Ending
<1>3. CASE s \in subs
  <2>1. \A k : Has(signals', k) <=> Has(signals, k) \/ kind = k
    BY <1>1, <1>3, AppendQueue
  <2>2. CASE kind \in Ends
    BY <2>1, <2>2 DEF Ending
  <2>3. CASE st \in Up
    BY <1>1, <1>3, <2>3 DEF Heard
  <2>4. QED
    BY <2>2, <2>3
<1>4. QED
  BY <1>2, <1>3

LEMMA NextHeard == TypeOK /\ HeardInv /\ [Next]_vars => HeardInv'
<1>0. HeardInv' <=> ("switched" \notin untidy' /\ Shown' => Heard' \/ Ending')
  BY DEF HeardInv, Shown, Heard, Ending
<1> SUFFICES ASSUME TypeOK, HeardInv, [Next]_vars, "switched" \notin untidy'
             PROVE  Shown' => Heard' \/ Ending'
  BY <1>0
<1>1. /\ Shown => Heard \/ Ending
      /\ SessionsType /\ signals \in Seq(Signals) /\ subs \subseteq Started /\ Started \subseteq Ids
      /\ session # 0 <=> session \in Started
  BY UntidyGrows, HeardIs, TypeFacts DEF TypeOK
<1>2. ASSUME UNCHANGED <<signals, subs, sessions>>, window'.connected => window.connected
      PROVE  Shown' => Heard' \/ Ending'
  BY <1>1, <1>2 DEF Shown, Heard, Ending
<1>3. CASE CancelAttempt
  BY <1>2, <1>3 DEF CancelAttempt, HandleDisconnected, Off, manager
<1>4. CASE CloseDialog
  BY <1>2, <1>4 DEF CloseDialog, HandleDisconnected, Off, manager
<1>5. CASE ClickDisconnect
  <2>1. UNCHANGED subs /\ (window'.connected => window.connected)
    BY <1>5 DEF ClickDisconnect, HandleDisconnected, Off
  <2>2. CASE /\ session # 0 /\ sessions[session].st \in Live
             /\ sessions' = [sessions EXCEPT ![session].st = "gone"] /\ sessions' # sessions
    <3>1. Becomes(session, "gone", "disconnected")
      <4>1. sessions' = [sessions EXCEPT ![session].st = "gone"] /\ sessions' # sessions
        BY <2>2
      <4>2. QED
        BY <1>5, <2>2, <4>1 DEF ClickDisconnect, Becomes
    <3>2. "gone" \in States \ {"none"} /\ "disconnected" \in StatusKinds /\ "disconnected" \in Ends
      BY DEF States, StatusKinds, Ends
    <3>3. QED
      BY <1>1, <2>1, <2>2, <3>1, <3>2, BecomesHeard
  <2>3. CASE UNCHANGED <<sessions, signals>>
    BY <1>2, <2>1, <2>3
  <2>4. CASE session # 0 /\ NativeDisconnect(session)
    <3>1. \/ /\ sessions[session].st \in Live /\ sessions' # sessions
             /\ sessions' = [sessions EXCEPT ![session].st = "gone"]
          \/ UNCHANGED sessions
      BY <1>1, <2>4, NativeEffect
    <3>2. UNCHANGED sessions => UNCHANGED signals
      BY <1>5, <2>4 DEF ClickDisconnect
    <3>3. QED
      BY <2>2, <2>3, <2>4, <3>1, <3>2
  <2>5. QED
    BY <1>5, <2>3, <2>4 DEF ClickDisconnect
<1>6. CASE ClickConnect
  <2>1. UNCHANGED <<signals, subs>> /\ (window'.connected => window.connected)
    BY <1>6, ConnectEffect DEF Off, Attempting
  <2>2. CASE UNCHANGED sessions
    BY <1>2, <2>1, <2>2
  <2>3. CASE NewSession
    <3>1. /\ sessions[session'].st = "none"
          /\ \A r \in Ids : r # session' => sessions'[r] = sessions[r]
      BY <2>3, NewEffect
    <3>2. Heard => Heard'
      BY <1>1, <2>1, <3>1 DEF Heard, Up
    <3>3. QED
      BY <1>1, <2>1, <3>2 DEF Shown, Ending
  <2>4. QED
    BY <1>6, <2>2, <2>3, ConnectEffect
<1>7. ASSUME NEW s \in Started, NEW st \in States \ {"none"}, NEW kind \in StatusKinds,
             Becomes(s, st, kind), UNCHANGED <<manager, window>>, st \in Up \/ kind \in Ends
      PROVE  Shown' => Heard' \/ Ending'
  BY <1>1, <1>7, BecomesHeard DEF manager
<1>8. CASE ClickPause \/ ClickResume
  <2>1. {"paused", "resuming"} \subseteq StatusKinds
        /\ {"paused", "connected"} \subseteq States \ {"none"} /\ {"paused", "connected"} \subseteq Up
    BY DEF StatusKinds, States, Up
  <2>2. QED
    BY <1>1, <1>7, <1>8, <2>1 DEF ClickPause, ClickResume
<1>9. CASE SelectBackend
  BY <1>9 DEF SelectBackend, Untidy
<1>10. ASSUME NEW need \in SUBSET Inputs,
              (session # 0 /\ TryToConnect(need)) \/ UNCHANGED <<sessions, subs>>
       PROVE  Heard => Heard'
  <2>1. CASE session # 0 /\ TryToConnect(need)
    <3>1. /\ \A r \in Ids : r # session => sessions'[r] = sessions[r]
          /\ subs' \in {subs, subs \cup {session}}
          /\ sessions'[session].st = sessions[session].st \/ sessions[session].st = "waiting"
      BY <1>10, <2>1, TryEffect
    <3>2. QED
      BY <1>1, <3>1 DEF Heard, Up
  <2>2. CASE UNCHANGED <<sessions, subs>>
    BY <2>2 DEF Heard
  <2>3. QED
    BY <1>10, <2>1, <2>2
<1>11. session # 0 => sessions[session].need \in SUBSET Inputs
  BY <1>1 DEF SessionsType
<1>12. CASE SubmitCode
  <2>1. Heard => Heard'
    <3>1. CASE session # 0 /\ TryToConnect(sessions[session].need \ {"otp"})
      <4>1. sessions[session].need \ {"otp"} \in SUBSET Inputs
        BY <1>11, <3>1
      <4>2. QED
        BY <1>10, <3>1, <4>1
    <3>2. CASE UNCHANGED <<sessions, subs>>
      BY <3>2 DEF Heard
    <3>3. QED
      BY <1>12, <3>1, <3>2 DEF SubmitCode
  <2>2. UNCHANGED <<signals, window>>
    BY <1>12 DEF SubmitCode
  <2>3. QED
    BY <1>1, <2>1, <2>2 DEF Shown, Ending
<1>13. CASE Deliver
  <2> DEFINE g == Head(signals)
  <2>0. signals # <<>>
    BY <1>13 DEF Deliver
  <2>1. \A k : Has(signals, k) <=> Has(Tail(signals), k) \/ g.kind = k
    BY <1>1, <2>0, TailQueue
  <2> HIDE DEF g
  <2>2. CASE g.kind = "attention" /\ OnAttention
    <3>1. signals' = Tail(signals) /\ UNCHANGED window
      BY <2>2 DEF OnAttention
    <3>2. Heard => Heard'
      <4>1. CASE session # 0 /\ TryToConnect(sessions[session].need \ {"login"})
        <5>1. sessions[session].need \ {"login"} \in SUBSET Inputs
          BY <1>11, <4>1
        <5>2. QED
          BY <1>10, <4>1, <5>1
      <4>2. CASE UNCHANGED <<sessions, subs>>
        BY <4>2 DEF Heard
      <4>3. QED
        BY <2>2, <4>1, <4>2 DEF OnAttention
    <3>3. \A k : k # "attention" => (Has(signals', k) <=> Has(signals, k))
      BY <2>1, <2>2, <3>1
    <3>4. (Shown' <=> Shown) /\ (Ending' <=> Ending)
      BY <3>1, <3>3 DEF Shown, Ending, Ends
    <3>5. QED
      BY <1>1, <3>2, <3>4
  <2>3. ASSUME g.kind \in {"connected", "paused", "resuming"}, signals' = Tail(signals),
               UNCHANGED <<sessions, subs>>,
               window'.connected => window.connected \/ g.kind = "connected"
        PROVE  Shown' => Heard' \/ Ending'
    <3>1. \A k \in Ends : Has(signals', k) <=> Has(signals, k)
      BY <2>1, <2>3 DEF Ends
    <3>2. Shown' => Shown
      BY <2>1, <2>3 DEF Shown
    <3>3. QED
      BY <1>1, <2>3, <3>1, <3>2 DEF Heard, Ending
  <2>4. CASE g.kind = "connected" /\ OnConnected
    <3>1. signals' = Tail(signals) /\ UNCHANGED <<sessions, subs>>
      BY <2>4 DEF OnConnected, manager
    <3>2. QED
      BY <2>3, <2>4, <3>1
  <2>5. ASSUME NEW b \in BOOLEAN, g.kind \in {"paused", "resuming"}, OnPaused(b)
        PROVE  Shown' => Heard' \/ Ending'
    <3>1. signals' = Tail(signals) /\ UNCHANGED <<sessions, subs>>
          /\ window' = [window EXCEPT !.paused = b]
      BY <2>5 DEF OnPaused, manager
    <3>2. window'.connected = window.connected
      BY <3>1 DEF TypeOK
    <3>3. QED
      BY <2>3, <2>5, <3>1, <3>2
  <2>6. CASE OnDisconnected \/ OnAuthFailed
    <3>1. signals' = <<>> /\ window' = Off
      BY <2>6 DEF OnDisconnected, OnAuthFailed, UnsubscribeAll, HandleDisconnected
    <3>2. ~Has(signals', "connected")
      BY <3>1, EmptyHas
    <3>3. ~window'.connected
      BY <3>1 DEF Off
    <3>4. QED
      BY <3>2, <3>3 DEF Shown
  <2>7. QED
    BY <1>13, <2>2, <2>4, <2>5, <2>6 DEF Deliver, g
<1>14. CASE OtherProcess
  BY <1>2, <1>14 DEF OtherProcess, manager
<1>15. ASSUME NEW s \in Ids, Ask(s) PROVE Shown' => Heard' \/ Ending'
  <2>1. [kind |-> "attention", s |-> s] \in Signals
    BY DEF Signals
  <2>2. UNCHANGED <<window, subs>> /\ signals' \in {signals, Append(signals, [kind |-> "attention", s |-> s])}
    BY <1>15 DEF Ask, manager
  <2>3. \A k : k # "attention" => (Has(signals', k) <=> Has(signals, k))
    BY <1>1, <2>1, <2>2, AppendQueue
  <2>4. \A r \in Ids : sessions'[r].st = sessions[r].st
    BY <1>1, <1>15 DEF Ask, SessionsType
  <2>5. Heard => Heard'
    BY <1>1, <2>2, <2>4 DEF Heard
  <2>6. (Shown' <=> Shown) /\ (Ending' <=> Ending)
    BY <2>2, <2>3 DEF Shown, Ending, Ends
  <2>7. QED
    BY <1>1, <2>5, <2>6
<1>16. ASSUME NEW s \in Ids, Outcome(s) \/ Drop(s) PROVE Shown' => Heard' \/ Ending'
  <2>1. s \in Started
    BY <1>16 DEF Outcome, Drop, Started, Up
  <2>2. {"connected", "auth failed", "disconnected"} \subseteq StatusKinds
        /\ {"connected", "failed", "gone"} \subseteq States \ {"none"}
        /\ "connected" \in Up /\ {"auth failed", "disconnected"} \subseteq Ends
    BY DEF StatusKinds, States, Up, Ends
  <2>3. QED
    BY <1>7, <1>16, <2>1, <2>2 DEF Outcome, Drop
<1>17. CASE UNCHANGED vars
  BY <1>2, <1>17 DEF vars, manager
<1>18. QED
  BY <1>3, <1>4, <1>5, <1>6, <1>8, <1>9, <1>12, <1>13, <1>14, <1>15, <1>16, <1>17 DEF Next

(* A connection the window shows is there, and its end will be heard of:   *)
(* also after attempts were abandoned, codes refused and signals           *)
(* overtaken, as long as the backend is not changed (dbus.py of            *)
(* backend/openvpn3, unsubscribe_all and the status handler).              *)
THEOREM ShownConnectionIsHeard == Spec => []ShownIsHeard
<1>1. TypeOK /\ HeardInv => ShownIsHeard
  <2>1. signals \in Seq(Signals) /\ signals = <<>> => \A k : ~Has(signals, k)
    BY NothingEnds
  <2>2. QED
    BY <2>1, TypeFacts DEF HeardInv, ShownIsHeard
<1>2. QED
  BY <1>1, InitType, NextType, InitHeard, NextHeard, PTL DEF Spec


-----------------------------------------------------------------------------
(* One session, and a window in step with it.                              *)

(* Session s is the one that is not past.                                  *)
Only(s) ==
    /\ \A r \in Ids : r # s => Past(r)
    /\ \/ sessions[s].st \in Live /\ ~Refused(s) /\ Held(s)
       \/ LeftUp(s)

NoneInStep ==
    NoneLeft /\ IF OnlyAttention(signals) THEN ~window.connected /\ ~window.paused
                ELSE LastKind(signals) = "disconnected"

LEMMA InStepIs == InStep <=> (NoneInStep \/ \E s \in Ids : Only(s)) /\ EndsLast(signals)
BY DEF InStep, NoneInStep, Only

LEMMA OnlyLast ==
    ASSUME NEW q \in Seq(Signals), q # <<>>
    PROVE  OnlyAttention(q) => LastKind(q) = "attention"
<1>1. Len(q) \in Nat /\ Len(q) # 0
  BY EmptySeq
<1>2. Len(q) \in 1..Len(q)
  BY <1>1
<1>3. QED
  BY <1>2 DEF OnlyAttention, LastKind

(* Nothing is left, and no more is on its way than requests for input, or  *)
(* the end of the last session.                                            *)
LEMMA IdleInStep ==
    ASSUME NoneLeft', OnlyAttention(signals'), ~window'.connected, ~window'.paused
    PROVE  InStep'
<1>1. EndsLast(signals')
  BY DEF EndsLast, OnlyAttention, Ends
<1>2. QED
  BY <1>1 DEF InStep

LEMMA EndedInStep ==
    ASSUME NoneLeft', signals' \in Seq(Signals), signals' # <<>>,
           LastKind(signals') = "disconnected", EndsLast(signals')
    PROVE  InStep'
<1>1. ~OnlyAttention(signals')
  BY OnlyLast
<1>2. QED
  BY <1>1 DEF InStep

LEMMA OneInStep ==
    ASSUME NEW s \in Ids, sessions'[s].st \in Live, ~Refused(s)', Held(s)', EndsLast(signals'),
           \A r \in Ids : r # s => Past(r)'
    PROVE  InStep'
BY DEF InStep

(* A session that is past stays so.                                        *)
LEMMA StaysPast ==
    ASSUME NEW r \in Ids, Past(r), sessions'[r].st = sessions[r].st, Refused(r) => Refused(r)',
           session' # r \/ session' = session
    PROVE  Past(r)'
BY DEF Past

LEMMA TheOne ==
    ASSUME InStep, NEW s \in Ids, ~Past(s)
    PROVE  Only(s)
BY DEF InStep, NoneLeft, Only

(* A session that waits, connects or is up is the one.                     *)
LEMMA Working ==
    ASSUME InStep, NEW s \in Ids, sessions[s].st \in Up \cup {"waiting", "connecting"}
    PROVE  Only(s) /\ sessions[s].st \in Live
<1>1. ~Past(s) /\ sessions[s].st \in Live
  BY DEF Past, Live, Up
<1>2. QED
  BY <1>1, TheOne

(* While a session waits, connects or is up, no end is on its way.         *)
LEMMA Calm ==
    ASSUME TypeOK, InStep, NEW s \in Ids,
           sessions[s].st \in Up \cup {"waiting", "connecting"}
    PROVE  \A k \in Ends : ~Has(signals, k)
<1>1. Only(s) /\ EndsLast(signals) /\ signals \in Seq(Signals)
  BY TypeFacts, Working DEF InStep
<1>2. CASE OnlyAttention(signals)
  BY <1>1, <1>2, NothingEnds DEF Ends
<1>3. CASE LeftUp(s)
  BY <1>3 DEF LeftUp
<1>4. CASE Normal(s) /\ sessions[s].st \in Up
  <2>1. signals = <<>> \/ LastKind(signals) \notin Ends
    BY <1>4 DEF Normal, Ends, Up
  <2>2. QED
    BY <1>1, <2>1, NothingEnds
<1>5. QED
  BY <1>1, <1>2, <1>3, <1>4 DEF Only, Held, Normal, Blind

(* A session that is up or connects ends: heard, or unheard.               *)
LEMMA SaysGone ==
    ASSUME TypeOK, InStep, NEW s \in Ids, sessions[s].st \in Up \cup {"connecting"},
           Becomes(s, "gone", "disconnected"), UNCHANGED <<window, failed>>,
           session' \in {session, 0}
    PROVE  InStep'
<1>1. s \in Started /\ Only(s)
  BY Working DEF Started, Up
<1>2. "gone" \in States \ {"none"} /\ "disconnected" \in StatusKinds /\ "gone" \notin Live
  BY DEF States, StatusKinds, Live
<1>3. /\ sessions'[s].st = "gone" /\ \A r \in Ids : r # s => sessions'[r] = sessions[r]
      /\ s \notin subs => UNCHANGED signals
      /\ s \in subs => signals' = Append(signals, [kind |-> "disconnected", s |-> s])
      /\ [kind |-> "disconnected", s |-> s] \in Signals /\ signals \in Seq(Signals)
      /\ signals' \in Seq(Signals) /\ 0 \notin Ids
  BY <1>1, <1>2, BecomesEffect, TypeFacts
<1>4. \A r \in Ids : Refused(r)' <=> Refused(r)
  BY DEF Refused, Failed
<1>5. NoneLeft'
  <2>1. ASSUME NEW r \in Ids, r # s PROVE Past(r)'
    BY <1>1, <1>3, <1>4, <2>1, StaysPast DEF Only
  <2>2. Past(s)'
    BY <1>2, <1>3 DEF Past
  <2>3. QED
    BY <2>1, <2>2 DEF NoneLeft
<1> DEFINE g == [kind |-> "disconnected", s |-> s]
<1>6. CASE s \in subs
  <2>1. \A k \in Ends : ~Has(signals, k)
    BY Calm
  <2>2. Append(signals, g) # <<>> /\ LastKind(Append(signals, g)) = g.kind
        /\ EndsLast(Append(signals, g))
    BY <1>3, <2>1, AppendSignal
  <2>3. signals' # <<>> /\ LastKind(signals') = "disconnected" /\ EndsLast(signals')
    BY <1>3, <1>6, <2>2
  <2>4. QED
    BY <1>3, <1>5, <2>3, EndedInStep
<1>7. CASE s \notin subs
  <2>1. Blind(s)
    BY <1>1, <1>7 DEF Only, Held, Normal, LeftUp, Up
  <2>2. OnlyAttention(signals') /\ ~window'.connected /\ ~window'.paused
    BY <1>3, <1>7, <2>1 DEF Blind, Attempting, Off
  <2>3. QED
    BY <1>5, <2>2, IdleInStep
<1>8. QED
  BY <1>6, <1>7

(* A session answers and goes on, and says so, perhaps to nobody.          *)
LEMMA SaysUp ==
    ASSUME TypeOK, InStep, NEW s \in Ids, NEW st \in Up, NEW kind \in StatusKinds,
           Becomes(s, st, kind), UNCHANGED <<session, subs, window, failed>>, session = s,
           sessions[s].st \in Up \cup {"connecting"},
           window.connected \/ kind = "connected",
           kind \in IF st = "paused" THEN {"paused"} ELSE {"connected", "resuming"}
    PROVE  InStep'
<1>1. s \in Started /\ Only(s) /\ 0 \notin Ids
  BY Working, TypeFacts DEF Started, Up
<1>2. st \in States \ {"none"} /\ st \in Live
  BY DEF States, Live, Up
<1>3. /\ sessions'[s].st = st /\ \A r \in Ids : r # s => sessions'[r] = sessions[r]
      /\ s \notin subs => UNCHANGED signals
      /\ s \in subs => signals' = Append(signals, [kind |-> kind, s |-> s])
      /\ [kind |-> kind, s |-> s] \in Signals /\ signals \in Seq(Signals)
  BY <1>1, <1>2, BecomesEffect, TypeFacts
<1>4. (\A r \in Ids : Refused(r)' <=> Refused(r)) /\ (Unheard(s)' <=> Unheard(s))
  BY DEF Refused, Unheard, Failed
<1>5. ~Refused(s) /\ Held(s) /\ \A r \in Ids : r # s => Past(r)'
  BY <1>1, <1>3, <1>4, StaysPast DEF Only, LeftUp
<1> DEFINE g == [kind |-> kind, s |-> s]
<1>6. Held(s)' /\ EndsLast(signals')
  <2>1. CASE s \in subs
    <3>1. \A k \in Ends : ~Has(signals, k)
      BY Calm
    <3>2. /\ Append(signals, g) # <<>> /\ LastKind(Append(signals, g)) = g.kind
          /\ Has(Append(signals, g), g.kind) /\ EndsLast(Append(signals, g))
      BY <1>3, <3>1, AppendSignal
    <3>3. /\ signals' # <<>> /\ LastKind(signals') = kind /\ Has(signals', kind)
          /\ EndsLast(signals')
      BY <1>3, <2>1, <3>2
    <3>4. Normal(s)'
      BY <1>3, <2>1, <3>3 DEF Normal, Up
    <3>5. QED
      BY <3>3, <3>4 DEF Held
  <2>2. CASE s \notin subs
    <3>1. Blind(s)
      BY <1>5, <2>2 DEF Held, Normal, Up
    <3>2. ~window.connected
      BY <3>1 DEF Blind, Attempting, Off
    <3>3. st # "paused"
      BY <3>2
    <3>4. Blind(s)' /\ EndsLast(signals')
      BY <1>3, <1>4, <2>2, <3>1 DEF Blind, InStep
    <3>5. QED
      BY <1>3, <3>3, <3>4 DEF Held
  <2>3. QED
    BY <2>1, <2>2
<1>7. QED
  BY <1>2, <1>3, <1>4, <1>5, <1>6, OneInStep

(* Nothing but an answered attention signal is gone from the queue, and    *)
(* all a session did is start to connect.                                  *)
LEMMA Carries ==
    ASSUME TypeOK, InStep, UNCHANGED <<session, window>>, subs \subseteq subs', FailedMore,
           \A r \in Ids : \/ sessions'[r].st = sessions[r].st
                          \/ /\ sessions[r].st = "waiting" /\ sessions'[r].st = "connecting"
                             /\ r \in subs' \/ Unheard(r)',
           \/ UNCHANGED signals
           \/ signals # <<>> /\ signals' = Tail(signals) /\ Head(signals).kind = "attention"
    PROVE  InStep'
<1>1. signals \in Seq(Signals)
  BY TypeFacts
<1>2. /\ OnlyAttention(signals) => OnlyAttention(signals')
      /\ AttentionBefore(signals) => AttentionBefore(signals')
      /\ EndsLast(signals) => EndsLast(signals')
      /\ \A k : k # "attention" => (Has(signals', k) <=> Has(signals, k))
      /\ signals' # <<>> => signals # <<>> /\ LastKind(signals') = LastKind(signals)
      /\ signals' = <<>> => signals = <<>> \/ LastKind(signals) = "attention"
      /\ signals' \in Seq(Signals)
  <2>1. CASE UNCHANGED signals
    BY <1>1, <2>1
  <2>2. CASE signals # <<>> /\ signals' = Tail(signals) /\ Head(signals).kind = "attention"
    BY <1>1, <2>2, TailQueue
  <2>3. QED
    BY <2>1, <2>2
<1>3. /\ \A r \in Ids : Refused(r)' <=> Refused(r)
      /\ \A r \in Ids : Unheard(r) => Unheard(r)'
  BY DEF FailedMore, Unheard, Failed
<1>4. ASSUME NEW r \in Ids, Past(r) PROVE Past(r)'
  BY <1>3, <1>4 DEF Past, Live
<1>5. EndsLast(signals')
  BY <1>2 DEF InStep
<1>6. CASE NoneInStep
  <2>1. NoneLeft'
    BY <1>4, <1>6 DEF NoneInStep, NoneLeft
  <2>2. OnlyAttention(signals') => OnlyAttention(signals)
    <3>1. ASSUME OnlyAttention(signals'), ~OnlyAttention(signals) PROVE FALSE
      <4>1. LastKind(signals) = "disconnected"
        BY <1>6, <3>1 DEF NoneInStep
      <4>2. signals # <<>>
        BY <1>1, <3>1, NothingEnds
      <4>3. signals' # <<>> /\ LastKind(signals') = "disconnected"
        BY <1>2, <4>1, <4>2
      <4>4. QED
        BY <1>2, <3>1, <4>3, OnlyLast
    <3>2. QED
      BY <3>1
  <2>3. IF OnlyAttention(signals') THEN ~window'.connected /\ ~window'.paused
        ELSE LastKind(signals') = "disconnected"
    <3>1. signals' = <<>> => OnlyAttention(signals')
      BY <1>2, NothingEnds
    <3>2. QED
      BY <1>2, <1>6, <2>2, <3>1 DEF NoneInStep
  <2>4. QED
    BY <1>5, <2>1, <2>3 DEF InStep
<1>7. ASSUME NEW s \in Ids, Only(s) PROVE InStep'
  <2>1. \A r \in Ids : r # s => Past(r)'
    BY <1>4, <1>7 DEF Only
  <2>2. CASE LeftUp(s)
    <3>1. sessions'[s].st = sessions[s].st
      BY <2>2 DEF LeftUp, Up
    <3>2. LeftUp(s)'
      BY <1>2, <1>3, <2>2, <3>1 DEF LeftUp, Ends
    <3>3. QED
      BY <1>5, <2>1, <3>2 DEF InStep
  <2>3. CASE sessions[s].st \in Live /\ ~Refused(s) /\ Held(s)
    <3>1. Blind(s) => Blind(s)'
      BY <1>2, <1>3 DEF Blind
    <3>2. CASE sessions'[s].st = sessions[s].st
      <4>1. ASSUME Normal(s) PROVE Normal(s)'
        <5>1. sessions[s].st = "failed" =>
                 signals' # <<>> /\ LastKind(signals') = "auth failed" /\ AttentionBefore(signals')
          BY <1>2, <4>1 DEF Normal
        <5>2. sessions[s].st \in Up =>
                 /\ window.connected \/ Has(signals', "connected")
                 /\ IF signals' = <<>> THEN window.paused <=> sessions[s].st = "paused"
                    ELSE LastKind(signals') \in IF sessions[s].st = "paused" THEN {"paused"}
                                               ELSE {"connected", "resuming"}
          BY <1>2, <4>1 DEF Normal
        <5>3. QED
          BY <1>2, <3>2, <4>1, <5>1, <5>2 DEF Normal
      <4>2. QED
        BY <1>3, <1>5, <2>1, <2>3, <3>1, <3>2, <4>1, OneInStep DEF Held
    <3>3. CASE /\ sessions[s].st = "waiting" /\ sessions'[s].st = "connecting"
               /\ s \in subs' \/ Unheard(s)'
      <4>1. window = Attempting /\ OnlyAttention(signals')
        BY <1>2, <2>3, <3>3 DEF Held, Normal, Blind
      <4>2. Held(s)'
        BY <2>3, <3>3, <4>1 DEF Held, Normal, Blind, Up
      <4>3. sessions'[s].st \in Live
        BY <3>3 DEF Live
      <4>4. QED
        BY <1>3, <1>5, <2>1, <2>3, <4>2, <4>3, OneInStep
    <3>4. QED
      BY <3>2, <3>3
  <2>4. QED
    BY <1>7, <2>2, <2>3 DEF Only
<1>8. QED
  BY <1>6, <1>7, InStepIs

LEMMA InitTidy == Init => TidyInv
<1> SUFFICES ASSUME Init PROVE InStep
  BY DEF TidyInv
<1>1. signals = <<>> /\ ~window.connected /\ ~window.paused
  BY DEF Init, Off
<1>2. NoneLeft
  BY DEF Init, NoneLeft, Past, Live
<1>3. EndsLast(signals) /\ OnlyAttention(signals)
  BY <1>1 DEF EndsLast, OnlyAttention
<1>4. QED
  BY <1>1, <1>2, <1>3 DEF InStep

(* The inputs of the manager's session are answered, or a call fails.      *)
LEMMA Answers ==
    ASSUME TypeOK, NEW need \in SUBSET Inputs,
           \/ session # 0 /\ TryToConnect(need)
           \/ session # 0 /\ Fails("input", session) /\ UNCHANGED <<sessions, subs>>
           \/ UNCHANGED <<sessions, subs, failed>>
    PROVE  /\ subs \subseteq subs' /\ FailedMore
           /\ \A r \in Ids : \/ sessions'[r].st = sessions[r].st
                             \/ /\ sessions[r].st = "waiting" /\ sessions'[r].st = "connecting"
                                /\ r \in subs' \/ Unheard(r)'
<1>1. CASE session # 0 /\ TryToConnect(need)
  <2>1. PICK s : s = session /\ s # 0
    BY <1>1
  <2>2. /\ FailedMore /\ \A r \in Ids : r # s => sessions'[r] = sessions[r]
        /\ subs' \in {subs, subs \cup {s}}
        /\ \/ sessions'[s].st = sessions[s].st
           \/ /\ sessions[s].st = "waiting" /\ sessions'[s].st = "connecting"
              /\ s \in subs' \/ Unheard(s)'
    BY <1>1, <2>1, TryEffect
  <2>3. QED
    BY <2>2
<1>2. CASE session # 0 /\ Fails("input", session) /\ UNCHANGED <<sessions, subs>>
  <2>1. session \in Started /\ Started' = Started
    BY <1>2, TypeFacts DEF Started
  <2>2. FailedMore
    BY <1>2, <2>1, FailsEffect
  <2>3. QED
    BY <1>2, <2>2
<1>3. CASE UNCHANGED <<sessions, subs, failed>>
  <2>1. FailedMore
    BY <1>3, KeepsFailed DEF Started
  <2>2. QED
    BY <1>3, <2>1
<1>4. QED
  BY <1>1, <1>2, <1>3

(* The oldest signal is dispatched.                                        *)
LEMMA DeliverInStep ==
    ASSUME TypeOK, InStep, Deliver
    PROVE  InStep'
<1> DEFINE g == Head(signals)
<1>1. /\ signals # <<>> /\ signals \in Seq(Signals) /\ SessionsType /\ Started \subseteq Ids
      /\ (session # 0 <=> session \in Started) /\ 0 \notin Ids
  BY TypeFacts DEF Deliver
<1>2. /\ LastKind(signals) = IF Tail(signals) = <<>> THEN g.kind ELSE LastKind(Tail(signals))
      /\ \A k : Has(signals, k) <=> Has(Tail(signals), k) \/ g.kind = k
      /\ OnlyAttention(signals) => g.kind = "attention"
      /\ AttentionBefore(signals) /\ Tail(signals) # <<>> => g.kind = "attention"
      /\ EndsLast(Tail(signals)) /\ (g.kind \in Ends => LastKind(signals) = g.kind)
      /\ Tail(signals) \in Seq(Signals)
  BY <1>1, TailQueue DEF InStep
<1> HIDE DEF g
<1>3. CASE g.kind = "attention" /\ OnAttention
  <2>1. signals' = Tail(signals) /\ UNCHANGED <<session, window>>
    BY <1>3 DEF OnAttention
  <2>2. PICK need \in SUBSET Inputs :
           \/ session # 0 /\ TryToConnect(need)
           \/ session # 0 /\ Fails("input", session) /\ UNCHANGED <<sessions, subs>>
           \/ UNCHANGED <<sessions, subs, failed>>
    <3>1. session # 0 => sessions[session].need \ {"login"} \in SUBSET Inputs
      BY <1>1 DEF SessionsType
    <3>2. CASE session # 0 /\ TryToConnect(sessions[session].need \ {"login"})
      BY <3>1, <3>2
    <3>3. CASE \/ session # 0 /\ Fails("input", session) /\ UNCHANGED <<sessions, subs>>
               \/ UNCHANGED <<sessions, subs, failed>>
      BY <3>3
    <3>4. QED
      BY <1>3, <3>2, <3>3 DEF OnAttention
  <2>3. /\ subs \subseteq subs' /\ FailedMore
        /\ \A r \in Ids : \/ sessions'[r].st = sessions[r].st
                          \/ /\ sessions[r].st = "waiting" /\ sessions'[r].st = "connecting"
                             /\ r \in subs' \/ Unheard(r)'
    BY <2>2, Answers
  <2>4. QED
    BY <1>1, <1>3, <2>1, <2>3, Carries DEF g
<1>4. ASSUME g.kind \in {"connected", "paused", "resuming"}, signals' = Tail(signals),
             UNCHANGED <<sessions, session, subs, failed>>,
             window'.paused <=> g.kind = "paused",
             window'.connected <=> window.connected \/ g.kind = "connected"
      PROVE  InStep'
  <2>0. /\ ~OnlyAttention(signals)
        /\ \A r \in Ids : Past(r) => Past(r)'
        /\ \A r \in Ids : Refused(r)' <=> Refused(r)
    BY <1>2, <1>4 DEF Past, Refused, Failed
  <2>1. CASE NoneInStep
    <3>1. LastKind(signals) = "disconnected"
      BY <2>0, <2>1 DEF NoneInStep
    <3>2. signals' # <<>> /\ LastKind(signals') = "disconnected"
      BY <1>2, <1>4, <3>1
    <3>3. NoneLeft'
      BY <2>0, <2>1 DEF NoneInStep, NoneLeft
    <3>4. QED
      BY <1>2, <1>4, <3>2, <3>3, EndedInStep
  <2>2. ASSUME NEW s \in Ids, Only(s) PROVE InStep'
    <3>1. CASE LeftUp(s)
      <4>1. LeftUp(s)'
        BY <1>2, <1>4, <2>0, <3>1 DEF LeftUp, Ends
      <4>2. QED
        BY <1>2, <1>4, <2>0, <2>2, <4>1 DEF InStep, Only
    <3>2. CASE sessions[s].st \in Live /\ ~Refused(s) /\ Held(s)
      <4>1. session = s /\ Normal(s)
        BY <2>0, <3>2 DEF Held, Blind
      <4>2. sessions[s].st \notin {"waiting", "connecting"} /\ sessions[s].st # "failed"
        BY <1>2, <1>4, <4>1 DEF Normal
      <4>3. sessions[s].st \in Up
        BY <3>2, <4>2 DEF Live, Up
      <4>4. /\ s \in subs /\ (window.connected \/ Has(signals, "connected"))
            /\ LastKind(signals) \in IF sessions[s].st = "paused" THEN {"paused"}
                                     ELSE {"connected", "resuming"}
        BY <1>1, <4>1, <4>3 DEF Normal, Up
      <4>5. window'.connected \/ Has(signals', "connected")
        BY <1>2, <1>4, <4>4
      <4>6. IF signals' = <<>> THEN window'.paused <=> sessions[s].st = "paused"
            ELSE LastKind(signals') \in IF sessions[s].st = "paused" THEN {"paused"}
                                        ELSE {"connected", "resuming"}
        BY <1>2, <1>4, <4>4
      <4>7. Normal(s)'
        BY <1>4, <4>3, <4>4, <4>5, <4>6 DEF Normal, Up
      <4>8. QED
        BY <1>2, <1>4, <2>0, <2>2, <3>2, <4>1, <4>7, OneInStep DEF Only, Held
    <3>3. QED
      BY <2>2, <3>1, <3>2 DEF Only
  <2>3. QED
    BY <2>1, <2>2, InStepIs
<1>5. CASE g.kind = "connected" /\ OnConnected
  <2>1. signals' = Tail(signals) /\ UNCHANGED <<sessions, session, subs, failed>>
        /\ window'.connected /\ ~window'.paused
    BY <1>5 DEF OnConnected, manager
  <2>2. QED
    BY <1>4, <1>5, <2>1
<1>6. ASSUME NEW b \in BOOLEAN, g.kind = IF b THEN "paused" ELSE "resuming", OnPaused(b)
      PROVE  InStep'
  <2>1. signals' = Tail(signals) /\ UNCHANGED <<sessions, session, subs, failed>>
        /\ window' = [window EXCEPT !.paused = b]
    BY <1>6 DEF OnPaused, manager
  <2>2. window'.connected = window.connected /\ window'.paused = b
    BY <2>1 DEF TypeOK
  <2>3. QED
    BY <1>4, <1>6, <2>1, <2>2
<1>7. ASSUME g.kind \in Ends
      PROVE  NoneLeft \/ /\ g.kind = "auth failed"
                         /\ session \in Ids /\ sessions[session].st = "failed"
                         /\ \A r \in Ids : r # session => Past(r)
  <2>1. ~OnlyAttention(signals) /\ LastKind(signals) = g.kind /\ Has(signals, g.kind)
    BY <1>2, <1>7 DEF Ends
  <2>2. ASSUME NEW s \in Ids, Only(s)
        PROVE  /\ g.kind = "auth failed" /\ session = s /\ sessions[s].st = "failed"
    <3>1. ~LeftUp(s)
      BY <1>7, <2>1 DEF LeftUp
    <3>2. session = s /\ Normal(s) /\ sessions[s].st \in Live
      BY <2>1, <2>2, <3>1 DEF Only, Held, Blind
    <3>3. sessions[s].st \notin {"waiting", "connecting"}
      BY <2>1, <3>2 DEF Normal
    <3>4. sessions[s].st \notin Up
      BY <1>1, <1>7, <2>1, <3>2 DEF Normal, Up, Ends
    <3>5. sessions[s].st = "failed"
      BY <3>2, <3>3, <3>4 DEF Live, Up
    <3>6. QED
      BY <2>1, <3>2, <3>5 DEF Normal
  <2>3. QED
    BY <2>2, InStepIs DEF NoneInStep, Only
<1>8. OnlyAttention(<<>>)
  BY DEF OnlyAttention
<1>9. CASE g.kind = "disconnected" /\ OnDisconnected
  <2>1. signals' = <<>> /\ window' = Off /\ UNCHANGED <<sessions, session, failed>>
    BY <1>9 DEF OnDisconnected, UnsubscribeAll, HandleDisconnected
  <2>2. NoneLeft
    BY <1>7, <1>9 DEF Ends
  <2>3. NoneLeft' /\ ~window'.connected /\ ~window'.paused
    BY <2>1, <2>2 DEF NoneLeft, Past, Refused, Failed, Off
  <2>4. QED
    BY <1>8, <2>1, <2>3, IdleInStep
<1>10. CASE g.kind = "auth failed" /\ OnAuthFailed
  <2>1. signals' = <<>> /\ ~window'.connected /\ ~window'.paused /\ session' = 0
    BY <1>10 DEF OnAuthFailed, UnsubscribeAll, HandleDisconnected, Off
  <2>2. CASE session = 0
    <3>1. UNCHANGED <<sessions, failed>> /\ NoneLeft
      <4>1. g.kind \in Ends
        BY <1>10 DEF Ends
      <4>2. NoneLeft
        BY <1>1, <1>7, <2>2, <4>1
      <4>3. QED
        BY <1>10, <2>2, <4>2 DEF OnAuthFailed
    <3>2. NoneLeft'
      BY <1>1, <2>1, <3>1 DEF NoneLeft, Past, Refused, Failed
    <3>3. QED
      BY <1>8, <2>1, <3>2, IdleInStep
  <2>3. CASE session # 0
    <3>1. PICK s \in Ids : s = session /\ s \in Started /\ NativeDisconnect(s)
      BY <1>1, <1>10, <2>3 DEF OnAuthFailed
    <3>2. /\ \A r \in Ids : r # s => sessions'[r] = sessions[r] /\ (Refused(r)' <=> Refused(r))
          /\ \/ sessions'[s].st = "gone"
             \/ UNCHANGED sessions /\ Refused(s)'
             \/ sessions[s].st \notin Live /\ UNCHANGED sessions
      BY <3>1, NativeEffect
    <3>3. \A r \in Ids : r # s => Past(r)
      BY <1>7, <1>10, <3>1 DEF NoneLeft, Ends
    <3>4. ASSUME NEW r \in Ids, r # s PROVE Past(r)'
      BY <1>1, <2>1, <3>2, <3>3, <3>4, StaysPast
    <3>5. sessions[s].st \in Live => sessions[s].st = "failed"
      BY <1>7, <1>10, <3>1 DEF NoneLeft, Past, Ends
    <3>6. Past(s)'
      <4>1. session' # s
        BY <1>1, <2>1, <3>1
      <4>2. CASE sessions'[s].st = "gone"
        BY <4>2 DEF Past, Live
      <4>3. CASE UNCHANGED sessions /\ Refused(s)'
        BY <3>5, <4>1, <4>3 DEF Past
      <4>4. CASE sessions[s].st \notin Live /\ UNCHANGED sessions
        BY <4>4 DEF Past
      <4>5. QED
        BY <3>2, <4>2, <4>3, <4>4
    <3>7. NoneLeft'
      <4>1. ASSUME NEW r \in Ids PROVE Past(r)'
        BY <3>4, <3>6
      <4>2. QED
        BY <4>1 DEF NoneLeft
    <3>8. QED
      BY <1>8, <2>1, <3>7, IdleInStep
  <2>4. QED
    BY <2>2, <2>3
<1>11. QED
  BY <1>3, <1>5, <1>6, <1>9, <1>10 DEF Deliver, g

LEMMA NextTidy == TypeOK /\ TidyInv /\ [Next]_vars => TidyInv'
<1> SUFFICES ASSUME TypeOK, TidyInv, [Next]_vars, untidy' = {}
             PROVE  InStep'
  BY DEF TidyInv
<1>1. /\ untidy = {} /\ InStep
      /\ SessionsType /\ signals \in Seq(Signals) /\ Started \subseteq Ids
      /\ session # 0 <=> session \in Started
      /\ 0 \notin Ids
      /\ \A s \in Ids : sessions[s].st \in Live => s \in Started
  BY UntidyGrows, TypeFacts DEF TidyInv
<1>2. ~CancelAttempt /\ ~CloseDialog /\ ~SelectBackend
  BY DEF CancelAttempt, CloseDialog, SelectBackend, Untidy
(* Without an attempt, the one session is up.                              *)
<1>3. ASSUME NEW s \in Ids, ~window.attempt, Only(s)
      PROVE  sessions[s].st \in Up /\ s \in subs
  <2>1. window # Attempting
    BY <1>3 DEF Attempting, Off
  <2>2. QED
    BY <1>3, <2>1 DEF Only, LeftUp, Held, Normal, Blind, Live, Up
<1>4. CASE ClickDisconnect
  <2>1. ~window.attempt /\ session' = 0 /\ (UNCHANGED window \/ window' = Off) /\ UNCHANGED subs
    BY <1>4 DEF ClickDisconnect, HandleDisconnected
  <2>2. CASE NoneInStep
    <3>1. UNCHANGED <<sessions, signals, failed>>
      <4>1. CASE session = 0
        BY <1>4, <4>1 DEF ClickDisconnect
      <4>2. CASE session # 0
        <5>1. sessions[session].st \notin Live
          BY <1>1, <2>2, <4>2 DEF NoneInStep, NoneLeft, Past
        <5>2. NativeDisconnect(session) /\ (UNCHANGED sessions => UNCHANGED signals)
          BY <1>4, <4>2 DEF ClickDisconnect
        <5>3. QED
          BY <5>1, <5>2 DEF NativeDisconnect
      <4>3. QED
        BY <4>1, <4>2
    <3>2. NoneLeft'
      BY <1>1, <2>1, <2>2, <3>1 DEF NoneInStep, NoneLeft, Past, Refused, Failed
    <3>3. CASE OnlyAttention(signals)
      <4>1. ~window'.connected /\ ~window'.paused
        BY <2>1, <2>2, <3>3 DEF NoneInStep, Off
      <4>2. QED
        BY <3>1, <3>2, <3>3, <4>1, IdleInStep
    <3>4. CASE ~OnlyAttention(signals)
      <4>1. LastKind(signals') = "disconnected" /\ EndsLast(signals') /\ signals' # <<>>
        BY <1>1, <2>2, <3>1, <3>4, NothingEnds DEF NoneInStep, InStep
      <4>2. QED
        BY <1>1, <3>1, <3>2, <4>1, EndedInStep
    <3>5. QED
      BY <3>3, <3>4
  <2>3. ASSUME NEW s \in Ids, Only(s) PROVE InStep'
    <3>1. sessions[s].st \in Up /\ s \in subs
      BY <1>3, <2>1, <2>3
    <3>2. sessions[s].st \in Live /\ "failed" \notin Up
      BY <3>1 DEF Up, Live
    <3>3. CASE LeftUp(s)
      <4>1. session = 0 /\ UNCHANGED <<sessions, signals, failed, session, subs>>
        BY <1>4, <2>1, <3>3 DEF LeftUp, ClickDisconnect
      <4>2. LeftUp(s)' /\ \A r \in Ids : r # s => Past(r)'
        BY <2>3, <3>3, <4>1 DEF Only, LeftUp, Past, Refused, Failed
      <4>3. EndsLast(signals')
        BY <1>1, <4>1 DEF InStep
      <4>4. QED
        BY <4>2, <4>3 DEF InStep
    <3>4. CASE ~LeftUp(s)
      <4>1. session = s /\ session # 0 /\ session \in Started /\ ~Refused(s)
        BY <1>1, <2>3, <3>4 DEF Only, Held
      <4>2. /\ NativeDisconnect(session) /\ UNCHANGED window
            /\ signals' = IF sessions' # sessions /\ session \in subs
                          THEN Append(signals, [kind |-> "disconnected", s |-> session])
                          ELSE signals
        BY <1>4, <4>1 DEF ClickDisconnect
      <4>3. /\ \A r \in Ids : r # s => sessions'[r] = sessions[r] /\ (Refused(r)' <=> Refused(r))
            /\ \/ /\ sessions'[s].st = "gone" /\ sessions' # sessions /\ UNCHANGED failed
                  /\ sessions' = [sessions EXCEPT ![s].st = "gone"]
               \/ UNCHANGED sessions /\ Refused(s)'
        BY <3>2, <4>1, <4>2, NativeEffect
      <4>4. CASE UNCHANGED sessions /\ Refused(s)'
        <5>1. UNCHANGED signals
          BY <4>2, <4>4
        <5>2. \A k \in Ends : ~Has(signals, k)
          BY <1>1, <3>1, Calm
        <5>3. LeftUp(s)'
          BY <2>1, <3>1, <4>4, <5>1, <5>2 DEF LeftUp
        <5>4. ASSUME NEW r \in Ids, r # s PROVE Past(r)'
          BY <1>1, <2>1, <2>3, <4>3, <4>4, <5>4, StaysPast DEF Only
        <5>5. EndsLast(signals')
          BY <1>1, <5>1 DEF InStep
        <5>6. QED
          BY <5>3, <5>4, <5>5 DEF InStep
      <4>5. CASE /\ sessions' = [sessions EXCEPT ![s].st = "gone"] /\ sessions' # sessions
                 /\ UNCHANGED failed
        <5>1. Becomes(s, "gone", "disconnected")
          BY <4>1, <4>2, <4>5 DEF Becomes
        <5>2. QED
          BY <1>1, <2>1, <3>1, <4>2, <4>5, <5>1, SaysGone
      <4>6. QED
        BY <4>3, <4>4, <4>5
    <3>5. QED
      BY <3>3, <3>4
  <2>4. QED
    BY <1>1, <2>2, <2>3, InStepIs
<1>5. CASE ClickConnect
  <2>1. ~window.attempt /\ ~Status /\ signals = <<>> /\ signals' = <<>> /\ UNCHANGED failed
    BY <1>5, ConnectEffect
  <2>2. NoneInStep
    <3>1. \A s \in Ids : ~Only(s)
      BY <1>3, <2>1 DEF Status
    <3>2. QED
      BY <1>1, <3>1, InStepIs
  <2>3. OnlyAttention(signals') /\ EndsLast(signals') /\ OnlyAttention(signals)
    BY <2>1 DEF OnlyAttention, EndsLast
  <2>4. ~window.connected /\ ~window.paused /\ NoneLeft
    BY <2>2, <2>3 DEF NoneInStep
  <2>5. \A r \in Ids : Refused(r)' <=> Refused(r)
    BY <2>1 DEF Refused, Failed
  <2>6. CASE UNCHANGED sessions /\ session' \in {session, 0}
    <3>1. ASSUME NEW r \in Ids PROVE Past(r)'
      BY <1>1, <2>4, <2>5, <2>6, StaysPast DEF NoneLeft
    <3>2. NoneLeft'
      BY <3>1 DEF NoneLeft
    <3>3. ~window'.connected /\ ~window'.paused
      BY <1>5, <2>4, ConnectEffect DEF Off, Attempting
    <3>4. QED
      BY <2>3, <3>2, <3>3, IdleInStep
  <2>7. CASE NewSession /\ window' = Attempting
    <3>1. PICK s \in Ids :
             /\ s = session' /\ s \in Started' /\ sessions'[s].st = "waiting"
             /\ sessions[s].st = "none"
             /\ \A r \in Ids : r # s => sessions'[r] = sessions[r]
      BY <2>7, NewEffect DEF Started
    <3>2. sessions'[s].st \in Live /\ s \notin Started
      BY <3>1 DEF Started, Live
    <3>3. ASSUME NEW r \in Ids, r # s PROVE Past(r)'
      BY <2>4, <2>5, <3>1, <3>3, StaysPast DEF NoneLeft
    <3>4. ~Refused(s)'
      <4>1. Refused(s) => s \in Started
        BY DEF Refused, Failed, TypeOK
      <4>2. QED
        BY <2>5, <3>2, <4>1
    <3>5. Held(s)'
      BY <2>3, <2>7, <3>1 DEF Held, Normal, Up
    <3>6. QED
      BY <2>3, <3>2, <3>3, <3>4, <3>5, OneInStep
  <2>8. QED
    BY <1>5, <2>6, <2>7, ConnectEffect
<1>6. CASE ClickPause \/ ClickResume
  <2>1. session \in Ids /\ UNCHANGED <<session, subs, window, failed>> /\ window.connected
    BY <1>1, <1>6 DEF ClickPause, ClickResume, manager
  <2>2. {"paused", "resuming"} \subseteq StatusKinds /\ {"paused", "connected"} \subseteq Up
    BY DEF StatusKinds, Up
  <2>3. CASE ClickPause
    BY <1>1, <2>1, <2>2, <2>3, SaysUp DEF ClickPause
  <2>4. CASE ClickResume
    <3>1. sessions[session].st = "paused" /\ Becomes(session, "connected", "resuming")
      BY <2>4 DEF ClickResume
    <3>2. "resuming" \in IF "connected" = "paused" THEN {"paused"} ELSE {"connected", "resuming"}
      OBVIOUS
    <3>3. QED
      BY <1>1, <2>1, <2>2, <3>1, <3>2, SaysUp
  <2>5. QED
    BY <1>6, <2>3, <2>4
<1>7. CASE SubmitCode
  <2>1. UNCHANGED <<session, window, signals>>
    BY <1>7 DEF SubmitCode
  <2>2. PICK need \in SUBSET Inputs :
           \/ session # 0 /\ TryToConnect(need)
           \/ session # 0 /\ Fails("input", session) /\ UNCHANGED <<sessions, subs>>
           \/ UNCHANGED <<sessions, subs, failed>>
    <3>1. session # 0 => sessions[session].need \ {"otp"} \in SUBSET Inputs
      BY <1>1 DEF SessionsType
    <3>2. CASE session # 0 /\ TryToConnect(sessions[session].need \ {"otp"})
      BY <3>1, <3>2
    <3>3. CASE \/ session # 0 /\ Fails("input", session) /\ UNCHANGED <<sessions, subs>>
               \/ UNCHANGED <<sessions, subs, failed>>
      BY <3>3
    <3>4. QED
      BY <1>7, <3>2, <3>3 DEF SubmitCode
  <2>3. /\ subs \subseteq subs' /\ FailedMore
        /\ \A r \in Ids : \/ sessions'[r].st = sessions[r].st
                          \/ /\ sessions[r].st = "waiting" /\ sessions'[r].st = "connecting"
                             /\ r \in subs' \/ Unheard(r)'
    BY <2>2, Answers
  <2>4. QED
    BY <1>1, <2>1, <2>3, Carries
<1>8. CASE Deliver
  BY <1>1, <1>8, DeliverInStep
<1>9. ASSUME UNCHANGED <<sessions, session, subs, signals, window, failed>>
      PROVE  InStep'
  <2>1. FailedMore
    BY <1>9, KeepsFailed DEF Started
  <2>2. QED
    BY <1>1, <1>9, <2>1, Carries
<1>10. CASE OtherProcess
  BY <1>9, <1>10 DEF OtherProcess, manager
<1>11. ASSUME NEW s \in Ids, Ask(s) PROVE InStep'
  <2>1. [kind |-> "attention", s |-> s] \in Signals
    BY DEF Signals
  <2>2. /\ sessions[s].st = "waiting" /\ UNCHANGED <<session, window, subs, failed>>
        /\ signals' \in {signals, Append(signals, [kind |-> "attention", s |-> s])}
    BY <1>11 DEF Ask, manager
  <2>3. \A r \in Ids : sessions'[r].st = sessions[r].st
    BY <1>1, <1>11 DEF Ask, SessionsType
  <2>4. CASE UNCHANGED signals
    <3>1. FailedMore
      BY <2>2, <2>3, KeepsFailed DEF Started
    <3>2. QED
      BY <1>1, <2>2, <2>3, <2>4, <3>1, Carries
  <2>5. CASE signals' = Append(signals, [kind |-> "attention", s |-> s])
    <3>1. Only(s) /\ sessions[s].st \in Live
      BY <1>1, <2>2, Working
    <3>2. Held(s) /\ ~Refused(s)
      BY <2>2, <3>1 DEF Only, LeftUp, Up
    <3>3. OnlyAttention(signals) /\ window = Attempting
      BY <2>2, <3>2 DEF Held, Normal, Blind
    <3>4. OnlyAttention(signals')
      <4>1. OnlyAttention(Append(signals, [kind |-> "attention", s |-> s]))
        BY <1>1, <2>1, <3>3, AppendSignal
      <4>2. QED
        BY <2>5, <4>1
    <3>5. EndsLast(signals')
      BY <3>4 DEF EndsLast, OnlyAttention, Ends
    <3>6. Held(s)'
      BY <2>2, <2>3, <3>2, <3>3, <3>4 DEF Held, Normal, Up
    <3>7. \A r \in Ids : Refused(r)' <=> Refused(r)
      BY <2>2 DEF Refused, Failed
    <3>8. \A r \in Ids : r # s => Past(r)'
      BY <2>2, <2>3, <3>1, <3>7 DEF Only, Past
    <3>9. QED
      BY <2>3, <3>1, <3>2, <3>5, <3>6, <3>7, <3>8, OneInStep
  <2>6. QED
    BY <2>2, <2>4, <2>5
<1>12. ASSUME NEW s \in Ids, Outcome(s) PROVE InStep'
  <2>1. sessions[s].st = "connecting" /\ UNCHANGED <<session, subs, window, failed>>
    BY <1>12 DEF Outcome, manager
  <2>2. Only(s) /\ Held(s) /\ ~Refused(s) /\ session = s /\ window = Attempting
        /\ OnlyAttention(signals) /\ s \in Started
    <3>1. Only(s)
      BY <1>1, <2>1, Working
    <3>2. Held(s) /\ ~Refused(s)
      BY <2>1, <3>1 DEF Only, LeftUp, Up
    <3>3. QED
      BY <2>1, <3>1, <3>2 DEF Held, Normal, Blind, Started
  <2>3. CASE Becomes(s, "connected", "connected")
    <3>1. "connected" \in Up /\ "connected" \in StatusKinds
      BY DEF Up, StatusKinds
    <3>2. "connected" \in IF "connected" = "paused" THEN {"paused"} ELSE {"connected", "resuming"}
      OBVIOUS
    <3>3. QED
      BY <1>1, <2>1, <2>2, <2>3, <3>1, <3>2, SaysUp
  <2>4. CASE Becomes(s, "gone", "disconnected")
    BY <1>1, <2>1, <2>4, SaysGone
  <2>5. CASE Becomes(s, "failed", "auth failed")
    <3>1. "failed" \in States \ {"none"} /\ "auth failed" \in StatusKinds /\ "failed" \in Live
          /\ "failed" \notin Up
      BY DEF States, StatusKinds, Live, Up
    <3>2. /\ sessions'[s].st = "failed" /\ \A r \in Ids : r # s => sessions'[r] = sessions[r]
          /\ s \notin subs => UNCHANGED signals
          /\ s \in subs => signals' = Append(signals, [kind |-> "auth failed", s |-> s])
          /\ [kind |-> "auth failed", s |-> s] \in Signals
      BY <2>2, <2>5, <3>1, BecomesEffect
    <3>3. (\A r \in Ids : Refused(r)' <=> Refused(r)) /\ (Unheard(s)' <=> Unheard(s))
      BY <2>1 DEF Refused, Unheard, Failed
    <3>4. ASSUME NEW r \in Ids, r # s PROVE Past(r)'
      BY <2>1, <2>2, <3>2, <3>3, <3>4, StaysPast DEF Only
    <3>5. Held(s)' /\ EndsLast(signals')
      <4>1. CASE s \in subs
        <5>1. \A k \in Ends : ~Has(signals, k)
          BY <1>1, <2>1, Calm
        <5> DEFINE g == [kind |-> "auth failed", s |-> s]
        <5>2. /\ Append(signals, g) # <<>> /\ LastKind(Append(signals, g)) = g.kind
              /\ AttentionBefore(Append(signals, g)) /\ EndsLast(Append(signals, g))
          BY <1>1, <2>2, <3>2, <5>1, AppendSignal
        <5>3. /\ signals' # <<>> /\ LastKind(signals') = "auth failed"
              /\ AttentionBefore(signals') /\ EndsLast(signals')
          BY <3>2, <4>1, <5>2
        <5>4. Normal(s)'
          BY <2>1, <2>2, <3>1, <3>2, <4>1, <5>3 DEF Normal
        <5>5. QED
          BY <2>1, <2>2, <5>3, <5>4 DEF Held
      <4>2. CASE s \notin subs
        <5>1. Blind(s)
          BY <2>1, <2>2, <4>2 DEF Held, Normal
        <5>2. Blind(s)' /\ EndsLast(signals')
          BY <1>1, <2>1, <3>2, <3>3, <4>2, <5>1 DEF Blind, InStep
        <5>3. QED
          BY <2>1, <2>2, <3>2, <5>2 DEF Held
      <4>3. QED
        BY <4>1, <4>2
    <3>6. QED
      BY <2>2, <3>1, <3>2, <3>3, <3>4, <3>5, OneInStep
  <2>6. QED
    BY <1>12, <2>3, <2>4, <2>5 DEF Outcome
<1>13. ASSUME NEW s \in Ids, Drop(s) PROVE InStep'
  BY <1>1, <1>13, SaysGone DEF Drop, manager
<1>14. CASE UNCHANGED vars
  BY <1>9, <1>14 DEF vars, manager
<1>15. QED
  BY <1>2, <1>4, <1>5, <1>6, <1>7, <1>8, <1>10, <1>11, <1>12, <1>13, <1>14 DEF Next

LEMMA Tidy == Spec => [](TypeOK /\ TidyInv)
BY InitType, NextType, InitTidy, NextTidy, PTL DEF Spec

(* When no signal is on its way, the window shows a connection exactly     *)
(* when this program has one, and "Resume" exactly when it is paused, for  *)
(* any number of sessions, however they ended and whatever calls failed,   *)
(* unless one is up whose end was refused or whose log is not forwarded    *)
(* (main_window.py, on_connection_event; connection_manager.py, class      *)
(* OpenVPN3); as long as no attempt was abandoned, no signal overtaken, no *)
(* status misread and the backend not changed.                             *)
THEOREM WindowShowsSession == Spec => []WindowFollowsSession
<1>1. TypeOK /\ TidyInv => WindowFollowsSession
  <2> SUFFICES ASSUME TypeOK, InStep, signals = <<>>,
                      \A s \in Ids : sessions[s].st \in Up =>
                          Failed(s) \cap {"disconnect", "listen"} = {}
               PROVE  /\ window.connected <=> \E s \in Ids : sessions[s].st \in Up
                      /\ window.paused <=> \E s \in Ids : sessions[s].st = "paused"
    BY DEF WindowFollowsSession, TidyInv
  <2>1. CASE NoneInStep
    <3>1. OnlyAttention(signals)
      BY NothingEnds, TypeFacts
    <3>2. \A s \in Ids : sessions[s].st \notin Up
      BY <2>1 DEF NoneInStep, NoneLeft, Past, Live, Up
    <3>3. QED
      BY <2>1, <3>1, <3>2 DEF NoneInStep, Up
  <2>2. ASSUME NEW s \in Ids, Only(s)
        PROVE  /\ window.connected <=> \E r \in Ids : sessions[r].st \in Up
               /\ window.paused <=> \E r \in Ids : sessions[r].st = "paused"
    <3>1. \A r \in Ids : r # s => sessions[r].st \notin Up
      BY <2>2 DEF Only, Past, Live, Up
    <3>2. ~LeftUp(s)
      BY DEF LeftUp, Refused
    <3>3. Held(s) /\ sessions[s].st \in Live
      BY <2>2, <3>2 DEF Only
    <3>4. CASE sessions[s].st \notin Up
      <4>1. ~window.connected /\ ~window.paused
        BY <3>3, <3>4 DEF Held, Normal, Blind, Attempting, Off, Live, Up
      <4>2. QED
        BY <3>1, <3>4, <4>1 DEF Up
    <3>5. CASE sessions[s].st \in Up
      <4>1. ~Blind(s)
        BY <3>5 DEF Blind, Unheard
      <4>2. ~Has(signals, "connected")
        BY EmptyHas
      <4>3. window.connected /\ (window.paused <=> sessions[s].st = "paused")
        BY <3>3, <3>5, <4>1, <4>2 DEF Held, Normal
      <4>4. QED
        BY <3>1, <3>5, <4>3 DEF Up
    <3>6. QED
      BY <3>4, <3>5
  <2>3. QED
    BY <2>1, <2>2, InStepIs
<1>2. QED
  BY <1>1, Tidy, PTL

(* A session that lives without the manager holding its handle is one that *)
(* the session manager refused to disconnect: the failure is only logged   *)
(* and the handle forgotten (openvpn3.c, disconnect_vpn;                   *)
(* connection_manager.py, OpenVPN3.disconnect).  No other session is left  *)
(* behind, whatever other calls fail, as long as no attempt was abandoned, *)
(* no signal overtaken, no status misread and the backend not changed.     *)
THEOREM NoSessionLeftBehind == Spec => []NoOrphans
<1>1. TidyInv => NoOrphans
  <2> SUFFICES ASSUME InStep, NEW s \in Ids, sessions[s].st \in Live, session # s
               PROVE  Refused(s)
    BY DEF TidyInv, NoOrphans, Refused
  <2>1. CASE Past(s)
    BY <2>1 DEF Past
  <2>2. CASE ~Past(s)
    BY <2>2, TheOne DEF Only, Held, LeftUp
  <2>3. QED
    BY <2>1, <2>2
<1>2. QED
  BY <1>1, Tidy, PTL

=============================================================================
