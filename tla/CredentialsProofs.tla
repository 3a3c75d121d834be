------------------------- MODULE CredentialsProofs -------------------------
(***************************************************************************)
(* Proofs about the user name and the password, for any users, passwords,  *)
(* settings windows and requests to the keyring in flight: whose password  *)
(* is stored, that the one typed last is, and that a reset forgets it.     *)
(*                                                                         *)
(* The requests are served in any order, so the invariants are about the   *)
(* set of those in flight.  While the user overtakes nothing, an act of his*)
(* finds no request in flight and no write left to a closed window, and the*)
(* invariants say what may have come up since the act.                     *)
(***************************************************************************)
EXTENDS Credentials, SequenceTheorems, TLAPS

ReqsOf(q) == {q[i] : i \in DOMAIN q}
Reqs == ReqsOf(requests)
Whole == [user : Users, pwd : Pwds]

(* Types, and what a request and a timer carry.                            *)
Carried ==
    /\ \A w \in Windows : pending[w] \in Whole \cup {Nothing}
    /\ \A r \in Reqs : /\ r.op = "store" => r.pwd \in Pwds
                       /\ r.op = "clear" => r.pwd = NoPwd
                       /\ r.win <= opened
    /\ \A w \in Windows : w > opened => shown[w] = NoPwd /\ pending[w] = Nothing
    /\ promise \in Whole \cup {Nothing}
    /\ promise # Nothing => Owner[promise.pwd] = promise.user

TypeInv == TypeOK /\ Carried

(* Whose passwords they are.                                               *)
OwnedReq(r) ==
    /\ r.op = "store" => Owner[r.pwd] = r.user
    /\ r.op \in LookupOps => r.user = user /\ (cur # 0 => r.win = cur)
    /\ r.op = "answer" /\ r.pwd # NoPwd => Owner[r.pwd] = r.user
    /\ r.op = "raised" /\ session # NoPwd => Owner[session] = r.user

Owned ==
    /\ \A u \in Users : keyring[u] # NoPwd => Owner[keyring[u]] = u
    /\ \A w \in Windows : pending[w] # Nothing => Owner[pending[w].pwd] = pending[w].user
    /\ \A r \in Reqs : OwnedReq(r)

OwnInv == mishaps \cap {"staleLookup", "borrowed"} = {} => Owned

(* The password typed last is stored, or will be, and nothing else will be *)
(* stored for its user.                                                    *)
KeptReq(r) ==
    r.user = promise.user =>
        /\ r.op # "clear"
        /\ r.op \in {"store", "answer"} => r.pwd = promise.pwd

Kept ==
    /\ \/ keyring[promise.user] = promise.pwd
       \/ \E r \in Reqs : r.op = "store" /\ r.user = promise.user
       \/ \E w \in Windows : pending[w] = promise
    /\ \A w \in Windows : pending[w].user = promise.user => pending[w] = promise
    /\ \A r \in Reqs : KeptReq(r)
    /\ (\E r \in Reqs : r.op \in LookupOps) => keyring[promise.user] = promise.pwd
    /\ session # NoPwd /\ Owner[session] = promise.user => session = promise.pwd
    /\ cur # 0 /\ shown[cur] # NoPwd => session = shown[cur]

KeptInv ==
    mishaps \cap {"overtaken", "staleLookup", "store", "borrowed"} = {} /\ promise # Nothing
        => Kept

(* The password of a user it was reset for is gone, or is being cleared.   *)
ForgetsReq(u, r) ==
    r.user = u =>
        /\ r.op # "store"
        /\ r.op = "answer" => r.pwd = NoPwd
        /\ r.op \in LookupOps => keyring[u] = NoPwd

Forgets(u) ==
    /\ keyring[u] = NoPwd \/ \E r \in Reqs : r.op = "clear" /\ r.user = u
    /\ \A w \in Windows : pending[w].user # u
    /\ \A r \in Reqs : ForgetsReq(u, r)
    /\ session # NoPwd => Owner[session] # u

ForgetInv == mishaps \subseteq {"store", "lookup", "halted"} => \A u \in forgotten : Forgets(u)
-----------------------------------------------------------------------------
(* Sets of requests.                                                       *)

LEMMA ReqsEmpty ==
    ASSUME NEW q \in Seq(Request)
    PROVE  q = <<>> <=> ReqsOf(q) = {}
<1>1. q = <<>> => DOMAIN q = {}
  OBVIOUS
<1>2. q # <<>> => 1 \in DOMAIN q
  BY Len(q) \in Nat, DOMAIN q = 1..Len(q)
<1>3. QED
  BY <1>1, <1>2 DEF ReqsOf

LEMMA AppendReqs ==
    ASSUME NEW q \in Seq(Request), NEW g \in Request
    PROVE  Append(q, g) \in Seq(Request) /\ ReqsOf(Append(q, g)) = ReqsOf(q) \cup {g}
<1> DEFINE r == Append(q, g)
<1>1. /\ r \in Seq(Request) /\ Len(q) \in Nat /\ DOMAIN q = 1..Len(q)
      /\ DOMAIN r = 1..(Len(q) + 1)
      /\ \A i \in 1..Len(q) : r[i] = q[i]
      /\ r[Len(q) + 1] = g
  BY AppendProperties
<1>2. DOMAIN r = DOMAIN q \cup {Len(q) + 1} /\ Len(q) + 1 \notin DOMAIN q
  BY <1>1
<1> HIDE DEF r
<1>3. QED
  BY <1>1, <1>2 DEF ReqsOf, r

LEMMA RemoveReqs ==
    ASSUME NEW q \in Seq(Request), NEW i \in DOMAIN q
    PROVE  /\ RemoveAt(q, i) \in Seq(Request)
           /\ ReqsOf(RemoveAt(q, i)) \subseteq ReqsOf(q)
           /\ ReqsOf(q) \subseteq ReqsOf(RemoveAt(q, i)) \cup {q[i]}
<1> DEFINE a == SubSeq(q, 1, i - 1)
           b == SubSeq(q, i + 1, Len(q))
           n == Len(q)
           t == a \o b
<1>1. n \in Nat /\ i \in 1..n /\ DOMAIN q = 1..n /\ \A j \in 1..n : q[j] \in Request
  OBVIOUS
<1>2. /\ a \in Seq(Request) /\ Len(a) = i - 1
      /\ \A j \in 1..(i - 1) : a[j] = q[j]
  <2>1. 1 \in Int /\ i - 1 \in Int /\ \A j \in 1..(i - 1) : q[j] \in Request
    BY <1>1
  <2>2. /\ a \in Seq(Request) /\ Len(a) = IF 1 <= i - 1 THEN i - 1 - 1 + 1 ELSE 0
        /\ \A j \in 1..(i - 1 - 1 + 1) : a[j] = q[1 + j - 1]
    BY <2>1, SubSeqProperties
  <2>3. QED
    BY <1>1, <2>2
<1>3. /\ b \in Seq(Request) /\ Len(b) = n - i
      /\ \A j \in 1..(n - i) : b[j] = q[i + j]
  <2>1. i + 1 \in Int /\ n \in Int /\ \A j \in (i + 1)..n : q[j] \in Request
    BY <1>1
  <2>2. /\ b \in Seq(Request) /\ Len(b) = IF i + 1 <= n THEN n - (i + 1) + 1 ELSE 0
        /\ \A j \in 1..(n - (i + 1) + 1) : b[j] = q[i + 1 + j - 1]
    BY <2>1, SubSeqProperties
  <2>3. n - (i + 1) + 1 = n - i /\ (IF i + 1 <= n THEN n - (i + 1) + 1 ELSE 0) = n - i
    BY <1>1
  <2>4. \A j \in 1..(n - i) : i + 1 + j - 1 = i + j
    BY <1>1
  <2> HIDE DEF b, n
  <2>5. QED
    BY <2>2, <2>3, <2>4
<1>4. /\ t \in Seq(Request) /\ Len(t) = Len(a) + Len(b)
      /\ \A j \in 1..(Len(a) + Len(b)) : t[j] = IF j <= Len(a) THEN a[j] ELSE b[j - Len(a)]
  BY <1>2, <1>3, ConcatProperties
<1> HIDE DEF a, b, n, t
<1>5. /\ DOMAIN t = 1..(n - 1)
      /\ \A j \in 1..(n - 1) : t[j] = IF j <= i - 1 THEN q[j] ELSE q[j + 1]
  <2>1. Len(t) = n - 1 /\ Len(a) + Len(b) = n - 1
    BY <1>1, <1>2, <1>3, <1>4
  <2>2. ASSUME NEW j \in 1..(n - 1), j <= i - 1 PROVE t[j] = q[j]
    BY <1>1, <1>2, <1>4, <2>1, <2>2
  <2>3. ASSUME NEW j \in 1..(n - 1), ~(j <= i - 1) PROVE t[j] = q[j + 1]
    <3>1. j - (i - 1) \in 1..(n - i) /\ i + (j - (i - 1)) = j + 1
      BY <1>1, <2>3
    <3>2. t[j] = b[j - (i - 1)]
      BY <1>2, <1>4, <2>1, <2>3
    <3>3. QED
      BY <1>3, <3>1, <3>2
  <2>4. QED
    BY <1>4, <2>1, <2>2, <2>3
<1>6. ReqsOf(t) \subseteq ReqsOf(q)
  <2>1. \A j \in 1..(n - 1) : j \in 1..n /\ j + 1 \in 1..n
    BY <1>1
  <2>2. QED
    BY <1>1, <1>5, <2>1 DEF ReqsOf
<1>7. ReqsOf(q) \subseteq ReqsOf(t) \cup {q[i]}
  <2>1. ASSUME NEW k \in 1..n, k # i PROVE \E j \in 1..(n - 1) : t[j] = q[k]
    <3>1. CASE k < i
      <4>1. k \in 1..(n - 1) /\ k <= i - 1
        BY <1>1, <3>1
      <4>2. QED
        BY <1>5, <4>1
    <3>2. CASE k > i
      <4>1. k - 1 \in 1..(n - 1) /\ ~(k - 1 <= i - 1) /\ k - 1 + 1 = k
        BY <1>1, <3>2
      <4>2. QED
        BY <1>5, <4>1
    <3>3. QED
      BY <1>1, <2>1, <3>1, <3>2
  <2>2. ASSUME NEW x \in ReqsOf(q), x # q[i] PROVE x \in ReqsOf(t)
    <3>1. PICK k \in 1..n : x = q[k]
      BY <1>1 DEF ReqsOf
    <3>2. k # i
      BY <2>2, <3>1
    <3>3. PICK j \in 1..(n - 1) : t[j] = q[k]
      BY <2>1, <3>2
    <3>4. QED
      BY <1>5, <3>1, <3>3 DEF ReqsOf
  <2>3. QED
    BY <2>2
<1>8. RemoveAt(q, i) = t
  BY DEF RemoveAt, t, a, b, n
<1>9. QED
  BY <1>4, <1>6, <1>7, <1>8

LEMMA UpdateReqs ==
    ASSUME NEW q \in Seq(Request), NEW i \in DOMAIN q, NEW g \in Request,
           NEW t, t = [q EXCEPT ![i] = g]
    PROVE  /\ t \in Seq(Request)
           /\ ReqsOf(t) \subseteq ReqsOf(q) \cup {g}
           /\ ReqsOf(q) \subseteq ReqsOf(t) \cup {q[i]}
<1>1. t \in Seq(Request) /\ DOMAIN t = DOMAIN q
  OBVIOUS
<1>2. t[i] = g /\ \A j \in DOMAIN q : j # i => t[j] = q[j]
  OBVIOUS
<1>3. QED
  BY <1>1, <1>2 DEF ReqsOf

-----------------------------------------------------------------------------
(* What the helpers do.                                                    *)

LEMMA TypeFacts ==
    ASSUME TypeInv
    PROVE  /\ user \in AnyUser /\ session \in AnyPwd /\ keyring \in [Users -> AnyPwd]
           /\ cur \in 0..MaxWindows /\ opened \in cur..MaxWindows
           /\ cur \in Nat /\ opened \in Nat /\ cur <= opened /\ (cur # 0 => cur \in Windows)
           /\ shown \in [Windows -> AnyPwd] /\ pending \in [Windows -> Credential]
           /\ requests \in Seq(Request) /\ \A r \in Reqs : r \in Request
           /\ NoUser \notin Users /\ NoPwd \notin Pwds
           /\ Owner \in [Pwds -> Users] /\ MaxWindows \in Nat
<1>1. /\ user \in AnyUser /\ session \in AnyPwd /\ keyring \in [Users -> AnyPwd]
      /\ cur \in 0..MaxWindows /\ opened \in cur..MaxWindows
      /\ shown \in [Windows -> AnyPwd] /\ pending \in [Windows -> Credential]
      /\ requests \in Seq(Request)
  BY DEF TypeInv, TypeOK
<1>2. NoUser \notin Users /\ NoPwd \notin Pwds /\ Owner \in [Pwds -> Users] /\ MaxWindows \in Nat
  BY CredentialsAssumption
<1>3. cur \in Nat /\ opened \in Nat /\ cur <= opened /\ (cur # 0 => cur \in Windows)
  BY <1>1, <1>2 DEF Windows
<1>4. \A r \in Reqs : r \in Request
  BY <1>1 DEF Reqs, ReqsOf
<1>5. QED
  BY <1>1, <1>2, <1>3, <1>4

LEMMA ProcessEffect ==
    ASSUME TypeInv, NEW w \in Windows, NEW p \in AnyPwd, ProcessPassword(w, p)
    PROVE  /\ shown' \in [Windows -> AnyPwd] /\ pending' \in [Windows -> Credential]
           /\ session' \in AnyPwd /\ shown'[w] = p
           /\ \A v \in Windows : v # w => shown'[v] = shown[v] /\ pending'[v] = pending[v]
           /\ p # NoPwd /\ user # NoUser =>
                 /\ session' = p /\ pending'[w] = [user |-> user, pwd |-> p]
                 /\ pending'[w] \in Whole
           /\ p = NoPwd \/ user = NoUser => session' = NoPwd /\ pending'[w] = Nothing
<1>1. /\ shown \in [Windows -> AnyPwd] /\ pending \in [Windows -> Credential]
      /\ user \in AnyUser
  BY TypeFacts
<1>2. [user |-> user, pwd |-> p] \in Credential /\ Nothing \in Credential
  BY <1>1 DEF Credential, Nothing, AnyUser, AnyPwd
<1>3. p # NoPwd /\ user # NoUser => [user |-> user, pwd |-> p] \in Whole
  BY <1>1 DEF Whole, AnyUser, AnyPwd
<1>4. NoPwd \in AnyPwd
  BY DEF AnyPwd
<1>5. shown' = [shown EXCEPT ![w] = p]
  BY DEF ProcessPassword
<1>6. CASE p # NoPwd /\ user # NoUser
  <2>1. session' = p /\ pending' = [pending EXCEPT ![w] = [user |-> user, pwd |-> p]]
    BY <1>6 DEF ProcessPassword
  <2>2. QED
    BY <1>1, <1>2, <1>3, <1>5, <1>6, <2>1
<1>7. CASE ~(p # NoPwd /\ user # NoUser)
  <2>1. session' = NoPwd /\ pending' = [pending EXCEPT ![w] = Nothing]
    BY <1>7 DEF ProcessPassword
  <2>2. QED
    BY <1>1, <1>2, <1>4, <1>5, <1>7, <2>1
<1>8. QED
  BY <1>6, <1>7

(* What the user did not overtake.                                         *)
LEMMA OvertakeEffect ==
    ASSUME TypeInv, NEW wrong \in SUBSET {"halted"}, Overtake(wrong)
    PROVE  /\ mishaps \subseteq mishaps'
           /\ mishaps' \subseteq mishaps \cup {"staleLookup", "overtaken", "halted"}
           /\ "staleLookup" \notin mishaps' => \A r \in Reqs : r.op \notin LookupOps
           /\ "overtaken" \notin mishaps' =>
                 /\ \A r \in Reqs : r.op \notin {"store", "clear"}
                 /\ \A w \in Windows : w # cur => pending[w] = Nothing
           /\ mishaps' \cap {"staleLookup", "overtaken"} = {} => Reqs = {} /\ requests = <<>>
<1>1. requests \in Seq(Request) /\ \A r \in Reqs : r \in Request
  BY TypeFacts
<1>2. mishaps' = mishaps \cup (wrong \cup (IF InFlight(LookupOps) THEN {"staleLookup"} ELSE {})
                                     \cup (IF Unwritten THEN {"overtaken"} ELSE {}))
  BY DEF Overtake, Mishap
<1>3. "staleLookup" \notin mishaps' => \A r \in Reqs : r.op \notin LookupOps
  BY <1>2 DEF InFlight, Reqs, ReqsOf
<1>4. "overtaken" \notin mishaps' =>
         /\ \A r \in Reqs : r.op \notin {"store", "clear"}
         /\ \A w \in Windows : w # cur => pending[w] = Nothing
  BY <1>2 DEF Unwritten, InFlight, Reqs, ReqsOf
<1>5. \A r \in Reqs : r.op \in LookupOps \cup {"store", "clear"}
  BY <1>1 DEF Request, LookupOps
<1>6. mishaps' \cap {"staleLookup", "overtaken"} = {} => Reqs = {}
  BY <1>3, <1>4, <1>5
<1>7. QED
  BY <1>1, <1>2, <1>3, <1>4, <1>6, ReqsEmpty DEF Reqs

-----------------------------------------------------------------------------
(* What the actions do.                                                    *)

LEMMA OpenEffect ==
    ASSUME TypeInv, OpenSettings
    PROVE  /\ cur = 0 /\ cur' = opened + 1 /\ opened' = opened + 1 /\ cur' \in Windows
           /\ Overtake({}) /\ requests' \in Seq(Request)
           /\ \/ Reqs' = Reqs
              \/ \E g \in Request : /\ g.op = "lookup" /\ g.user = user /\ g.win = cur'
                                    /\ Reqs' = Reqs \cup {g}
           /\ UNCHANGED <<user, session, keyring, shown, pending, snapshot, steps, promise, forgotten>>
<1>1. requests \in Seq(Request) /\ user \in AnyUser /\ opened \in Nat /\ MaxWindows \in Nat
  BY TypeFacts
<1>2. /\ cur = 0 /\ cur' = opened + 1 /\ opened' = opened + 1 /\ opened < MaxWindows /\ Overtake({})
      /\ UNCHANGED <<user, session, keyring, shown, pending, snapshot, steps, promise, forgotten>>
  BY DEF OpenSettings
<1>3. cur' \in Windows
  BY <1>1, <1>2 DEF Windows
<1>4. CASE user = NoUser
  <2>1. requests' = requests
    BY <1>4 DEF OpenSettings
  <2>2. QED
    BY <1>1, <1>2, <1>3, <2>1 DEF Reqs
<1>5. CASE user # NoUser
  <2> DEFINE g == [op |-> "lookup", user |-> user, pwd |-> NoPwd, win |-> opened + 1]
  <2>1. requests' = Append(requests, g)
    BY <1>5 DEF OpenSettings
  <2>2. g \in Request /\ g.op = "lookup" /\ g.user = user /\ g.win = cur'
    BY <1>1, <1>2, <1>3, <1>5 DEF Request, AnyUser, AnyPwd
  <2> HIDE DEF g
  <2>3. requests' \in Seq(Request) /\ Reqs' = Reqs \cup {g}
    BY <1>1, <2>1, <2>2, AppendReqs DEF Reqs
  <2>4. QED
    BY <1>2, <1>3, <2>2, <2>3
<1>6. QED
  BY <1>4, <1>5

LEMMA FlushEffect ==
    ASSUME TypeInv, NEW w \in Windows, FlushPassword(w)
    PROVE  /\ pending[w] \in Whole /\ pending' = [pending EXCEPT ![w] = Nothing]
           /\ requests' \in Seq(Request)
           /\ \E g \in Request : /\ g.op = "store" /\ g.user = pending[w].user
                                 /\ g.pwd = pending[w].pwd /\ g.win = w
                                 /\ Reqs' = Reqs \cup {g}
           /\ UNCHANGED <<user, session, keyring, cur, shown, snapshot, opened, steps, observers>>
<1>1. requests \in Seq(Request) /\ pending[w] \in Whole
  BY TypeFacts DEF TypeInv, Carried, FlushPassword
<1> DEFINE g == [op |-> "store", user |-> pending[w].user, pwd |-> pending[w].pwd, win |-> w]
<1>2. /\ g \in Request /\ g.op = "store" /\ g.user = pending[w].user
      /\ g.pwd = pending[w].pwd /\ g.win = w
  BY <1>1 DEF Request, Whole, AnyPwd
<1>3. requests' = Append(requests, g)
  BY DEF FlushPassword
<1> HIDE DEF g
<1>4. requests' \in Seq(Request) /\ Reqs' = Reqs \cup {g}
  BY <1>1, <1>2, <1>3, AppendReqs DEF Reqs
<1>5. QED
  BY <1>1, <1>2, <1>4 DEF FlushPassword

(* A request is served: a lookup becomes its answer, another is carried out*)
LEMMA ServeEffect ==
    ASSUME TypeInv, NEW i \in DOMAIN requests, Serve(i)
    PROVE  \E r \in Reqs :
             /\ requests' \in Seq(Request) /\ Reqs \subseteq Reqs' \cup {r}
             /\ \/ /\ r.op = "lookup" /\ UNCHANGED keyring
                   /\ \E g \in Request : /\ g.op = "answer" /\ g.user = r.user /\ g.win = r.win
                                         /\ g.pwd = keyring[r.user] /\ g \in Reqs'
                                         /\ Reqs' \subseteq Reqs \cup {g}
                \/ /\ r.op \in {"store", "clear"} /\ Reqs' \subseteq Reqs
                   /\ keyring' = [keyring EXCEPT ![r.user] = r.pwd]
             /\ UNCHANGED <<user, session, cur, shown, pending, snapshot, opened, steps, observers>>
<1> DEFINE r == requests[i]
<1>1. /\ requests \in Seq(Request) /\ r \in Request /\ r \in Reqs
      /\ keyring \in [Users -> AnyPwd]
  BY TypeFacts DEF Reqs, ReqsOf
<1>2. UNCHANGED <<user, session, cur, shown, pending, snapshot, opened, steps, observers>>
  BY DEF Serve
<1>3. CASE r.op = "lookup"
  <2> DEFINE g == [op |-> "answer", user |-> r.user, pwd |-> keyring[r.user], win |-> r.win]
  <2>1. UNCHANGED keyring /\ requests' = [requests EXCEPT ![i] = g]
    BY <1>3 DEF Serve
  <2>2. /\ g \in Request /\ g.op = "answer" /\ g.user = r.user /\ g.win = r.win
        /\ g.pwd = keyring[r.user]
    BY <1>1 DEF Request
  <2> HIDE DEF g, r
  <2>3. requests' \in Seq(Request) /\ Reqs' \subseteq Reqs \cup {g} /\ Reqs \subseteq Reqs' \cup {r}
    BY <1>1, <2>1, <2>2, UpdateReqs DEF Reqs, r
  <2>4. g \in Reqs'
    BY <1>1, <2>1 DEF Reqs, ReqsOf
  <2>5. QED
    BY <1>1, <1>2, <1>3, <2>1, <2>2, <2>3, <2>4
<1>4. CASE r.op # "lookup"
  <2>1. r.op \in {"store", "clear"} /\ keyring' = [keyring EXCEPT ![r.user] = r.pwd]
        /\ requests' = RemoveAt(requests, i)
    BY <1>4 DEF Serve
  <2>2. requests' \in Seq(Request) /\ Reqs' \subseteq Reqs /\ Reqs \subseteq Reqs' \cup {r}
    BY <1>1, <2>1, RemoveReqs DEF Reqs
  <2> HIDE DEF r
  <2>3. QED
    BY <1>1, <1>2, <2>1, <2>2
<1>5. QED
  BY <1>3, <1>4

LEMMA FailEffect ==
    ASSUME TypeInv, NEW i \in DOMAIN requests, Fail(i)
    PROVE  \E r \in Reqs :
             /\ requests' \in Seq(Request) /\ Reqs \subseteq Reqs' \cup {r}
             /\ mishaps \subseteq mishaps'
             /\ \/ /\ r.op = "lookup"
                   /\ \/ mishaps' = mishaps \cup {"borrowed"}
                      \/ /\ mishaps' = mishaps \cup {"lookup"}
                         /\ session # NoPwd => Owner[session] = r.user
                   /\ \E g \in Request : /\ g.op = "raised" /\ g.user = r.user /\ g.win = r.win
                                         /\ Reqs' \subseteq Reqs \cup {g}
                \/ /\ r.op \in {"store", "clear"} /\ Reqs' \subseteq Reqs
                   /\ mishaps' = mishaps \cup {r.op}
             /\ UNCHANGED <<user, session, keyring, cur, shown, pending, snapshot, opened, steps,
                            promise, forgotten>>
<1> DEFINE r == requests[i]
<1>1. requests \in Seq(Request) /\ r \in Request /\ r \in Reqs
  BY TypeFacts DEF Reqs, ReqsOf
<1>2. UNCHANGED <<user, session, keyring, cur, shown, pending, snapshot, opened, steps,
                  promise, forgotten>>
  BY DEF Fail
<1>3. CASE r.op = "lookup"
  <2> DEFINE g == [op |-> "raised", user |-> r.user, pwd |-> r.pwd, win |-> r.win]
  <2>1. requests' = [requests EXCEPT ![i] = g]
    <3>1. requests' = [requests EXCEPT ![i].op = "raised"]
      BY <1>3 DEF Fail
    <3>2. [requests EXCEPT ![i].op = "raised"] = [requests EXCEPT ![i] = [r EXCEPT !.op = "raised"]]
      OBVIOUS
    <3>3. [r EXCEPT !.op = "raised"] = g
      BY <1>1 DEF Request
    <3>4. QED
      BY <3>1, <3>2, <3>3
  <2>2. g \in Request /\ g.op = "raised" /\ g.user = r.user /\ g.win = r.win
    BY <1>1 DEF Request
  <2>3. \/ mishaps' = mishaps \cup {"borrowed"}
        \/ mishaps' = mishaps \cup {"lookup"} /\ (session # NoPwd => Owner[session] = r.user)
    BY <1>3 DEF Fail, Mishap
  <2> HIDE DEF g, r
  <2>4. requests' \in Seq(Request) /\ Reqs' \subseteq Reqs \cup {g} /\ Reqs \subseteq Reqs' \cup {r}
    BY <1>1, <2>1, <2>2, UpdateReqs DEF Reqs, r
  <2>5. mishaps \subseteq mishaps'
    BY <2>3
  <2>6. QED
    BY <1>1, <1>2, <1>3, <2>2, <2>3, <2>4, <2>5
<1>4. CASE r.op # "lookup"
  <2>1. requests' = RemoveAt(requests, i) /\ mishaps' = mishaps \cup {r.op} /\ r.op \in Faults
    BY <1>4 DEF Fail, Mishap
  <2>2. r.op \in {"store", "clear"}
    BY <1>1, <1>4, <2>1, CredentialsAssumption DEF Request
  <2>3. requests' \in Seq(Request) /\ Reqs' \subseteq Reqs /\ Reqs \subseteq Reqs' \cup {r}
    BY <1>1, <2>1, RemoveReqs DEF Reqs
  <2> HIDE DEF r
  <2>4. mishaps \subseteq mishaps'
    BY <2>1
  <2>5. QED
    BY <1>1, <1>2, <2>1, <2>2, <2>3, <2>4
<1>5. QED
  BY <1>3, <1>4

Found(r) == IF r.op = "raised" THEN session ELSE r.pwd

LEMMA DoneEffect ==
    ASSUME TypeInv, NEW i \in DOMAIN requests, LookupDone(i)
    PROVE  \E r \in Reqs :
             /\ r.op \in {"answer", "raised"} /\ r.win \in Windows
             /\ requests' \in Seq(Request) /\ Reqs' \subseteq Reqs /\ Reqs \subseteq Reqs' \cup {r}
             /\ \/ UNCHANGED <<shown, session, pending>>
                \/ Found(r) \in Pwds /\ ProcessPassword(r.win, Found(r))
             /\ UNCHANGED <<user, keyring, cur, snapshot, opened, steps, observers>>
<1> DEFINE r == requests[i]
<1>1. /\ requests \in Seq(Request) /\ r \in Request /\ r \in Reqs /\ session \in AnyPwd
  BY TypeFacts DEF Reqs, ReqsOf
<1>2. r.win \in Windows /\ r.pwd \in AnyPwd
  BY <1>1 DEF Request
<1>3. requests' = RemoveAt(requests, i) /\ r.op \in {"answer", "raised"}
  BY DEF LookupDone
<1>4. requests' \in Seq(Request) /\ Reqs' \subseteq Reqs /\ Reqs \subseteq Reqs' \cup {r}
  BY <1>1, <1>3, RemoveReqs DEF Reqs
<1>5. \/ UNCHANGED <<shown, session, pending>>
      \/ Found(r) # NoPwd /\ ProcessPassword(r.win, Found(r))
  BY DEF LookupDone, Found
<1>6. Found(r) # NoPwd => Found(r) \in Pwds
  BY <1>1, <1>2 DEF Found, AnyPwd
<1>7. UNCHANGED <<user, keyring, cur, snapshot, opened, steps, observers>>
  BY DEF LookupDone
<1> HIDE DEF r
<1>8. QED
  BY <1>1, <1>2, <1>3, <1>4, <1>5, <1>6, <1>7

(* A reset or a restore.                                                   *)
LEMMA ForgetEffect ==
    ASSUME TypeInv, ApplyReset \/ ApplyRestore
    PROVE  /\ cur # 0 /\ cur \in Windows /\ Act({}) /\ Overtake({})
           /\ requests' \in Seq(Request)
           /\ user = NoUser => Reqs' = Reqs
           /\ user # NoUser => \E g \in Request :
                 /\ g.op = "clear" /\ g.user = user /\ g.pwd = NoPwd /\ g.win = cur
                 /\ Reqs' = Reqs \cup {g}
           /\ user' \in AnyUser /\ session' = NoPwd /\ promise' = Nothing
           /\ shown' = [shown EXCEPT ![cur] = NoPwd] /\ pending' = [pending EXCEPT ![cur] = Nothing]
           /\ forgotten' = {user} \cap Users /\ snapshot' = [there |-> TRUE, user |-> user]
           /\ UNCHANGED <<keyring, cur, opened>>
<1>1. requests \in Seq(Request) /\ user \in AnyUser
  BY TypeFacts
<1>2. cur # 0 /\ cur \in Windows /\ Act({}) /\ Overtake({}) /\ ForgetPassword /\ user' \in AnyUser
  BY TypeFacts DEF ApplyReset, ApplyRestore, Act, AnyUser, TypeInv, TypeOK
<1>3. CASE user = NoUser
  <2>1. requests' = requests \o <<>>
    BY <1>2, <1>3 DEF ForgetPassword, ClearRequest
  <2>2. requests' = requests
    BY <1>1, <2>1, ConcatEmptySeq
  <2>3. QED
    BY <1>1, <1>2, <1>3, <2>2 DEF ForgetPassword, Reqs
<1>4. CASE user # NoUser
  <2> DEFINE g == [op |-> "clear", user |-> user, pwd |-> NoPwd, win |-> cur]
  <2>1. g \in Request /\ g.op = "clear" /\ g.user = user /\ g.pwd = NoPwd /\ g.win = cur
    BY <1>1, <1>2, <1>4 DEF Request, AnyUser, AnyPwd
  <2>2. requests' = requests \o <<g>>
    BY <1>2, <1>4 DEF ForgetPassword, ClearRequest
  <2> HIDE DEF g
  <2>3. requests' = Append(requests, g)
    BY <1>1, <2>1, <2>2, AppendIsConcat
  <2>4. requests' \in Seq(Request) /\ Reqs' = Reqs \cup {g}
    BY <1>1, <2>1, <2>3, AppendReqs DEF Reqs
  <2>5. QED
    BY <1>2, <1>4, <2>1, <2>4 DEF ForgetPassword
<1>5. QED
  BY <1>3, <1>4

(* A reset or a restore that raises: what was typed is revoked as soon as  *)
(* the clearing is on its way.                                             *)
LEMMA HaltEffect ==
    ASSUME TypeInv, ApplyResetHalts \/ ApplyRestoreHalts
    PROVE  /\ cur \in Windows /\ Act({"halted"}) /\ Overtake({"halted"})
           /\ requests' \in Seq(Request)
           /\ \/ Reqs' = Reqs
              \/ \E g \in Request :
                    /\ g.op = "clear" /\ g.user = user /\ g.pwd = NoPwd /\ g.win = cur
                    /\ Reqs' = Reqs \cup {g}
           /\ user' \in AnyUser /\ session' \in {session, NoPwd}
           /\ promise' = Nothing \/ UNCHANGED <<promise, session, requests>>
           /\ snapshot' = [there |-> TRUE, user |-> user]
           /\ UNCHANGED <<keyring, cur, shown, pending, opened, forgotten>>
<1>1. requests \in Seq(Request) /\ user \in AnyUser
  BY TypeFacts
<1>2. /\ cur \in Windows /\ user' \in AnyUser /\ session' \in {session, NoPwd}
      /\ \E cleared \in BOOLEAN : Halts(cleared) /\ (cleared \/ session' = session)
  BY <1>1, TypeFacts DEF ApplyResetHalts, ApplyRestoreHalts, AnyUser
<1>3. PICK cleared \in BOOLEAN : Halts(cleared) /\ (cleared \/ session' = session)
  BY <1>2
<1>4. /\ Act({"halted"}) /\ Overtake({"halted"})
      /\ snapshot' = [there |-> TRUE, user |-> user]
      /\ UNCHANGED <<keyring, cur, shown, pending, opened, forgotten>>
  BY <1>3 DEF Halts, Act
<1>5. CASE ~cleared
  <2>1. requests' = requests /\ promise' = promise /\ session' = session
    BY <1>3, <1>5 DEF Halts
  <2>2. QED
    BY <1>1, <1>2, <1>4, <2>1 DEF Reqs
<1>6. CASE cleared /\ user = NoUser
  <2>1. requests' = requests \o <<>> /\ promise' = Nothing
    BY <1>3, <1>6 DEF Halts, ClearRequest
  <2>2. requests' = requests
    BY <1>1, <2>1, ConcatEmptySeq
  <2>3. QED
    BY <1>1, <1>2, <1>4, <2>1, <2>2 DEF Reqs
<1>7. CASE cleared /\ user # NoUser
  <2> DEFINE g == [op |-> "clear", user |-> user, pwd |-> NoPwd, win |-> cur]
  <2>1. g \in Request /\ g.op = "clear" /\ g.user = user /\ g.pwd = NoPwd /\ g.win = cur
    BY <1>1, <1>2, <1>7 DEF Request, AnyUser, AnyPwd
  <2>2. requests' = requests \o <<g>> /\ promise' = Nothing
    BY <1>3, <1>7 DEF Halts, ClearRequest
  <2> HIDE DEF g
  <2>3. requests' = Append(requests, g)
    BY <1>1, <2>1, <2>2, AppendIsConcat
  <2>4. requests' \in Seq(Request) /\ Reqs' = Reqs \cup {g}
    BY <1>1, <2>1, <2>3, AppendReqs DEF Reqs
  <2>5. QED
    BY <1>2, <1>4, <2>1, <2>2, <2>4
<1>8. QED
  BY <1>5, <1>6, <1>7

-----------------------------------------------------------------------------
(* Types.                                                                  *)

Counters ==
    /\ steps \in 0..MaxSteps
    /\ mishaps \subseteq {"lookup", "borrowed", "store", "clear", "staleLookup",
                    "overtaken", "halted"}
Values ==
    /\ user \in AnyUser /\ session \in AnyPwd /\ keyring \in [Users -> AnyPwd]
    /\ snapshot \in [there : BOOLEAN, user : AnyUser]
    /\ promise \in Credential /\ forgotten \subseteq Users
Frames ==
    /\ cur \in 0..MaxWindows /\ opened \in cur..MaxWindows
    /\ shown \in [Windows -> AnyPwd] /\ pending \in [Windows -> Credential]

LEMMA TypeIsParts == TypeOK <=> Counters /\ Values /\ Frames /\ requests \in Seq(Request)
BY DEF TypeOK, Counters, Values, Frames

LEMMA ActCounts ==
    ASSUME TypeInv, NEW wrong \in SUBSET {"halted"}, Act(wrong)
    PROVE  Counters'
<1>1. /\ steps \in 0..MaxSteps /\ MaxSteps \in Nat /\ steps < MaxSteps /\ steps' = steps + 1
      /\ Overtake(wrong)
  BY CredentialsAssumption DEF TypeInv, TypeOK, Act
<1>2. steps' \in 0..MaxSteps
  BY <1>1
<1>3. QED
  BY <1>1, <1>2, OvertakeEffect DEF Counters, TypeInv, TypeOK

(* Requests that carry what requests carry.                                *)
Fine(r) ==
    /\ r.op = "store" => r.pwd \in Pwds
    /\ r.op = "clear" => r.pwd = NoPwd
    /\ r.win <= opened

LEMMA InitType == Init => TypeInv
<1> SUFFICES ASSUME Init PROVE TypeInv
  OBVIOUS
<1>1. NoPwd \in AnyPwd /\ NoUser \in AnyUser /\ Nothing \in Credential
  BY DEF AnyPwd, AnyUser, Nothing, Credential
<1>2. keyring \in [Users -> AnyPwd]
  BY CredentialsAssumption DEF Init, AnyPwd
<1>3. TypeOK
  <2>1. 0 \in 0..MaxSteps /\ 0 \in 0..MaxWindows
    BY CredentialsAssumption
  <2>2. Counters /\ Values /\ Frames
    BY <1>1, <1>2, <2>1 DEF Init, Counters, Values, Frames
  <2>3. requests \in Seq(Request)
    BY DEF Init
  <2>4. QED
    BY <2>2, <2>3, TypeIsParts
<1>4. Reqs = {}
  BY <1>3, ReqsEmpty DEF Init, Reqs, TypeOK
<1>5. QED
  BY <1>3, <1>4 DEF Init, TypeInv, Carried

LEMMA NextType == TypeInv /\ [Next]_vars => TypeInv'
<1> SUFFICES ASSUME TypeInv, [Next]_vars PROVE TypeInv'
  OBVIOUS
<1>1. /\ Counters /\ Values /\ Frames /\ requests \in Seq(Request) /\ Carried
      /\ \A r \in Reqs : r \in Request /\ Fine(r)
      /\ NoPwd \in AnyPwd /\ NoUser \in AnyUser /\ Nothing \in Credential /\ NoPwd \notin Pwds
      /\ cur \in Nat /\ opened \in Nat /\ cur <= opened /\ opened <= MaxWindows /\ MaxWindows \in Nat
      /\ NoUser \notin Users
  BY TypeIsParts, TypeFacts DEF TypeInv, Carried, Fine, AnyPwd, AnyUser, Nothing, Credential
<1>2. ASSUME Counters', Values', Frames', requests' \in Seq(Request), Carried'
      PROVE  TypeInv'
  <2>1. TypeOK'
    BY <1>2 DEF TypeOK, Counters, Values, Frames
  <2>2. QED
    BY <1>2, <2>1 DEF TypeInv
<1>3. CASE OpenSettings
  <2>1. /\ cur' = opened + 1 /\ opened' = opened + 1 /\ cur' \in Windows /\ Overtake({})
        /\ requests' \in Seq(Request)
        /\ \A r \in Reqs' : r \in Reqs \/ (r.op = "lookup" /\ r.win = cur')
        /\ UNCHANGED <<user, session, keyring, shown, pending, snapshot, steps, promise, forgotten>>
    BY <1>3, OpenEffect
  <2>2. Counters'
    BY <1>1, <2>1, OvertakeEffect DEF Counters
  <2>3. Values'
    BY <1>1, <2>1 DEF Values
  <2>4. cur' \in 0..MaxWindows /\ opened' \in cur'..MaxWindows
    BY <1>1, <2>1 DEF Windows
  <2>5. Frames'
    BY <1>1, <2>1, <2>4 DEF Frames
  <2>6. \A w \in Windows : w > opened' => shown'[w] = NoPwd /\ pending'[w] = Nothing
    BY <1>1, <2>1 DEF Carried, Windows
  <2>7. \A r \in Reqs' : Fine(r)'
    BY <1>1, <2>1 DEF Fine, Request, Windows
  <2>8. Carried'
    BY <1>1, <2>1, <2>6, <2>7 DEF Carried, Fine
  <2>9. QED
    BY <1>2, <2>1, <2>2, <2>3, <2>5, <2>8
<1>4. CASE CloseSettings
  <2>1. cur' = 0 /\ UNCHANGED <<user, session, keyring, shown, pending, requests, snapshot,
                                opened, steps, observers>>
    BY <1>4 DEF CloseSettings
  <2>2. Counters' /\ Values' /\ requests' \in Seq(Request)
    BY <1>1, <2>1 DEF Counters, Values, observers
  <2>3. Frames'
    BY <1>1, <2>1 DEF Frames
  <2>4. Carried'
    BY <1>1, <2>1 DEF Carried, Reqs, observers
  <2>5. QED
    BY <1>2, <2>2, <2>3, <2>4
<1>5. ASSUME NEW u \in AnyUser, ProcessUsername(u) PROVE TypeInv'
  <2>1. user' = u /\ Act({}) /\ UNCHANGED <<session, keyring, cur, shown, pending, requests, snapshot,
                                        opened, promise, forgotten>>
    BY <1>5 DEF ProcessUsername
  <2>2. Counters' /\ Values' /\ Frames' /\ requests' \in Seq(Request)
    BY <1>1, <1>5, <2>1, ActCounts DEF Values, Frames
  <2>3. Carried'
    BY <1>1, <2>1 DEF Carried, Reqs
  <2>4. QED
    BY <1>2, <2>2, <2>3
<1>6. ASSUME NEW p \in AnyPwd, TypePassword(p) PROVE TypeInv'
  <2>1. /\ cur # 0 /\ (p # NoPwd => user \in {NoUser, Owner[p]}) /\ Act({}) /\ ProcessPassword(cur, p)
        /\ UNCHANGED <<user, keyring, cur, requests, snapshot, opened>>
    BY <1>6 DEF TypePassword
  <2>2. cur \in Windows
    BY <2>1, TypeFacts
  <2>3. /\ shown' \in [Windows -> AnyPwd] /\ pending' \in [Windows -> Credential]
        /\ session' \in AnyPwd
        /\ \A v \in Windows : v # cur => shown'[v] = shown[v] /\ pending'[v] = pending[v]
        /\ pending'[cur] \in Whole \cup {Nothing}
    BY <2>1, <2>2, ProcessEffect
  <2>4. /\ promise' \in Whole \cup {Nothing}
        /\ promise' # Nothing => Owner[promise'.pwd] = promise'.user
        /\ forgotten' \subseteq Users
    <3>1. CASE user # NoUser /\ p # NoPwd
      <4>1. promise' = [user |-> user, pwd |-> p] /\ forgotten' = forgotten \ {user}
        BY <1>6, <3>1 DEF TypePassword
      <4>2. user \in Users /\ p \in Pwds /\ Owner[p] = user
        BY <1>1, <2>1, <3>1 DEF Values, AnyUser, AnyPwd
      <4>3. QED
        BY <1>1, <4>1, <4>2 DEF Whole, Values
    <3>2. CASE ~(user # NoUser /\ p # NoPwd)
      <4>1. promise' = Nothing /\ forgotten' = forgotten
        BY <1>6, <3>2 DEF TypePassword
      <4>2. QED
        BY <1>1, <4>1 DEF Values
    <3>3. QED
      BY <3>1, <3>2
  <2>5. promise' \in Credential
    BY <1>1, <2>4 DEF Whole, Credential, AnyUser, AnyPwd
  <2>6. Counters' /\ Values' /\ Frames' /\ requests' \in Seq(Request)
    BY <1>1, <2>1, <2>3, <2>4, <2>5, ActCounts DEF Values, Frames
  <2>7. Carried'
    <3>1. \A w \in Windows : w > opened' => w # cur
      BY <1>1, <2>1 DEF Windows
    <3>2. QED
      BY <1>1, <2>1, <2>3, <2>4, <3>1 DEF Carried, Reqs
  <2>8. QED
    BY <1>2, <2>6, <2>7
<1>7. CASE ApplyReset \/ ApplyRestore
  <2>1. /\ cur \in Windows /\ Act({}) /\ requests' \in Seq(Request)
        /\ \A r \in Reqs' : r \in Reqs \/ (r.op = "clear" /\ r.pwd = NoPwd /\ r.win = cur)
        /\ user' \in AnyUser /\ session' = NoPwd /\ promise' = Nothing
        /\ shown' = [shown EXCEPT ![cur] = NoPwd] /\ pending' = [pending EXCEPT ![cur] = Nothing]
        /\ forgotten' = {user} \cap Users /\ snapshot' = [there |-> TRUE, user |-> user]
        /\ UNCHANGED <<keyring, cur, opened>>
    BY <1>7, ForgetEffect
  <2>2. Counters' /\ Values' /\ requests' \in Seq(Request)
    BY <1>1, <2>1, ActCounts DEF Values
  <2>3. Frames'
    BY <1>1, <2>1 DEF Frames
  <2>4. \A r \in Reqs' : Fine(r)'
    BY <1>1, <2>1 DEF Fine
  <2>5. \A w \in Windows : /\ pending'[w] \in Whole \cup {Nothing}
                           /\ w > opened' => shown'[w] = NoPwd /\ pending'[w] = Nothing
    BY <1>1, <2>1 DEF Frames, Carried
  <2>6. Carried'
    BY <2>1, <2>4, <2>5 DEF Carried, Fine
  <2>7. QED
    BY <1>2, <2>2, <2>3, <2>6
<1>15. CASE ApplyResetHalts \/ ApplyRestoreHalts
  <2>1. /\ cur \in Windows /\ Act({"halted"}) /\ requests' \in Seq(Request)
        /\ \A r \in Reqs' : r \in Reqs \/ (r.op = "clear" /\ r.pwd = NoPwd /\ r.win = cur)
        /\ user' \in AnyUser /\ session' \in {session, NoPwd} /\ promise' \in {promise, Nothing}
        /\ snapshot' = [there |-> TRUE, user |-> user]
        /\ UNCHANGED <<keyring, cur, shown, pending, opened, forgotten>>
    BY <1>15, HaltEffect
  <2>2. Counters' /\ Values' /\ Frames'
    BY <1>1, <2>1, ActCounts DEF Values, Frames
  <2>3. \A r \in Reqs' : Fine(r)'
    BY <1>1, <2>1 DEF Fine
  <2>4. Carried'
    BY <1>1, <2>1, <2>3 DEF Carried, Fine
  <2>5. QED
    BY <1>2, <2>1, <2>2, <2>4
<1>8. CASE Quit
  <2>1. /\ steps < MaxSteps /\ steps' = steps + 1 /\ session' = NoPwd /\ cur' = 0
        /\ shown' = [w \in Windows |-> NoPwd] /\ pending' = [w \in Windows |-> Nothing]
        /\ requests' = <<>> /\ promise' \in {promise, Nothing}
        /\ UNCHANGED <<user, keyring, snapshot, opened, forgotten>>
    BY <1>8 DEF Quit
  <2>2. mishaps' \subseteq mishaps \cup {"overtaken"}
    BY <1>8 DEF Quit, Mishap
  <2>3. steps' \in 0..MaxSteps
    BY <1>1, <2>1, CredentialsAssumption DEF Counters
  <2>4. Counters' /\ Values' /\ requests' \in Seq(Request)
    BY <1>1, <2>1, <2>2, <2>3 DEF Counters, Values
  <2>5. Frames'
    BY <1>1, <2>1 DEF Frames
  <2>6. Reqs' = {}
    BY <2>1, <2>4, ReqsEmpty DEF Reqs
  <2>7. Carried'
    BY <1>1, <2>1, <2>6 DEF Carried
  <2>8. QED
    BY <1>2, <2>4, <2>5, <2>7
<1>9. ASSUME NEW w \in Windows, FlushPassword(w) PROVE TypeInv'
  <2>1. /\ pending[w] \in Whole /\ pending' = [pending EXCEPT ![w] = Nothing]
        /\ requests' \in Seq(Request)
        /\ \A r \in Reqs' : r \in Reqs \/ (r.op = "store" /\ r.pwd = pending[w].pwd /\ r.win = w)
        /\ UNCHANGED <<user, session, keyring, cur, shown, snapshot, opened, steps, observers>>
    BY <1>9, FlushEffect
  <2>2. w <= opened
    BY <1>1, <1>9 DEF FlushPassword, Carried, Windows
  <2>3. Counters' /\ Values' /\ Frames'
    BY <1>1, <2>1 DEF Counters, Values, Frames, observers
  <2>4. \A r \in Reqs' : Fine(r)'
    BY <1>1, <2>1, <2>2 DEF Fine, Whole
  <2>5. \A v \in Windows : pending'[v] \in Whole \cup {Nothing}
    BY <1>1, <2>1 DEF Frames, Carried
  <2>6. Carried'
    BY <1>1, <2>1, <2>4, <2>5 DEF Carried, Fine, observers
  <2>7. QED
    BY <1>2, <2>1, <2>3, <2>6
<1>10. ASSUME NEW i \in DOMAIN requests, Serve(i) PROVE TypeInv'
  <2>1. PICK r \in Reqs :
             /\ requests' \in Seq(Request) /\ Reqs \subseteq Reqs' \cup {r}
             /\ \/ /\ r.op = "lookup" /\ UNCHANGED keyring
                   /\ \E g \in Request : /\ g.op = "answer" /\ g.user = r.user /\ g.win = r.win
                                         /\ g.pwd = keyring[r.user] /\ g \in Reqs'
                                         /\ Reqs' \subseteq Reqs \cup {g}
                \/ /\ r.op \in {"store", "clear"} /\ Reqs' \subseteq Reqs
                   /\ keyring' = [keyring EXCEPT ![r.user] = r.pwd]
             /\ UNCHANGED <<user, session, cur, shown, pending, snapshot, opened, steps, observers>>
    BY <1>10, ServeEffect
  <2>2. r.user \in Users /\ r.pwd \in AnyPwd /\ Fine(r)
    BY <1>1 DEF Request
  <2>3. keyring' \in [Users -> AnyPwd]
    BY <1>1, <2>1, <2>2 DEF Values
  <2>4. Counters' /\ Values' /\ Frames'
    BY <1>1, <2>1, <2>3 DEF Counters, Values, Frames, observers
  <2>5. \A g \in Reqs' : Fine(g)'
    BY <1>1, <2>1, <2>2 DEF Fine
  <2>6. Carried'
    BY <1>1, <2>1, <2>5 DEF Carried, Fine, observers
  <2>7. QED
    BY <1>2, <2>1, <2>4, <2>6
<1>11. ASSUME NEW i \in DOMAIN requests, Fail(i) PROVE TypeInv'
  <2>1. PICK r \in Reqs :
             /\ requests' \in Seq(Request)
             /\ mishaps' \subseteq mishaps \cup {"borrowed", "lookup", "store", "clear"}
             /\ \/ Reqs' \subseteq Reqs
                \/ \E g \in Request : g.op = "raised" /\ g.win = r.win /\ Reqs' \subseteq Reqs \cup {g}
             /\ UNCHANGED <<user, session, keyring, cur, shown, pending, snapshot, opened, steps,
                            promise, forgotten>>
    BY <1>11, FailEffect
  <2>2. Counters' /\ Values' /\ Frames'
    BY <1>1, <2>1 DEF Counters, Values, Frames
  <2>3. Fine(r)
    BY <1>1
  <2>4. \A g \in Reqs' : Fine(g)'
    BY <1>1, <2>1, <2>3 DEF Fine
  <2>5. Carried'
    BY <1>1, <2>1, <2>4 DEF Carried, Fine
  <2>6. QED
    BY <1>2, <2>1, <2>2, <2>5
<1>12. ASSUME NEW i \in DOMAIN requests, LookupDone(i) PROVE TypeInv'
  <2>1. PICK r \in Reqs :
             /\ r.win \in Windows
             /\ requests' \in Seq(Request) /\ Reqs' \subseteq Reqs
             /\ \/ UNCHANGED <<shown, session, pending>>
                \/ Found(r) \in Pwds /\ ProcessPassword(r.win, Found(r))
             /\ UNCHANGED <<user, keyring, cur, snapshot, opened, steps, observers>>
    BY <1>12, DoneEffect
  <2>2. /\ shown' \in [Windows -> AnyPwd] /\ pending' \in [Windows -> Credential]
        /\ session' \in AnyPwd
        /\ \A w \in Windows : /\ w # r.win => shown'[w] = shown[w] /\ pending'[w] = pending[w]
                              /\ pending'[w] \in Whole \cup {Nothing}
    <3>1. CASE UNCHANGED <<shown, session, pending>>
      BY <1>1, <3>1 DEF Values, Frames, Carried
    <3>2. CASE Found(r) \in Pwds /\ ProcessPassword(r.win, Found(r))
      <4>1. Found(r) \in AnyPwd
        BY <3>2 DEF AnyPwd
      <4>2. /\ shown' \in [Windows -> AnyPwd] /\ pending' \in [Windows -> Credential]
            /\ session' \in AnyPwd /\ pending'[r.win] \in Whole \cup {Nothing}
            /\ \A w \in Windows : w # r.win => shown'[w] = shown[w] /\ pending'[w] = pending[w]
        BY <2>1, <3>2, <4>1, ProcessEffect
      <4>3. QED
        BY <1>1, <4>2 DEF Carried
    <3>3. QED
      BY <2>1, <3>1, <3>2
  <2>3. \A w \in Windows : w > opened' => shown'[w] = NoPwd /\ pending'[w] = Nothing
    <3>1. \A w \in Windows : w > opened => w # r.win
      BY <1>1, <2>1 DEF Fine, Windows
    <3>2. QED
      BY <1>1, <2>1, <2>2, <3>1 DEF Carried
  <2>4. Counters' /\ Values' /\ Frames'
    BY <1>1, <2>1, <2>2 DEF Counters, Values, Frames, observers
  <2>5. Carried'
    BY <1>1, <2>1, <2>2, <2>3 DEF Carried, observers
  <2>6. QED
    BY <1>2, <2>1, <2>4, <2>5
<1>13. CASE UNCHANGED vars
  BY <1>13 DEF vars, observers, TypeInv, TypeOK, Carried, Reqs
<1>14. QED
  BY <1>3, <1>4, <1>5, <1>6, <1>7, <1>8, <1>9, <1>10, <1>11, <1>12, <1>13, <1>15
     DEF Next, User, System

(* Every variable keeps its type: among others, what is written to the     *)
(* keyring is a password, under the name of a user (settings_window.py,    *)
(* process_password and _flush_password_to_keyring).                       *)
THEOREM TypeCorrect == Spec => []TypeOK
<1>1. TypeInv => TypeOK
  BY DEF TypeInv
<1>2. QED
  BY <1>1, InitType, NextType, PTL DEF Spec

-----------------------------------------------------------------------------
(* Whose passwords they are.                                               *)

LEMMA MishapsGrow == TypeInv /\ [Next]_vars => mishaps \subseteq mishaps'
<1> SUFFICES ASSUME TypeInv, [Next]_vars PROVE mishaps \subseteq mishaps'
  OBVIOUS
<1>1. CASE OpenSettings
  BY <1>1, OpenEffect, OvertakeEffect
<1>2. CASE CloseSettings
  BY <1>2 DEF CloseSettings, observers
<1>3. ASSUME NEW u \in AnyUser, ProcessUsername(u) PROVE mishaps \subseteq mishaps'
  BY <1>3, OvertakeEffect DEF ProcessUsername, Act
<1>4. ASSUME NEW p \in AnyPwd, TypePassword(p) PROVE mishaps \subseteq mishaps'
  BY <1>4, OvertakeEffect DEF TypePassword, Act
<1>5. CASE ApplyReset \/ ApplyRestore
  BY <1>5, ForgetEffect, OvertakeEffect
<1>13. CASE ApplyResetHalts \/ ApplyRestoreHalts
  BY <1>13, HaltEffect, OvertakeEffect
<1>6. CASE Quit
  BY <1>6 DEF Quit, Mishap
<1>7. ASSUME NEW w \in Windows, FlushPassword(w) PROVE mishaps \subseteq mishaps'
  BY <1>7 DEF FlushPassword, observers
<1>8. ASSUME NEW i \in DOMAIN requests, Serve(i) PROVE mishaps \subseteq mishaps'
  BY <1>8 DEF Serve, observers
<1>9. ASSUME NEW i \in DOMAIN requests, Fail(i) PROVE mishaps \subseteq mishaps'
  BY <1>9 DEF Fail, Mishap
<1>10. ASSUME NEW i \in DOMAIN requests, LookupDone(i) PROVE mishaps \subseteq mishaps'
  BY <1>10 DEF LookupDone, observers
<1>11. CASE UNCHANGED vars
  BY <1>11 DEF vars, observers
<1>12. QED
  BY <1>1, <1>2, <1>3, <1>4, <1>5, <1>6, <1>7, <1>8, <1>9, <1>10, <1>11, <1>13
     DEF Next, User, System

(* While the user overtakes no lookup, what one brings is the password of  *)
(* the user who is shown.                                                  *)
LEMMA FoundIsOwn ==
    ASSUME TypeInv, Owned, NEW r \in Reqs, r.op \in {"answer", "raised"}, Found(r) \in Pwds
    PROVE  user \in Users /\ user # NoUser /\ r.user = user /\ Owner[Found(r)] = user
           /\ (cur # 0 => r.win = cur)
<1>1. r \in Request /\ NoPwd \notin Pwds /\ NoUser \notin Users /\ OwnedReq(r)
  BY TypeFacts DEF Owned
<1>2. r.user \in Users
  BY <1>1 DEF Request
<1>3. r.user = user /\ (cur # 0 => r.win = cur)
  BY <1>1 DEF OwnedReq, LookupOps
<1>4. CASE r.op = "raised"
  BY <1>1, <1>2, <1>3, <1>4 DEF Found, OwnedReq
<1>5. CASE r.op = "answer"
  BY <1>1, <1>2, <1>3, <1>5 DEF Found, OwnedReq
<1>6. QED
  BY <1>4, <1>5

LEMMA InitOwn == Init => OwnInv
<1> SUFFICES ASSUME Init PROVE Owned
  BY DEF OwnInv
<1>1. Reqs = {}
  BY InitType, ReqsEmpty DEF Init, Reqs, TypeInv, TypeOK
<1>2. QED
  BY <1>1, CredentialsAssumption DEF Init, Owned

LEMMA NextOwn == TypeInv /\ OwnInv /\ [Next]_vars => OwnInv'
<1> SUFFICES ASSUME TypeInv, OwnInv, [Next]_vars, mishaps' \cap {"staleLookup", "borrowed"} = {}
             PROVE  Owned'
  BY DEF OwnInv
<1>1. /\ Owned
      /\ keyring \in [Users -> AnyPwd] /\ pending \in [Windows -> Credential]
      /\ NoPwd \notin Pwds /\ NoUser \notin Users
      /\ \A r \in Reqs : r \in Request /\ OwnedReq(r)
  BY MishapsGrow, TypeFacts DEF OwnInv, Owned
<1>2. \A wrong \in SUBSET {"halted"} :
         Overtake(wrong) => \A r \in Reqs : r.op \notin LookupOps
  BY OvertakeEffect
<1>3. CASE OpenSettings
  <2>1. /\ \A r \in Reqs : r.op \notin LookupOps
        /\ \A r \in Reqs' : \/ r \in Reqs
                            \/ r.op = "lookup" /\ r.user = user /\ r.win = cur'
        /\ UNCHANGED <<user, session, keyring, pending>>
    BY <1>2, <1>3, OpenEffect
  <2>2. \A r \in Reqs' : OwnedReq(r)'
    BY <1>1, <2>1 DEF OwnedReq, LookupOps
  <2>3. QED
    BY <1>1, <2>1, <2>2 DEF Owned
<1>4. CASE CloseSettings
  <2>1. cur' = 0 /\ UNCHANGED <<user, session, keyring, pending, requests>>
    BY <1>4 DEF CloseSettings
  <2>2. \A r \in Reqs' : OwnedReq(r)'
    BY <1>1, <2>1 DEF OwnedReq, Reqs
  <2>3. QED
    BY <1>1, <2>1, <2>2 DEF Owned
<1>5. ASSUME NEW u \in AnyUser, ProcessUsername(u) PROVE Owned'
  <2>1. Overtake({}) /\ UNCHANGED <<session, keyring, pending, requests>>
    BY <1>5 DEF ProcessUsername, Act
  <2>2. \A r \in Reqs' : OwnedReq(r)'
    BY <1>1, <1>2, <2>1 DEF OwnedReq, Reqs, LookupOps
  <2>3. QED
    BY <1>1, <2>1, <2>2 DEF Owned
<1>6. ASSUME NEW p \in AnyPwd, TypePassword(p) PROVE Owned'
  <2>1. /\ cur # 0 /\ (p # NoPwd => user \in {NoUser, Owner[p]}) /\ Overtake({})
        /\ ProcessPassword(cur, p) /\ UNCHANGED <<user, keyring, requests>>
    BY <1>6 DEF TypePassword, Act
  <2>2. cur \in Windows
    BY <2>1, TypeFacts
  <2>3. /\ \A v \in Windows : v # cur => pending'[v] = pending[v]
        /\ p # NoPwd /\ user # NoUser => pending'[cur] = [user |-> user, pwd |-> p]
        /\ p = NoPwd \/ user = NoUser => pending'[cur] = Nothing
    BY <2>1, <2>2, ProcessEffect
  <2>4. \A w \in Windows : pending'[w] # Nothing => Owner[pending'[w].pwd] = pending'[w].user
    BY <1>1, <2>1, <2>3 DEF Owned
  <2>5. \A r \in Reqs' : OwnedReq(r)'
    BY <1>1, <1>2, <2>1 DEF OwnedReq, Reqs, LookupOps
  <2>6. QED
    BY <1>1, <2>1, <2>4, <2>5 DEF Owned
<1>7. CASE ApplyReset \/ ApplyRestore
  <2>1. /\ \A r \in Reqs : r.op \notin LookupOps
        /\ \A r \in Reqs' : r \in Reqs \/ r.op = "clear"
        /\ pending' = [pending EXCEPT ![cur] = Nothing] /\ UNCHANGED keyring
    BY <1>2, <1>7, ForgetEffect
  <2>2. \A r \in Reqs' : OwnedReq(r)'
    BY <1>1, <2>1 DEF OwnedReq, LookupOps
  <2>3. \A w \in Windows : pending'[w] # Nothing => Owner[pending'[w].pwd] = pending'[w].user
    BY <1>1, <2>1 DEF Owned
  <2>4. QED
    BY <1>1, <2>1, <2>2, <2>3 DEF Owned
<1>15. CASE ApplyResetHalts \/ ApplyRestoreHalts
  <2>1. /\ \A r \in Reqs : r.op \notin LookupOps
        /\ \A r \in Reqs' : r \in Reqs \/ (r.op = "clear" /\ r.pwd = NoPwd)
        /\ UNCHANGED <<keyring, pending>>
    BY <1>2, <1>15, HaltEffect
  <2>2. \A r \in Reqs' : OwnedReq(r)'
    BY <1>1, <2>1 DEF OwnedReq, LookupOps
  <2>3. QED
    BY <1>1, <2>1, <2>2 DEF Owned
<1>8. CASE Quit
  <2>1. requests' = <<>> /\ pending' = [w \in Windows |-> Nothing] /\ UNCHANGED keyring
    BY <1>8 DEF Quit
  <2>2. Reqs' = {}
    BY <2>1 DEF Reqs, ReqsOf
  <2>3. QED
    BY <1>1, <2>1, <2>2 DEF Owned
<1>9. ASSUME NEW w \in Windows, FlushPassword(w) PROVE Owned'
  <2>1. /\ pending' = [pending EXCEPT ![w] = Nothing]
        /\ \A r \in Reqs' : \/ r \in Reqs
                            \/ r.op = "store" /\ r.user = pending[w].user /\ r.pwd = pending[w].pwd
        /\ UNCHANGED <<user, session, keyring, cur>>
    BY <1>9, FlushEffect
  <2>2. Owner[pending[w].pwd] = pending[w].user
    BY <1>1, <1>9 DEF Owned, FlushPassword
  <2>3. \A r \in Reqs' : OwnedReq(r)'
    BY <1>1, <2>1, <2>2 DEF OwnedReq, LookupOps
  <2>4. \A v \in Windows : pending'[v] # Nothing => Owner[pending'[v].pwd] = pending'[v].user
    BY <1>1, <2>1 DEF Owned
  <2>5. QED
    BY <1>1, <2>1, <2>3, <2>4 DEF Owned
<1>10. ASSUME NEW i \in DOMAIN requests, Serve(i) PROVE Owned'
  <2>1. PICK r \in Reqs :
             /\ \/ /\ r.op = "lookup" /\ UNCHANGED keyring
                   /\ \E g \in Request : /\ g.op = "answer" /\ g.user = r.user /\ g.win = r.win
                                         /\ g.pwd = keyring[r.user]
                                         /\ Reqs' \subseteq Reqs \cup {g}
                \/ /\ r.op \in {"store", "clear"} /\ Reqs' \subseteq Reqs
                   /\ keyring' = [keyring EXCEPT ![r.user] = r.pwd]
             /\ UNCHANGED <<user, session, cur, pending>>
    BY <1>10, ServeEffect
  <2>2. r \in Request /\ r.user \in Users /\ OwnedReq(r)
    BY <1>1 DEF Request
  <2>3. CASE r.op = "lookup"
    <3>1. \A g \in Reqs' : OwnedReq(g)'
      BY <1>1, <2>1, <2>2, <2>3 DEF OwnedReq, LookupOps, Owned
    <3>2. QED
      BY <1>1, <2>1, <2>3, <3>1 DEF Owned
  <2>4. CASE r.op \in {"store", "clear"}
    <3>1. keyring' = [keyring EXCEPT ![r.user] = r.pwd] /\ Reqs' \subseteq Reqs
      BY <2>1, <2>4
    <3>2. r.pwd # NoPwd => Owner[r.pwd] = r.user
      BY <2>2, <2>4 DEF OwnedReq, TypeInv, Carried
    <3>3. \A u \in Users : keyring'[u] # NoPwd => Owner[keyring'[u]] = u
      BY <1>1, <2>2, <3>1, <3>2 DEF Owned
    <3>4. \A g \in Reqs' : OwnedReq(g)'
      BY <1>1, <2>1, <3>1 DEF OwnedReq
    <3>5. QED
      BY <1>1, <2>1, <3>3, <3>4 DEF Owned
  <2>5. QED
    BY <2>1, <2>3, <2>4
<1>11. ASSUME NEW i \in DOMAIN requests, Fail(i) PROVE Owned'
  <2>1. PICK r \in Reqs :
             /\ \/ /\ r.op = "lookup" /\ (session # NoPwd => Owner[session] = r.user)
                   /\ \E g \in Request : /\ g.op = "raised" /\ g.user = r.user /\ g.win = r.win
                                         /\ Reqs' \subseteq Reqs \cup {g}
                \/ Reqs' \subseteq Reqs
             /\ UNCHANGED <<user, session, keyring, cur, pending>>
    BY <1>11, FailEffect
  <2>2. \A g \in Reqs' : OwnedReq(g)'
    BY <1>1, <2>1 DEF OwnedReq, LookupOps
  <2>3. QED
    BY <1>1, <2>1, <2>2 DEF Owned
<1>12. ASSUME NEW i \in DOMAIN requests, LookupDone(i) PROVE Owned'
  <2>1. PICK r \in Reqs :
             /\ r.op \in {"answer", "raised"} /\ r.win \in Windows /\ Reqs' \subseteq Reqs
             /\ \/ UNCHANGED <<shown, session, pending>>
                \/ Found(r) \in Pwds /\ ProcessPassword(r.win, Found(r))
             /\ UNCHANGED <<user, keyring, cur>>
    BY <1>12, DoneEffect
  <2>2. CASE UNCHANGED <<shown, session, pending>>
    <3>1. \A g \in Reqs' : OwnedReq(g)'
      BY <1>1, <2>1, <2>2 DEF OwnedReq
    <3>2. QED
      BY <1>1, <2>1, <2>2, <3>1 DEF Owned
  <2>3. CASE Found(r) \in Pwds /\ ProcessPassword(r.win, Found(r))
    <3>1. user # NoUser /\ Owner[Found(r)] = user /\ Found(r) # NoPwd /\ Found(r) \in AnyPwd
      BY <1>1, <2>1, <2>3, FoundIsOwn DEF AnyPwd
    <3>2. /\ session' = Found(r) /\ pending'[r.win] = [user |-> user, pwd |-> Found(r)]
          /\ \A v \in Windows : v # r.win => pending'[v] = pending[v]
      BY <2>1, <2>3, <3>1, ProcessEffect
    <3>3. \A w \in Windows : pending'[w] # Nothing => Owner[pending'[w].pwd] = pending'[w].user
      BY <1>1, <3>1, <3>2 DEF Owned
    <3>4. \A g \in Reqs' : OwnedReq(g)'
      BY <1>1, <2>1, <3>1, <3>2 DEF OwnedReq, LookupOps
    <3>5. QED
      BY <1>1, <2>1, <3>3, <3>4 DEF Owned
  <2>4. QED
    BY <2>1, <2>2, <2>3
<1>13. CASE UNCHANGED vars
  BY <1>1, <1>13 DEF vars, Owned, OwnedReq, Reqs
<1>14. QED
  BY <1>3, <1>4, <1>5, <1>6, <1>7, <1>8, <1>9, <1>10, <1>11, <1>12, <1>13, <1>15
     DEF Next, User, System

(* A user's keyring item is a password of his, for any number of users,    *)
(* windows and requests, served in any order (settings_window.py,          *)
(* process_username, process_password, on_password_lookup).  The two       *)
(* exceptions are the code's: a lookup whose answer is put under the name  *)
(* that is shown by then, and one copy in memory for all users.            *)
THEOREM KeyringIsOwn == Spec => []OwnPassword
<1>1. TypeInv /\ OwnInv => OwnPassword
  BY DEF OwnInv, Owned, OwnPassword
<1>2. QED
  BY <1>1, InitType, NextType, InitOwn, NextOwn, PTL DEF Spec

-----------------------------------------------------------------------------
(* The password typed last.                                                *)

(* What an act of the user's finds when he overtakes nothing.              *)
LEMMA ActFindsRest ==
    ASSUME TypeInv, NEW wrong \in SUBSET {"halted"}, Overtake(wrong),
           mishaps' \cap {"overtaken", "staleLookup"} = {}
    PROVE  Reqs = {} /\ \A w \in Windows : w # cur => pending[w] = Nothing
<1>1. "overtaken" \notin mishaps' /\ mishaps' \cap {"staleLookup", "overtaken"} = {}
  OBVIOUS
<1>2. QED
  BY <1>1, OvertakeEffect

LEMMA InitKept == Init => KeptInv
BY DEF Init, KeptInv

LEMMA NextKept == TypeInv /\ OwnInv /\ KeptInv /\ [Next]_vars => KeptInv'
<1> SUFFICES ASSUME TypeInv, OwnInv, KeptInv, [Next]_vars, promise' # Nothing,
                    mishaps' \cap {"overtaken", "staleLookup", "store", "borrowed"} = {}
             PROVE  Kept'
  BY DEF KeptInv
<1>1. /\ Owned /\ (promise # Nothing => Kept)
      /\ keyring \in [Users -> AnyPwd] /\ pending \in [Windows -> Credential]
      /\ shown \in [Windows -> AnyPwd]
      /\ NoPwd \notin Pwds /\ NoUser \notin Users
      /\ \A r \in Reqs : r \in Request
      /\ promise \in Whole \cup {Nothing}
  BY MishapsGrow, TypeFacts DEF OwnInv, KeptInv, TypeInv, Carried
<1>2. promise # Nothing => /\ promise \in Whole /\ promise.user \in Users
                           /\ promise.pwd \in Pwds /\ promise.user # Nothing.user
                           /\ Owner[promise.pwd] = promise.user
  BY <1>1 DEF Whole, Nothing, TypeInv, Carried
<1>3. \A wrong \in SUBSET {"halted"} : Overtake(wrong) =>
         Reqs = {} /\ \A w \in Windows : w # cur => pending[w] = Nothing
  BY ActFindsRest
<1>4. CASE OpenSettings
  <2>1. /\ cur = 0 /\ cur' = opened + 1 /\ cur' \in Windows
        /\ Reqs = {} /\ \A w \in Windows : w # cur => pending[w] = Nothing
        /\ \A r \in Reqs' : r.op = "lookup"
        /\ UNCHANGED <<session, keyring, shown, pending, promise>>
    BY <1>3, <1>4, OpenEffect
  <2>2. \A w \in Windows : w # 0
    BY TypeFacts DEF Windows
  <2>3. \A w \in Windows : pending[w] = Nothing
    BY <2>1, <2>2
  <2>4. keyring[promise.user] = promise.pwd
    BY <1>1, <2>1, <2>3 DEF Kept
  <2>5. shown[cur'] = NoPwd
    <3>1. cur' > opened
      BY <2>1, TypeFacts
    <3>2. QED
      BY <2>1, <3>1 DEF TypeInv, Carried
  <2>6. \A r \in Reqs' : KeptReq(r)'
    BY <2>1 DEF KeptReq
  <2>7. \A w \in Windows : pending'[w].user = promise'.user => pending'[w] = promise'
    BY <1>2, <2>1, <2>3
  <2>8. session' # NoPwd /\ Owner[session'] = promise'.user => session' = promise'.pwd
    BY <1>1, <2>1 DEF Kept
  <2>9. QED
    BY <2>1, <2>4, <2>5, <2>6, <2>7, <2>8 DEF Kept
<1>5. CASE CloseSettings
  <2>1. cur' = 0 /\ UNCHANGED <<session, keyring, shown, pending, requests, promise>>
    BY <1>5 DEF CloseSettings, observers
  <2>2. Reqs' = Reqs /\ Kept
    BY <1>1, <2>1 DEF Reqs
  <2>3. \A r \in Reqs' : KeptReq(r)'
    BY <2>1, <2>2 DEF Kept, KeptReq
  <2>4. QED
    BY <2>1, <2>2, <2>3 DEF Kept
<1>6. ASSUME NEW u \in AnyUser, ProcessUsername(u) PROVE Kept'
  <2>1. UNCHANGED <<session, keyring, cur, shown, pending, requests, promise>>
    BY <1>6 DEF ProcessUsername
  <2>2. Reqs' = Reqs /\ Kept
    BY <1>1, <2>1 DEF Reqs
  <2>3. \A r \in Reqs' : KeptReq(r)'
    BY <2>1, <2>2 DEF Kept, KeptReq
  <2>4. QED
    BY <2>1, <2>2, <2>3 DEF Kept
<1>7. ASSUME NEW p \in AnyPwd, TypePassword(p) PROVE Kept'
  <2>1. /\ cur # 0 /\ Overtake({}) /\ ProcessPassword(cur, p) /\ UNCHANGED <<keyring, cur, requests>>
        /\ p # NoPwd /\ user # NoUser /\ promise' = [user |-> user, pwd |-> p]
    BY <1>7 DEF TypePassword, Act
  <2>2. cur \in Windows
    BY <2>1, TypeFacts
  <2>3. /\ session' = p /\ shown'[cur] = p /\ pending'[cur] = promise'
        /\ \A v \in Windows : v # cur => pending'[v] = pending[v]
    BY <2>1, <2>2, ProcessEffect
  <2>4. Reqs' = {} /\ \A w \in Windows : w # cur => pending'[w] = Nothing
    BY <1>3, <2>1, <2>3 DEF Reqs
  <2>5. \A w \in Windows : pending'[w].user = promise'.user => pending'[w] = promise'
    BY <2>1, <2>3, <2>4 DEF Nothing
  <2>6. session' = promise'.pwd
    BY <2>1, <2>3
  <2>7. QED
    BY <2>1, <2>2, <2>3, <2>4, <2>5, <2>6 DEF Kept
<1>8. CASE ApplyReset \/ ApplyRestore
  BY <1>8, ForgetEffect
<1>16. CASE ApplyResetHalts \/ ApplyRestoreHalts
  <2>1. UNCHANGED <<session, keyring, cur, shown, pending, requests, promise>>
    BY <1>16, HaltEffect
  <2>2. Reqs' = Reqs /\ Kept
    BY <1>1, <2>1 DEF Reqs
  <2>3. \A r \in Reqs' : KeptReq(r)'
    BY <2>1, <2>2 DEF Kept, KeptReq
  <2>4. QED
    BY <2>1, <2>2, <2>3 DEF Kept
<1>9. CASE Quit
  <2>1. /\ requests' = <<>> /\ pending' = [w \in Windows |-> Nothing] /\ session' = NoPwd /\ cur' = 0
        /\ promise' = promise /\ (\A w \in Windows : pending[w] = Nothing)
        /\ ~InFlight({"store", "clear"}) /\ UNCHANGED keyring
    BY <1>9 DEF Quit, Mishap
  <2>2. Reqs' = {} /\ \A r \in Reqs : r.op # "store"
    BY <2>1 DEF Reqs, ReqsOf, InFlight
  <2>3. keyring[promise.user] = promise.pwd
    BY <1>1, <2>1, <2>2 DEF Kept
  <2>4. \A w \in Windows : pending'[w].user = promise'.user => pending'[w] = promise'
    BY <1>2, <2>1
  <2>5. QED
    BY <2>1, <2>2, <2>3, <2>4 DEF Kept
<1>10. ASSUME NEW w \in Windows, FlushPassword(w) PROVE Kept'
  <2>1. PICK g \in Request :
             /\ g.op = "store" /\ g.user = pending[w].user /\ g.pwd = pending[w].pwd
             /\ Reqs' = Reqs \cup {g} /\ pending[w] \in Whole
             /\ pending' = [pending EXCEPT ![w] = Nothing]
             /\ UNCHANGED <<user, session, keyring, cur, shown, promise>>
    BY <1>10, FlushEffect DEF observers
  <2>2. Kept /\ promise # Nothing
    BY <1>1, <2>1
  <2>3. pending[w].user = promise.user => pending[w] = promise
    BY <2>2 DEF Kept
  <2>4. \A r \in Reqs' : KeptReq(r)'
    BY <2>1, <2>2, <2>3 DEF Kept, KeptReq
  <2>5. \A v \in Windows : pending'[v].user = promise'.user => pending'[v] = promise'
    <3>1. \A v \in Windows : pending'[v] = IF v = w THEN Nothing ELSE pending[v]
      BY <1>1, <2>1
    <3>2. QED
      BY <1>2, <2>1, <2>2, <3>1 DEF Kept
  <2>6. \/ keyring'[promise'.user] = promise'.pwd
        \/ \E r \in Reqs' : r.op = "store" /\ r.user = promise'.user
        \/ \E v \in Windows : pending'[v] = promise'
    <3>1. CASE pending[w] = promise
      BY <2>1, <3>1
    <3>2. CASE pending[w] # promise
      <4>1. \A v \in Windows : v # w => pending'[v] = pending[v]
        BY <1>1, <2>1
      <4>2. QED
        BY <2>1, <2>2, <3>2, <4>1 DEF Kept
    <3>3. QED
      BY <3>1, <3>2
  <2>7. (\E r \in Reqs' : r.op \in LookupOps) => keyring'[promise'.user] = promise'.pwd
    BY <2>1, <2>2 DEF Kept, LookupOps
  <2>8. QED
    BY <2>1, <2>2, <2>4, <2>5, <2>6, <2>7 DEF Kept

<1>11. ASSUME NEW i \in DOMAIN requests, Serve(i) PROVE Kept'
  <2>1. PICK r \in Reqs :
             /\ Reqs \subseteq Reqs' \cup {r}
             /\ \/ /\ r.op = "lookup" /\ UNCHANGED keyring
                   /\ \E g \in Request : /\ g.op = "answer" /\ g.user = r.user /\ g.win = r.win
                                         /\ g.pwd = keyring[r.user]
                                         /\ Reqs' \subseteq Reqs \cup {g}
                \/ /\ r.op \in {"store", "clear"} /\ Reqs' \subseteq Reqs
                   /\ keyring' = [keyring EXCEPT ![r.user] = r.pwd]
             /\ UNCHANGED <<session, cur, shown, pending, promise>>
    BY <1>11, ServeEffect DEF observers
  <2>2. Kept /\ promise # Nothing /\ r.user \in Users /\ KeptReq(r)
    BY <1>1, <2>1 DEF Kept, Request
  <2>3. CASE r.op = "lookup"
    <3>1. UNCHANGED keyring /\ keyring[promise.user] = promise.pwd
      BY <2>1, <2>2, <2>3 DEF Kept, LookupOps
    <3>2. \A g \in Reqs' : KeptReq(g)'
      BY <2>1, <2>2, <2>3, <3>1 DEF Kept, KeptReq
    <3>3. QED
      BY <2>1, <2>2, <3>1, <3>2 DEF Kept
  <2>4. CASE r.op \in {"store", "clear"}
    <3>1. keyring' = [keyring EXCEPT ![r.user] = r.pwd] /\ Reqs' \subseteq Reqs
      BY <2>1, <2>4
    <3>2. r.user = promise.user => r.pwd = promise.pwd
      BY <2>2, <2>4 DEF KeptReq
    <3>3. \A g \in Reqs' : KeptReq(g)'
      BY <2>1, <2>2, <3>1 DEF Kept, KeptReq
    <3>4. keyring[promise.user] = promise.pwd => keyring'[promise.user] = promise.pwd
      BY <1>1, <1>2, <2>2, <3>1, <3>2
    <3>5. \/ keyring'[promise.user] = promise.pwd
          \/ \E g \in Reqs' : g.op = "store" /\ g.user = promise.user
          \/ \E w \in Windows : pending[w] = promise
      <4>1. CASE r.user = promise.user
        BY <1>1, <2>2, <3>1, <3>2, <4>1
      <4>2. CASE r.user # promise.user
        BY <2>1, <2>2, <3>4, <4>2 DEF Kept
      <4>3. QED
        BY <4>1, <4>2
    <3>6. (\E g \in Reqs' : g.op \in LookupOps) => keyring'[promise.user] = promise.pwd
      BY <2>2, <3>1, <3>4 DEF Kept
    <3>7. QED
      BY <2>1, <2>2, <3>3, <3>5, <3>6 DEF Kept
  <2>5. QED
    BY <2>1, <2>3, <2>4
<1>12. ASSUME NEW i \in DOMAIN requests, Fail(i) PROVE Kept'
  <2>1. PICK r \in Reqs :
             /\ Reqs \subseteq Reqs' \cup {r}
             /\ \/ /\ r.op = "lookup"
                   /\ \E g \in Request : g.op = "raised" /\ Reqs' \subseteq Reqs \cup {g}
                \/ r.op = "clear" /\ Reqs' \subseteq Reqs
             /\ UNCHANGED <<session, keyring, cur, shown, pending, promise>>
    BY <1>12, FailEffect
  <2>2. Kept /\ promise # Nothing
    BY <1>1, <2>1
  <2>3. \A g \in Reqs' : KeptReq(g)'
    BY <2>1, <2>2 DEF Kept, KeptReq
  <2>4. (\E g \in Reqs' : g.op \in LookupOps) => keyring'[promise'.user] = promise'.pwd
    BY <2>1, <2>2 DEF Kept, LookupOps
  <2>5. \/ keyring'[promise'.user] = promise'.pwd
        \/ \E g \in Reqs' : g.op = "store" /\ g.user = promise'.user
        \/ \E w \in Windows : pending'[w] = promise'
    BY <2>1, <2>2 DEF Kept
  <2>6. QED
    BY <2>1, <2>2, <2>3, <2>4, <2>5 DEF Kept
<1>13. ASSUME NEW i \in DOMAIN requests, LookupDone(i) PROVE Kept'
  <2>1. PICK r \in Reqs :
             /\ r.op \in {"answer", "raised"} /\ r.win \in Windows /\ Reqs' \subseteq Reqs
             /\ \/ UNCHANGED <<shown, session, pending>>
                \/ Found(r) \in Pwds /\ ProcessPassword(r.win, Found(r))
             /\ UNCHANGED <<user, keyring, cur, promise>>
    BY <1>13, DoneEffect DEF observers
  <2>2. Kept /\ promise # Nothing /\ KeptReq(r)
    BY <1>1, <2>1 DEF Kept
  <2>3. keyring[promise.user] = promise.pwd
    BY <2>1, <2>2 DEF Kept, LookupOps
  <2>4. \A g \in Reqs' : KeptReq(g)'
    BY <2>1, <2>2 DEF Kept, KeptReq
  <2>5. CASE UNCHANGED <<shown, session, pending>>
    BY <2>1, <2>2, <2>3, <2>4, <2>5 DEF Kept
  <2>6. CASE Found(r) \in Pwds /\ ProcessPassword(r.win, Found(r))
    <3>1. /\ user # NoUser /\ Owner[Found(r)] = user /\ r.user = user /\ (cur # 0 => r.win = cur)
          /\ Found(r) # NoPwd /\ Found(r) \in AnyPwd
      BY <1>1, <2>1, <2>6, FoundIsOwn DEF AnyPwd
    <3>2. /\ session' = Found(r) /\ pending'[r.win] = [user |-> user, pwd |-> Found(r)]
          /\ shown'[r.win] = Found(r)
          /\ \A v \in Windows : v # r.win => pending'[v] = pending[v]
      BY <2>1, <2>6, <3>1, ProcessEffect
    <3>3. user = promise.user => Found(r) = promise.pwd
      BY <2>1, <2>2, <3>1 DEF Found, KeptReq, Kept
    <3>4. promise = [user |-> promise.user, pwd |-> promise.pwd]
      BY <1>2, <2>2 DEF Whole
    <3>5. \A w \in Windows : pending'[w].user = promise.user => pending'[w] = promise
      BY <2>2, <3>2, <3>3, <3>4 DEF Kept
    <3>6. session' # NoPwd /\ Owner[session'] = promise.user => session' = promise.pwd
      BY <3>1, <3>2, <3>3
    <3>7. cur' # 0 /\ shown'[cur'] # NoPwd => session' = shown'[cur']
      BY <2>1, <3>1, <3>2
    <3>8. QED
      BY <2>1, <2>3, <2>4, <3>5, <3>6, <3>7 DEF Kept
  <2>7. QED
    BY <2>1, <2>5, <2>6
<1>14. CASE UNCHANGED vars
  <2>1. UNCHANGED <<session, keyring, cur, shown, pending, requests, promise>>
    BY <1>14 DEF vars, observers
  <2>2. Reqs' = Reqs /\ Kept
    BY <1>1, <2>1 DEF Reqs
  <2>3. \A r \in Reqs' : KeptReq(r)'
    BY <2>1, <2>2 DEF Kept, KeptReq
  <2>4. QED
    BY <2>1, <2>2, <2>3 DEF Kept
<1>15. QED
  BY <1>4, <1>5, <1>6, <1>7, <1>8, <1>9, <1>10, <1>11, <1>12, <1>13, <1>14, <1>16
     DEF Next, User, System

(* Once nothing is in flight and no timer runs.                            *)
LEMMA SettledKeeps == TypeInv /\ KeptInv => TypedIsStored
<1> SUFFICES ASSUME TypeInv, KeptInv, Settled, promise # Nothing,
                    mishaps \cap {"overtaken", "staleLookup", "store", "borrowed"} = {}
             PROVE  /\ keyring[promise.user] = promise.pwd
                    /\ (cur # 0 /\ user = promise.user /\ shown[cur] = promise.pwd) =>
                          \A raises \in BOOLEAN : ConnectionPassword(raises) = promise.pwd
  BY DEF TypedIsStored
<1>1. Kept /\ requests = <<>> /\ \A w \in Windows : pending[w] = Nothing
  BY DEF KeptInv, Settled
<1>2. Reqs = {}
  BY <1>1 DEF Reqs, ReqsOf
<1>3. promise.user \in Users /\ promise.pwd \in Pwds /\ NoUser \notin Users /\ NoPwd \notin Pwds
  BY TypeFacts DEF TypeInv, Carried, Whole
<1>4. keyring[promise.user] = promise.pwd
  BY <1>1, <1>2 DEF Kept
<1>5. cur # 0 /\ shown[cur] = promise.pwd => session = promise.pwd
  BY <1>1, <1>3 DEF Kept
<1>6. QED
  BY <1>3, <1>4, <1>5 DEF ConnectionPassword

(* Once all is settled the password typed last and not cleared since is the*)
(* one stored, whatever was done to the user name or the window since, and *)
(* it is the one a connection sends (settings_window.py, process_password, *)
(* on_password_lookup; connection_manager.py, _connect_blocking), resets   *)
(* and restores that raise halfway included.  Assumed, as the property     *)
(* says: the user overtakes no lookup, store or clearing, no store fails,  *)
(* and no failed lookup borrows another user's password from memory.       *)
THEOREM TypedIsKept == Spec => []TypedIsStored
BY InitType, NextType, InitOwn, NextOwn, InitKept, NextKept, SettledKeeps, PTL DEF Spec


-----------------------------------------------------------------------------
(* What a reset forgets.                                                   *)

LEMMA InitForget == Init => ForgetInv
BY DEF Init, ForgetInv

LEMMA NextForget == TypeInv /\ OwnInv /\ ForgetInv /\ [Next]_vars => ForgetInv'
<1> SUFFICES ASSUME TypeInv, OwnInv, ForgetInv, [Next]_vars,
                    mishaps' \subseteq {"store", "lookup", "halted"}, NEW u \in forgotten'
             PROVE  Forgets(u)'
  BY DEF ForgetInv
<1>1. /\ Owned /\ (u \in forgotten => u \in Users /\ Forgets(u))
      /\ keyring \in [Users -> AnyPwd] /\ pending \in [Windows -> Credential]
      /\ NoPwd \notin Pwds /\ NoUser \notin Users
      /\ \A r \in Reqs : r \in Request
  BY MishapsGrow, TypeFacts DEF OwnInv, ForgetInv, TypeInv, TypeOK
<1>2. \A wrong \in SUBSET {"halted"} : Overtake(wrong) =>
         Reqs = {} /\ \A w \in Windows : w # cur => pending[w] = Nothing
  BY ActFindsRest
<1>3. Nothing.user = NoUser
  BY DEF Nothing
<1>4. CASE OpenSettings
  <2>1. /\ Reqs = {} /\ \A r \in Reqs' : r.op = "lookup"
        /\ UNCHANGED <<session, keyring, pending, forgotten>>
    BY <1>2, <1>4, OpenEffect
  <2>2. keyring[u] = NoPwd /\ Forgets(u)
    BY <1>1, <2>1 DEF Forgets
  <2>3. \A r \in Reqs' : ForgetsReq(u, r)'
    BY <2>1, <2>2 DEF ForgetsReq
  <2>4. QED
    BY <2>1, <2>2, <2>3 DEF Forgets
<1>5. CASE CloseSettings
  <2>1. UNCHANGED <<session, keyring, pending, requests, forgotten>>
    BY <1>5 DEF CloseSettings, observers
  <2>2. Reqs' = Reqs /\ Forgets(u)
    BY <1>1, <2>1 DEF Reqs
  <2>3. \A r \in Reqs' : ForgetsReq(u, r)'
    BY <2>1, <2>2 DEF Forgets, ForgetsReq
  <2>4. QED
    BY <2>1, <2>2, <2>3 DEF Forgets
<1>6. ASSUME NEW v \in AnyUser, ProcessUsername(v) PROVE Forgets(u)'
  <2>1. UNCHANGED <<session, keyring, pending, requests, forgotten>>
    BY <1>6 DEF ProcessUsername
  <2>2. Reqs' = Reqs /\ Forgets(u)
    BY <1>1, <2>1 DEF Reqs
  <2>3. \A r \in Reqs' : ForgetsReq(u, r)'
    BY <2>1, <2>2 DEF Forgets, ForgetsReq
  <2>4. QED
    BY <2>1, <2>2, <2>3 DEF Forgets
<1>7. ASSUME NEW p \in AnyPwd, TypePassword(p) PROVE Forgets(u)'
  <2>1. /\ cur # 0 /\ Overtake({}) /\ ProcessPassword(cur, p) /\ UNCHANGED <<user, keyring, requests>>
        /\ (p # NoPwd => user \in {NoUser, Owner[p]})
        /\ forgotten' = IF user # NoUser /\ p # NoPwd THEN forgotten \ {user} ELSE forgotten
    BY <1>7 DEF TypePassword, Act
  <2>2. cur \in Windows /\ u \in forgotten /\ (p # NoPwd /\ user # NoUser => u # user)
    BY <2>1, TypeFacts
  <2>3. /\ \A w \in Windows : w # cur => pending'[w] = pending[w]
        /\ p # NoPwd /\ user # NoUser =>
              session' = p /\ pending'[cur] = [user |-> user, pwd |-> p]
        /\ p = NoPwd \/ user = NoUser => session' = NoPwd /\ pending'[cur] = Nothing
    BY <2>1, <2>2, ProcessEffect
  <2>4. Reqs = {} /\ Reqs' = {} /\ Forgets(u) /\ u \in Users
    BY <1>1, <1>2, <2>1, <2>2 DEF Reqs
  <2>5. keyring'[u] = NoPwd
    BY <2>1, <2>4 DEF Forgets
  <2>6. \A w \in Windows : pending'[w].user # u
    BY <1>1, <1>3, <2>2, <2>3, <2>4 DEF Forgets
  <2>7. session' # NoPwd => Owner[session'] # u
    BY <2>1, <2>2, <2>3
  <2>8. QED
    BY <2>4, <2>5, <2>6, <2>7 DEF Forgets
<1>8. CASE ApplyReset \/ ApplyRestore
  <2>1. /\ Reqs = {} /\ (\A w \in Windows : w # cur => pending[w] = Nothing)
        /\ user # NoUser => \E g \in Request : g.op = "clear" /\ g.user = user /\ Reqs' = Reqs \cup {g}
        /\ session' = NoPwd /\ pending' = [pending EXCEPT ![cur] = Nothing]
        /\ forgotten' = {user} \cap Users
    BY <1>2, <1>8, ForgetEffect
  <2>2. u = user /\ u \in Users /\ u # NoUser
    BY <1>1, <2>1
  <2>3. \A w \in Windows : pending'[w] = Nothing
    BY <1>1, <2>1
  <2>4. PICK g \in Request : g.op = "clear" /\ g.user = u /\ Reqs' = {g}
    BY <2>1, <2>2
  <2>5. \A r \in Reqs' : ForgetsReq(u, r)'
    BY <2>4 DEF ForgetsReq, LookupOps
  <2>6. \A w \in Windows : pending'[w].user # u
    BY <1>3, <2>2, <2>3
  <2>7. QED
    BY <2>1, <2>4, <2>5, <2>6 DEF Forgets
<1>16. CASE ApplyResetHalts \/ ApplyRestoreHalts
  <2>1. /\ Reqs = {} /\ (\A r \in Reqs' : r \in Reqs \/ (r.op = "clear" /\ r.pwd = NoPwd))
        /\ session' \in {session, NoPwd} /\ UNCHANGED <<keyring, pending, forgotten>>
    BY <1>2, <1>16, HaltEffect
  <2>2. Forgets(u) /\ keyring[u] = NoPwd
    BY <1>1, <2>1 DEF Forgets
  <2>3. \A r \in Reqs' : ForgetsReq(u, r)'
    BY <2>1 DEF ForgetsReq, LookupOps
  <2>4. QED
    BY <2>1, <2>2, <2>3 DEF Forgets
<1>9. CASE Quit
  <2>1. /\ requests' = <<>> /\ pending' = [w \in Windows |-> Nothing] /\ session' = NoPwd
        /\ ~InFlight({"store", "clear"}) /\ UNCHANGED <<keyring, forgotten>>
    BY <1>9 DEF Quit, Mishap
  <2>2. Reqs' = {} /\ \A r \in Reqs : r.op # "clear"
    BY <2>1 DEF Reqs, ReqsOf, InFlight
  <2>3. keyring[u] = NoPwd /\ u \in Users
    BY <1>1, <2>1, <2>2 DEF Forgets
  <2>4. \A w \in Windows : pending'[w].user # u
    BY <1>1, <1>3, <2>1, <2>3
  <2>5. QED
    BY <2>1, <2>2, <2>3, <2>4 DEF Forgets
<1>10. ASSUME NEW w \in Windows, FlushPassword(w) PROVE Forgets(u)'
  <2>1. PICK g \in Request :
             /\ g.op = "store" /\ g.user = pending[w].user /\ Reqs' = Reqs \cup {g}
             /\ pending' = [pending EXCEPT ![w] = Nothing]
             /\ UNCHANGED <<session, keyring, forgotten>>
    BY <1>10, FlushEffect DEF observers
  <2>2. Forgets(u) /\ u \in Users
    BY <1>1, <2>1
  <2>3. \A r \in Reqs' : ForgetsReq(u, r)'
    BY <2>1, <2>2 DEF Forgets, ForgetsReq
  <2>4. \A v \in Windows : pending'[v].user # u
    BY <1>1, <1>3, <2>1, <2>2 DEF Forgets
  <2>5. QED
    BY <2>1, <2>2, <2>3, <2>4 DEF Forgets
<1>11. ASSUME NEW i \in DOMAIN requests, Serve(i) PROVE Forgets(u)'
  <2>1. PICK r \in Reqs :
             /\ Reqs \subseteq Reqs' \cup {r}
             /\ \/ /\ r.op = "lookup" /\ UNCHANGED keyring
                   /\ \E g \in Request : /\ g.op = "answer" /\ g.user = r.user
                                         /\ g.pwd = keyring[r.user]
                                         /\ Reqs' \subseteq Reqs \cup {g}
                \/ /\ r.op \in {"store", "clear"} /\ Reqs' \subseteq Reqs
                   /\ keyring' = [keyring EXCEPT ![r.user] = r.pwd]
             /\ UNCHANGED <<session, pending, forgotten>>
    BY <1>11, ServeEffect DEF observers
  <2>2. Forgets(u) /\ u \in Users /\ r.user \in Users /\ ForgetsReq(u, r)
    BY <1>1, <2>1 DEF Forgets, Request
  <2>3. CASE r.op = "lookup"
    <3>1. UNCHANGED keyring /\ (r.user = u => keyring[u] = NoPwd)
      BY <2>1, <2>2, <2>3 DEF ForgetsReq, LookupOps
    <3>2. \A g \in Reqs' : ForgetsReq(u, g)'
      BY <2>1, <2>2, <2>3, <3>1 DEF Forgets, ForgetsReq
    <3>3. keyring[u] = NoPwd \/ \E g \in Reqs' : g.op = "clear" /\ g.user = u
      BY <2>1, <2>2, <2>3 DEF Forgets
    <3>4. QED
      BY <2>1, <2>2, <3>1, <3>2, <3>3 DEF Forgets
  <2>4. CASE r.op \in {"store", "clear"}
    <3>1. keyring' = [keyring EXCEPT ![r.user] = r.pwd] /\ Reqs' \subseteq Reqs
      BY <2>1, <2>4
    <3>2. r.user = u => r.pwd = NoPwd
      BY <2>2, <2>4 DEF ForgetsReq, TypeInv, Carried
    <3>3. /\ r.user = u => keyring'[u] = NoPwd
          /\ r.user # u => keyring'[u] = keyring[u]
      BY <1>1, <2>2, <3>1, <3>2
    <3>4. \A g \in Reqs' : ForgetsReq(u, g)'
      BY <2>2, <3>1, <3>3 DEF Forgets, ForgetsReq
    <3>5. keyring'[u] = NoPwd \/ \E g \in Reqs' : g.op = "clear" /\ g.user = u
      BY <2>1, <2>2, <3>3 DEF Forgets
    <3>6. QED
      BY <2>1, <2>2, <3>4, <3>5 DEF Forgets
  <2>5. QED
    BY <2>1, <2>3, <2>4
<1>12. ASSUME NEW i \in DOMAIN requests, Fail(i) PROVE Forgets(u)'
  <2>1. PICK r \in Reqs :
             /\ Reqs \subseteq Reqs' \cup {r}
             /\ \/ /\ r.op = "lookup"
                   /\ \E g \in Request : /\ g.op = "raised" /\ g.user = r.user
                                         /\ Reqs' \subseteq Reqs \cup {g}
                \/ r.op = "store" /\ Reqs' \subseteq Reqs
             /\ UNCHANGED <<session, keyring, pending, forgotten>>
    BY <1>12, FailEffect
  <2>2. Forgets(u) /\ ForgetsReq(u, r)
    BY <1>1, <2>1 DEF Forgets
  <2>3. \A g \in Reqs' : ForgetsReq(u, g)'
    BY <2>1, <2>2 DEF Forgets, ForgetsReq, LookupOps
  <2>4. keyring[u] = NoPwd \/ \E g \in Reqs' : g.op = "clear" /\ g.user = u
    BY <2>1, <2>2 DEF Forgets
  <2>5. QED
    BY <2>1, <2>2, <2>3, <2>4 DEF Forgets
<1>13. ASSUME NEW i \in DOMAIN requests, LookupDone(i) PROVE Forgets(u)'
  <2>1. PICK r \in Reqs :
             /\ r.op \in {"answer", "raised"} /\ r.win \in Windows
             /\ Reqs' \subseteq Reqs /\ Reqs \subseteq Reqs' \cup {r}
             /\ \/ UNCHANGED <<shown, session, pending>>
                \/ Found(r) \in Pwds /\ ProcessPassword(r.win, Found(r))
             /\ UNCHANGED <<user, keyring, cur, forgotten>>
    BY <1>13, DoneEffect DEF observers
  <2>2. Forgets(u) /\ u \in Users /\ ForgetsReq(u, r)
    BY <1>1, <2>1 DEF Forgets
  <2>3. \A g \in Reqs' : ForgetsReq(u, g)'
    BY <2>1, <2>2 DEF Forgets, ForgetsReq
  <2>4. keyring[u] = NoPwd \/ \E g \in Reqs' : g.op = "clear" /\ g.user = u
    BY <2>1, <2>2 DEF Forgets
  <2>5. CASE UNCHANGED <<shown, session, pending>>
    BY <2>1, <2>2, <2>3, <2>4, <2>5 DEF Forgets
  <2>6. CASE Found(r) \in Pwds /\ ProcessPassword(r.win, Found(r))
    <3>1. /\ user # NoUser /\ Owner[Found(r)] = user /\ r.user = user
          /\ Found(r) # NoPwd /\ Found(r) \in AnyPwd
      BY <1>1, <2>1, <2>6, FoundIsOwn DEF AnyPwd
    <3>2. /\ session' = Found(r) /\ pending'[r.win] = [user |-> user, pwd |-> Found(r)]
          /\ \A w \in Windows : w # r.win => pending'[w] = pending[w]
      BY <2>1, <2>6, <3>1, ProcessEffect
    <3>3. u # user
      BY <2>1, <2>2, <3>1 DEF Found, ForgetsReq, Forgets
    <3>4. \A w \in Windows : pending'[w].user # u
      BY <2>2, <3>2, <3>3 DEF Forgets
    <3>5. session' # NoPwd => Owner[session'] # u
      BY <3>1, <3>2, <3>3
    <3>6. QED
      BY <2>1, <2>3, <2>4, <3>4, <3>5 DEF Forgets
  <2>7. QED
    BY <2>1, <2>5, <2>6
<1>14. CASE UNCHANGED vars
  <2>1. UNCHANGED <<session, keyring, pending, requests, forgotten>>
    BY <1>14 DEF vars, observers
  <2>2. Reqs' = Reqs /\ Forgets(u)
    BY <1>1, <2>1 DEF Reqs
  <2>3. \A r \in Reqs' : ForgetsReq(u, r)'
    BY <2>1, <2>2 DEF Forgets, ForgetsReq
  <2>4. QED
    BY <2>1, <2>2, <2>3 DEF Forgets
<1>15. QED
  BY <1>4, <1>5, <1>6, <1>7, <1>8, <1>9, <1>10, <1>11, <1>12, <1>13, <1>14, <1>16
     DEF Next, User, System

LEMMA SettledForgets == ForgetInv => ResetForgets
<1> SUFFICES ASSUME ForgetInv, Settled, mishaps \subseteq {"store", "lookup", "halted"}, NEW u \in forgotten
             PROVE  keyring[u] = NoPwd
  BY DEF ResetForgets
<1>1. Reqs = {} /\ Forgets(u)
  BY DEF Settled, Reqs, ReqsOf, ForgetInv
<1>2. QED
  BY <1>1 DEF Forgets

(* After a finished reset or restore the password of the user it was made  *)
(* for is gone once all is settled and stays so until one is typed for him *)
(* again (settings_window.py, _apply_reset, _apply_restore,                *)
(* _clear_persisted_password, on_password_lookup), also when stores or     *)
(* lookups fail and when later resets or restores raise halfway.  Assumed, *)
(* as the property says: no clearing fails, the user overtakes no lookup,  *)
(* store or clearing, and no failed lookup borrows another user's password.*)
THEOREM ResetIsForgotten == Spec => []ResetForgets
BY InitType, NextType, InitOwn, NextOwn, InitForget, NextForget, SettledForgets, PTL DEF Spec
=============================================================================
