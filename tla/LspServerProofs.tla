--------------------------- MODULE LspServerProofs ---------------------------
(***************************************************************************)
(* Theorems about the language server, for any number of documents and of  *)
(* messages.                                                               *)
(*                                                                         *)
(* Both streams are queues that are read at the front and written at the   *)
(* back. Two things are carried along them: the ids of requests and of     *)
(* responses, which form one interval cut into what was read, what was     *)
(* answered and what was asked; and the texts, which the receiver gets by  *)
(* replaying what is on its way over what it already has.                  *)
(***************************************************************************)
EXTENDS LspServer, TLAPS

AskTypes == Requests \cup {"shutdown", "exit_request", "bad_envelope"}
DocTypes == {"textDocument/didOpen", "textDocument/didChange", "textDocument/didClose",
             "publishDiagnostics"}

\* The places in a stream of the messages of some types, and their ids.
Places(q, T) == {i \in DOMAIN q : q[i].type \in T}
IdsOn(q, T) == {q[i].id : i \in Places(q, T)}
Rising(q, T) == \A i, j \in Places(q, T) : i < j => q[i].id < q[j].id

\* A message that sets the text of u, and the text it sets.
Sets(m, u) == m.type \in DocTypes /\ m.uri = u
TextOf(m) == IF m.type = "textDocument/didClose" THEN 0 ELSE m.text

\* Replaying the first n messages of q over the text s of u leaves t.
Leaves(q, n, u, s, t) ==
  \/ s = t /\ \A j \in 1..n : ~Sets(q[j], u)
  \/ \E j \in 1..n : /\ Sets(q[j], u) /\ TextOf(q[j]) = t
                     /\ \A l \in (j + 1)..n : ~Sets(q[l], u)
----------------------------------------------------------------------------
\* What appending a message does to a stream.
LEMMA AppendFacts ==
  ASSUME NEW S, NEW q \in Seq(S), NEW m \in S
  PROVE  /\ Append(q, m) \in Seq(S) /\ Len(Append(q, m)) = Len(q) + 1 /\ Len(q) \in Nat
         /\ DOMAIN q = 1..Len(q) /\ DOMAIN Append(q, m) = 1..(Len(q) + 1)
         /\ \A i \in 1..Len(q) : Append(q, m)[i] = q[i]
         /\ Append(q, m)[Len(q) + 1] = m
         /\ \A i \in 1..(Len(q) + 1) : i \in 1..Len(q) \/ i = Len(q) + 1
         /\ \A i \in 1..Len(q) : i \in 1..(Len(q) + 1) /\ i < Len(q) + 1
         /\ Len(q) + 1 \in 1..(Len(q) + 1)
<1>1. /\ Append(q, m) \in Seq(S) /\ Len(Append(q, m)) = Len(q) + 1 /\ Len(q) \in Nat
      /\ DOMAIN q = 1..Len(q) /\ DOMAIN Append(q, m) = 1..(Len(q) + 1)
      /\ \A i \in 1..Len(q) : Append(q, m)[i] = q[i]
      /\ Append(q, m)[Len(q) + 1] = m
  OBVIOUS
<1>2. ASSUME NEW n \in Nat
      PROVE  /\ \A i \in 1..(n + 1) : i \in 1..n \/ i = n + 1
             /\ \A i \in 1..n : i \in 1..(n + 1) /\ i < n + 1
             /\ n + 1 \in 1..(n + 1)
  OBVIOUS
<1> QED BY <1>1, <1>2

\* What reading a message does to a stream.
LEMMA TailFacts ==
  ASSUME NEW S, NEW q \in Seq(S), q /= <<>>
  PROVE  /\ Tail(q) \in Seq(S) /\ Len(Tail(q)) = Len(q) - 1 /\ Len(q) \in Nat /\ Len(q) >= 1
         /\ Head(q) \in S /\ Head(q) = q[1]
         /\ DOMAIN q = 1..Len(q) /\ DOMAIN Tail(q) = 1..(Len(q) - 1)
         /\ \A i \in 1..(Len(q) - 1) : Tail(q)[i] = q[i + 1]
         /\ 1 \in 1..Len(q)
         /\ \A i \in 1..Len(q) : i = 1 \/ (i - 1 \in 1..(Len(q) - 1) /\ q[i] = Tail(q)[i - 1])
         /\ \A i \in 1..(Len(q) - 1) : i + 1 \in 1..Len(q) /\ 1 < i + 1
<1>1. /\ Tail(q) \in Seq(S) /\ Len(Tail(q)) = Len(q) - 1 /\ Len(q) \in Nat /\ Len(q) >= 1
      /\ Head(q) \in S /\ Head(q) = q[1]
      /\ DOMAIN q = 1..Len(q) /\ DOMAIN Tail(q) = 1..(Len(q) - 1)
      /\ \A i \in 1..(Len(q) - 1) : Tail(q)[i] = q[i + 1]
  OBVIOUS
<1>2. ASSUME NEW n \in Nat, n >= 1
      PROVE  /\ 1 \in 1..n
             /\ \A i \in 1..n : i = 1 \/ (i - 1 \in 1..(n - 1) /\ (i - 1) + 1 = i)
             /\ \A i \in 1..(n - 1) : i + 1 \in 1..n /\ 1 < i + 1
  BY <1>2
<1>3. \A i \in 1..Len(q) : i = 1 \/ (i - 1 \in 1..(Len(q) - 1) /\ (i - 1) + 1 = i)
  BY <1>1, <1>2
<1>4. \A i \in 1..Len(q) : i = 1 \/ (i - 1 \in 1..(Len(q) - 1) /\ q[i] = Tail(q)[i - 1])
  BY <1>1, <1>3
<1> QED BY <1>1, <1>2, <1>4
----------------------------------------------------------------------------
LEMMA IdsAppend ==
  ASSUME NEW S, NEW q \in Seq(S), NEW m \in S, NEW T
  PROVE  /\ m.type \in T => IdsOn(Append(q, m), T) = IdsOn(q, T) \cup {m.id}
         /\ m.type \notin T => IdsOn(Append(q, m), T) = IdsOn(q, T)
         /\ Rising(q, T) /\ (m.type \in T => \A x \in IdsOn(q, T) : x < m.id)
              => Rising(Append(q, m), T)
<1> DEFINE a == Append(q, m)
           n == Len(q)
<1>1. /\ n \in Nat /\ DOMAIN q = 1..n /\ DOMAIN a = 1..(n + 1)
      /\ \A i \in 1..n : a[i] = q[i]
      /\ a[n + 1] = m
      /\ \A i \in 1..(n + 1) : i \in 1..n \/ i = n + 1
      /\ \A i \in 1..n : i \in 1..(n + 1) /\ i < n + 1
      /\ n + 1 \in 1..(n + 1)
  BY AppendFacts
<1> HIDE DEF a, n
<1>2. /\ \A i \in Places(q, T) : i \in Places(a, T) /\ a[i] = q[i] /\ i \in 1..n
      /\ \A i \in Places(a, T) : i \in Places(q, T) \/ (i = n + 1 /\ m.type \in T)
      /\ m.type \in T => n + 1 \in Places(a, T)
  BY <1>1 DEF Places
<1>3. m.type \in T => IdsOn(a, T) = IdsOn(q, T) \cup {m.id}
  BY <1>1, <1>2 DEF IdsOn
<1>4. m.type \notin T => IdsOn(a, T) = IdsOn(q, T)
  BY <1>2 DEF IdsOn
<1>5. ASSUME Rising(q, T), m.type \in T => \A x \in IdsOn(q, T) : x < m.id
      PROVE  Rising(a, T)
  <2> SUFFICES ASSUME NEW i \in Places(a, T), NEW j \in Places(a, T), i < j
               PROVE  a[i].id < a[j].id
    BY DEF Rising
  <2>1. i \in 1..(n + 1) /\ j \in 1..(n + 1)
    BY <1>1 DEF Places
  <2>2. i \in Places(q, T)
    BY <1>1, <1>2, <2>1
  <2>3. CASE j \in Places(q, T)
    BY <1>2, <1>5, <2>2, <2>3 DEF Rising
  <2>4. CASE j = n + 1 /\ m.type \in T
    <3>1. a[i].id \in IdsOn(q, T)
      BY <1>2, <2>2 DEF IdsOn
    <3> QED BY <1>1, <1>5, <2>4, <3>1
  <2> QED BY <1>2, <2>3, <2>4
<1> QED BY <1>3, <1>4, <1>5 DEF a

LEMMA IdsTail ==
  ASSUME NEW S, NEW q \in Seq(S), q /= <<>>, NEW T, Rising(q, T)
  PROVE  /\ Rising(Tail(q), T)
         /\ Head(q).type \in T => /\ IdsOn(q, T) = IdsOn(Tail(q), T) \cup {Head(q).id}
                                  /\ \A x \in IdsOn(Tail(q), T) : Head(q).id < x
         /\ Head(q).type \notin T => IdsOn(q, T) = IdsOn(Tail(q), T)
<1> DEFINE t == Tail(q)
           n == Len(q)
<1>1. /\ n \in Nat /\ n >= 1 /\ Head(q) = q[1]
      /\ DOMAIN q = 1..n /\ DOMAIN t = 1..(n - 1)
      /\ \A i \in 1..(n - 1) : t[i] = q[i + 1]
      /\ 1 \in 1..n
      /\ \A i \in 1..n : i = 1 \/ (i - 1 \in 1..(n - 1) /\ q[i] = t[i - 1])
      /\ \A i \in 1..(n - 1) : i + 1 \in 1..n /\ 1 < i + 1
  BY TailFacts
<1> HIDE DEF t, n
<1>2. /\ \A i \in Places(t, T) : i + 1 \in Places(q, T) /\ t[i] = q[i + 1] /\ 1 < i + 1 /\ i \in Int
      /\ \A i \in Places(q, T) : (i = 1 /\ Head(q).type \in T) \/ (i - 1 \in Places(t, T) /\ q[i] = t[i - 1])
      /\ Head(q).type \in T => 1 \in Places(q, T)
  BY <1>1 DEF Places
<1>3. Rising(t, T)
  <2> SUFFICES ASSUME NEW i \in Places(t, T), NEW j \in Places(t, T), i < j
               PROVE  t[i].id < t[j].id
    BY DEF Rising
  <2>1. i + 1 < j + 1
    BY <1>2
  <2> QED BY <1>2, <2>1 DEF Rising
<1>4. \A x \in IdsOn(t, T) : x \in IdsOn(q, T)
  BY <1>2 DEF IdsOn
<1>5. \A x \in IdsOn(q, T) : x \in IdsOn(t, T) \/ (Head(q).type \in T /\ x = Head(q).id)
  BY <1>1, <1>2 DEF IdsOn
<1>6. Head(q).type \in T => Head(q).id \in IdsOn(q, T) /\ \A x \in IdsOn(t, T) : Head(q).id < x
  BY <1>1, <1>2 DEF IdsOn, Rising
<1> QED BY <1>3, <1>4, <1>5, <1>6 DEF t
----------------------------------------------------------------------------
LEMMA LeavesAppend ==
  ASSUME NEW S, NEW q \in Seq(S), NEW m \in S, NEW u, NEW s, NEW t
  PROVE  /\ \A n \in 0..Len(q) : Leaves(q, n, u, s, t) => Leaves(Append(q, m), n, u, s, t)
         /\ Sets(m, u) => Leaves(Append(q, m), Len(q) + 1, u, s, TextOf(m))
         /\ ~Sets(m, u) /\ Leaves(q, Len(q), u, s, t) => Leaves(Append(q, m), Len(q) + 1, u, s, t)
<1> DEFINE a == Append(q, m)
           k == Len(q)
<1>1. /\ k \in Nat /\ \A i \in 1..k : a[i] = q[i]
      /\ a[k + 1] = m
  BY AppendFacts
<1> HIDE DEF a, k
<1>2. ASSUME NEW n \in 0..k, Leaves(q, n, u, s, t) PROVE Leaves(a, n, u, s, t)
  <2>1. \A i \in 1..n : a[i] = q[i]
    BY <1>1
  <2>2. CASE s = t /\ \A j \in 1..n : ~Sets(q[j], u)
    BY <2>1, <2>2 DEF Leaves
  <2>3. ASSUME NEW j \in 1..n, Sets(q[j], u), TextOf(q[j]) = t,
               \A l \in (j + 1)..n : ~Sets(q[l], u)
        PROVE  Leaves(a, n, u, s, t)
    <3>1. \A l \in (j + 1)..n : l \in 1..n
      OBVIOUS
    <3>2. Sets(a[j], u) /\ TextOf(a[j]) = t /\ \A l \in (j + 1)..n : ~Sets(a[l], u)
      BY <2>1, <2>3, <3>1
    <3> QED BY <3>2 DEF Leaves
  <2> QED BY <1>2, <2>2, <2>3 DEF Leaves
<1>3. ASSUME Sets(m, u) PROVE Leaves(a, k + 1, u, s, TextOf(m))
  <2>1. k + 1 \in 1..(k + 1) /\ \A l \in ((k + 1) + 1)..(k + 1) : FALSE
    BY <1>1
  <2> QED BY <1>1, <1>3, <2>1 DEF Leaves
<1>4. ASSUME ~Sets(m, u), Leaves(q, k, u, s, t) PROVE Leaves(a, k + 1, u, s, t)
  <2>0. \A l \in 1..(k + 1) : l \in 1..k \/ l = k + 1
    BY <1>1
  <2>1. CASE s = t /\ \A j \in 1..k : ~Sets(q[j], u)
    BY <1>1, <1>4, <2>0, <2>1 DEF Leaves
  <2>2. ASSUME NEW j \in 1..k, Sets(q[j], u), TextOf(q[j]) = t,
               \A l \in (j + 1)..k : ~Sets(q[l], u)
        PROVE  Leaves(a, k + 1, u, s, t)
    <3>1. j \in 1..(k + 1) /\ \A l \in (j + 1)..(k + 1) : (l \in (j + 1)..k /\ l \in 1..k) \/ l = k + 1
      BY <1>1
    <3>2. Sets(a[j], u) /\ TextOf(a[j]) = t /\ \A l \in (j + 1)..(k + 1) : ~Sets(a[l], u)
      BY <1>1, <1>4, <2>2, <3>1
    <3> QED BY <3>1, <3>2 DEF Leaves
  <2> QED BY <1>4, <2>1, <2>2 DEF Leaves
<1> QED BY <1>2, <1>3, <1>4 DEF a, k

\* The text the receiver has once it has read the front of the stream.
Replayed(m, u, s) == IF Sets(m, u) THEN TextOf(m) ELSE s

LEMMA LeavesTail ==
  ASSUME NEW S, NEW q \in Seq(S), q /= <<>>, NEW u, NEW s, NEW t,
         NEW n \in 1..Len(q), Leaves(q, n, u, s, t)
  PROVE  Leaves(Tail(q), n - 1, u, Replayed(Head(q), u, s), t)
<1> DEFINE r == Tail(q)
           k == Len(q)
<1>1. /\ k \in Nat /\ k >= 1 /\ Head(q) = q[1]
      /\ \A i \in 1..(k - 1) : r[i] = q[i + 1]
      /\ \A i \in 1..k : i = 1 \/ (i - 1 \in 1..(k - 1) /\ q[i] = r[i - 1])
  BY TailFacts
<1>2. n \in 1..k
  OBVIOUS
<1> HIDE DEF r, k
<1>3. \A i \in 1..(n - 1) : r[i] = q[i + 1] /\ i + 1 \in 1..n
  BY <1>1, <1>2
<1>4. CASE s = t /\ \A j \in 1..n : ~Sets(q[j], u)
  <2>1. ~Sets(q[1], u) /\ \A i \in 1..(n - 1) : ~Sets(r[i], u)
    BY <1>2, <1>3, <1>4
  <2> QED BY <1>1, <1>4, <2>1 DEF Leaves, Replayed, r
<1>5. ASSUME NEW j \in 1..n, Sets(q[j], u), TextOf(q[j]) = t,
             \A l \in (j + 1)..n : ~Sets(q[l], u)
      PROVE  Leaves(r, n - 1, u, Replayed(q[1], u, s), t)
  <2>1. CASE j = 1
    <3>1. \A i \in 1..(n - 1) : ~Sets(r[i], u)
      <4>1. \A i \in 1..(n - 1) : i + 1 \in (j + 1)..n
        BY <1>2, <2>1
      <4> QED BY <1>3, <1>5, <4>1
    <3> QED BY <1>5, <2>1, <3>1 DEF Leaves, Replayed
  <2>2. CASE j /= 1
    <3>1. j - 1 \in 1..(n - 1) /\ r[j - 1] = q[j]
      BY <1>1, <1>2, <2>2
    <3>2. \A l \in ((j - 1) + 1)..(n - 1) : ~Sets(r[l], u)
      <4>1. \A l \in ((j - 1) + 1)..(n - 1) : l + 1 \in (j + 1)..n /\ l \in 1..(n - 1)
        BY <1>2, <2>2
      <4> QED BY <1>3, <1>5, <4>1
    <3> QED BY <1>5, <3>1, <3>2 DEF Leaves
  <2> QED BY <2>1, <2>2
<1> QED BY <1>1, <1>4, <1>5 DEF Leaves, r

\* Nothing is left to replay.
LEMMA LeavesNothing ==
  ASSUME NEW q, NEW u, NEW s, NEW t, Leaves(q, 0, u, s, t)
  PROVE  s = t
BY DEF Leaves
----------------------------------------------------------------------------
(***************************************************************************)
(* The inductive invariant.                                                *)
(***************************************************************************)
Texts == 0..MaxSends
PlainTypes == {"ignored", "not_json", "bad_header", "exit", "eof", "cut"}
InMessages ==
  [type : {"textDocument/didOpen", "textDocument/didChange"}, uri : Uris, text : Texts]
    \cup [type : {"textDocument/didClose"}, uri : Uris]
    \cup [type : AskTypes, id : Nat] \cup [type : PlainTypes]
Seen == UNION {[D -> Texts] : D \in SUBSET Uris}
OutMessages ==
  [type : {"response"}, id : Nat, result : ResultKinds, saw : Seen]
    \cup [type : {"publishDiagnostics"}, uri : Uris, text : Texts]
    \cup [type : {"parse_error"}]

\* The state has its types.
Shape ==
  /\ documents \in [Uris -> Texts] /\ shutting_down \in BOOLEAN
  /\ status \in {"running", "ended", "failed", "panicked"}
  /\ inbox \in Seq(InMessages) /\ outbox \in Seq(OutMessages)
  /\ editor \in [Uris -> Texts] /\ markers \in [Uris -> Texts]
  /\ asked \in Seq([Uris -> Texts]) /\ answers \in Seq(Nat) /\ sends \in Texts

\* The server has answered the first k requests: the client has read the answers
\* to the first of them, the others are on their way, and the requests after the
\* k-th are waiting.
AnsweredUpTo(k) ==
  /\ k <= Len(asked) /\ Len(answers) <= k
  /\ IdsOn(outbox, {"response"}) = (Len(answers) + 1)..k
  /\ status = "running" => IdsOn(inbox, AskTypes) = (k + 1)..Len(asked)

InOrder ==
  /\ \A i \in DOMAIN answers : answers[i] = i
  /\ Rising(outbox, {"response"})
  /\ status = "running" => Rising(inbox, AskTypes)
  /\ \E k \in Nat : AnsweredUpTo(k)

\* A response saw the texts of the request.
Truthful(m) == \A u \in DOMAIN m.saw : m.saw[u] = asked[m.id][u]
AllTruthful == \A i \in Places(outbox, {"response"}) : Truthful(outbox[i])

\* Replaying what waits for the server over its documents gives the editor's
\* texts, and up to a request the texts it was asked about.
Follows(u) ==
  /\ Leaves(inbox, Len(inbox), u, documents[u], editor[u])
  /\ \A i \in Places(inbox, AskTypes) :
       Leaves(inbox, i - 1, u, documents[u], asked[inbox[i].id][u])
InFollows == status = "running" => \A u \in Uris : Follows(u)

\* Replaying what waits for the client over its markers gives the server's texts.
OutFollows ==
  status = "running" =>
    \A u \in Uris : Leaves(outbox, Len(outbox), u, markers[u], documents[u])

LspInv == Shape /\ InOrder /\ AllTruthful /\ InFollows /\ OutFollows

LEMMA InFacts ==
  ASSUME NEW m \in InMessages
  PROVE  /\ m.type \in AskTypes => m.id \in Nat /\ m.type \notin DocTypes
         /\ m.type \in DocTypes => m.uri \in Uris /\ TextOf(m) \in Texts /\ m.type \notin AskTypes
         /\ m.type \in PlainTypes => m.type \notin DocTypes /\ m.type \notin AskTypes
<1>1. CASE m \in [type : {"textDocument/didOpen", "textDocument/didChange"}, uri : Uris, text : Texts]
  BY <1>1 DEF AskTypes, Requests, DocTypes, PlainTypes, TextOf
<1>2. CASE m \in [type : {"textDocument/didClose"}, uri : Uris]
  <2>1. 0 \in Texts
    BY LspAssumption DEF Texts
  <2> QED BY <1>2, <2>1 DEF AskTypes, Requests, DocTypes, PlainTypes, TextOf
<1>3. CASE m \in [type : AskTypes, id : Nat]
  BY <1>3 DEF AskTypes, Requests, DocTypes, PlainTypes
<1>4. CASE m \in [type : PlainTypes]
  BY <1>4 DEF AskTypes, Requests, DocTypes, PlainTypes
<1> QED BY <1>1, <1>2, <1>3, <1>4 DEF InMessages

LEMMA OutFacts ==
  ASSUME NEW m \in OutMessages
  PROVE  /\ m.type = "response" => /\ m.id \in Nat /\ m.type \notin DocTypes
                                   /\ m.result \in ResultKinds
         /\ m.type \in DocTypes => /\ m.uri \in Uris /\ m.text \in Texts /\ TextOf(m) = m.text
                                   /\ m.type = "publishDiagnostics"
         /\ m.type = "publishDiagnostics" => m.type \in DocTypes
<1>1. CASE m \in [type : {"response"}, id : Nat, result : ResultKinds, saw : Seen]
  BY <1>1 DEF DocTypes
<1>2. CASE m \in [type : {"publishDiagnostics"}, uri : Uris, text : Texts]
  BY <1>2 DEF DocTypes, TextOf
<1>3. CASE m \in [type : {"parse_error"}]
  BY <1>3 DEF DocTypes
<1> QED BY <1>1, <1>2, <1>3 DEF OutMessages

LEMMA InitInv == Init => LspInv
<1> SUFFICES ASSUME Init PROVE LspInv
  OBVIOUS
<1>0. Closed \in [Uris -> Texts] /\ 0 \in Texts
  BY LspAssumption DEF Closed, Texts
<1>1. Shape
  <2>1. /\ inbox \in Seq(InMessages) /\ outbox \in Seq(OutMessages)
        /\ asked \in Seq([Uris -> Texts]) /\ answers \in Seq(Nat)
    BY DEF Init
  <2>2. /\ documents \in [Uris -> Texts] /\ editor \in [Uris -> Texts]
        /\ markers \in [Uris -> Texts] /\ sends \in Texts
        /\ shutting_down \in BOOLEAN /\ status \in {"running", "ended", "failed", "panicked"}
    BY <1>0, Zenon DEF Init
  <2> QED BY <2>1, <2>2 DEF Shape
<1>2. /\ Places(inbox, AskTypes) = {} /\ Places(outbox, {"response"}) = {}
      /\ Len(inbox) = 0 /\ Len(outbox) = 0 /\ Len(asked) = 0 /\ Len(answers) = 0
  BY DEF Init, Places
<1>3. InOrder
  <2>1. IdsOn(inbox, AskTypes) = {} /\ IdsOn(outbox, {"response"}) = {}
    BY <1>2 DEF IdsOn
  <2>2. AnsweredUpTo(0)
    BY <1>2, <2>1 DEF AnsweredUpTo
  <2>3. Rising(inbox, AskTypes) /\ Rising(outbox, {"response"})
    BY <1>2 DEF Rising
  <2> QED BY <2>2, <2>3 DEF Init, InOrder
<1>4. AllTruthful
  BY <1>2 DEF AllTruthful
<1>5. \A u \in Uris : documents[u] = 0 /\ editor[u] = 0 /\ markers[u] = 0
  BY DEF Init, Closed
<1>51. \A q, u : Leaves(q, 0, u, 0, 0)
  <2>1. 1..0 = {}
    OBVIOUS
  <2> QED BY <2>1, Zenon DEF Leaves
<1>6. InFollows
  BY <1>2, <1>5, <1>51 DEF InFollows, Follows
<1>7. OutFollows
  BY <1>2, <1>5, <1>51 DEF OutFollows
<1> QED BY <1>1, <1>3, <1>4, <1>6, <1>7 DEF LspInv
----------------------------------------------------------------------------
(***************************************************************************)
(* The client sends a message.                                             *)
(***************************************************************************)
LEMMA SendStep ==
  ASSUME LspInv, NEW m \in InMessages, Send(m),
         editor' \in [Uris -> Texts],
         \A u \in Uris : editor'[u] = Replayed(m, u, editor[u]),
         \/ m.type \in AskTypes /\ m.id = Len(asked) + 1 /\ asked' = Append(asked, editor)
         \/ m.type \notin AskTypes /\ asked' = asked
  PROVE  LspInv'
<1>0. Shape /\ InOrder /\ AllTruthful /\ InFollows /\ OutFollows
  BY DEF LspInv
<1>1. /\ sends < MaxSends /\ sends' = sends + 1
      /\ inbox' = Append(inbox, m)
      /\ documents' = documents /\ shutting_down' = shutting_down /\ status' = status
      /\ outbox' = outbox /\ markers' = markers /\ answers' = answers
  BY DEF Send, server
<1>2. /\ inbox \in Seq(InMessages) /\ inbox' \in Seq(InMessages) /\ asked \in Seq([Uris -> Texts])
      /\ editor \in [Uris -> Texts] /\ Len(asked) \in Nat /\ Len(inbox) \in Nat
      /\ Len(inbox') = Len(inbox) + 1
  BY <1>0, <1>1, AppendFacts DEF Shape
<1>3. /\ asked' \in Seq([Uris -> Texts]) /\ Len(asked') \in Nat /\ Len(asked') >= Len(asked)
      /\ \A i \in 1..Len(asked) : asked'[i] = asked[i]
      /\ m.type \in AskTypes => /\ Len(asked') = Len(asked) + 1
                                /\ asked'[Len(asked) + 1] = editor /\ m.id = Len(asked) + 1
      /\ m.type \notin AskTypes => asked' = asked
  <2>1. CASE m.type \in AskTypes /\ m.id = Len(asked) + 1 /\ asked' = Append(asked, editor)
    BY <1>2, <2>1
  <2>2. CASE m.type \notin AskTypes /\ asked' = asked
    BY <1>2, <2>2
  <2> QED BY <2>1, <2>2
<1>4. PICK k \in Nat : AnsweredUpTo(k)
  BY <1>0 DEF InOrder
<1>5. Shape'
  <2>1. sends' \in Texts
    BY <1>0, <1>1, LspAssumption DEF Shape, Texts
  <2> QED BY <1>0, <1>1, <1>2, <1>3, <2>1 DEF Shape
<1>6. ASSUME status = "running"
      PROVE  /\ IdsOn(inbox, AskTypes) = (k + 1)..Len(asked) /\ Rising(inbox, AskTypes)
             /\ IdsOn(inbox', AskTypes) = (k + 1)..Len(asked') /\ Rising(inbox', AskTypes)
  <2>1. IdsOn(inbox, AskTypes) = (k + 1)..Len(asked) /\ Rising(inbox, AskTypes)
        /\ k <= Len(asked)
    BY <1>0, <1>4, <1>6 DEF AnsweredUpTo, InOrder
  <2>2. CASE m.type \in AskTypes
    <3>1. \A x \in IdsOn(inbox, AskTypes) : x < m.id
      BY <1>2, <1>3, <2>1, <2>2
    <3>2. /\ IdsOn(inbox', AskTypes) = IdsOn(inbox, AskTypes) \cup {Len(asked) + 1}
          /\ Rising(inbox', AskTypes)
      BY <1>1, <1>2, <1>3, <2>1, <2>2, <3>1, IdsAppend
    <3>3. ((k + 1)..Len(asked)) \cup {Len(asked) + 1} = (k + 1)..(Len(asked) + 1)
      BY <1>2, <2>1
    <3> QED BY <1>3, <2>1, <2>2, <3>2, <3>3
  <2>3. CASE m.type \notin AskTypes
    BY <1>1, <1>2, <1>3, <2>1, <2>3, IdsAppend
  <2> QED BY <2>1, <2>2, <2>3
<1>7. InOrder'
  <2>1. AnsweredUpTo(k)'
    <3>1. k <= Len(asked')
      BY <1>2, <1>3, <1>4 DEF AnsweredUpTo
    <3> QED BY <1>1, <1>4, <1>6, <3>1 DEF AnsweredUpTo
  <2> QED BY <1>0, <1>1, <1>6, <2>1 DEF InOrder
<1>8. AllTruthful'
  <2> SUFFICES ASSUME NEW i \in Places(outbox, {"response"}) PROVE Truthful(outbox[i])'
    BY <1>1 DEF AllTruthful
  <2>1. outbox[i].id \in IdsOn(outbox, {"response"})
    BY DEF IdsOn
  <2>2. outbox[i].id \in 1..Len(asked)
    <3>1. IdsOn(outbox, {"response"}) = (Len(answers) + 1)..k /\ k <= Len(asked)
          /\ Len(answers) \in Nat
      BY <1>0, <1>4 DEF AnsweredUpTo, Shape
    <3> QED BY <1>2, <2>1, <3>1
  <2>3. Truthful(outbox[i])
    BY <1>0 DEF AllTruthful
  <2> QED BY <1>1, <1>3, <2>2, <2>3 DEF Truthful
<1>9. InFollows'
  <2> SUFFICES ASSUME status = "running", NEW u \in Uris PROVE Follows(u)'
    BY <1>1 DEF InFollows
  <2>1. Follows(u)
    BY <1>0 DEF InFollows
  <2>2. Leaves(inbox', Len(inbox'), u, documents'[u], editor'[u])
    <3>1. Leaves(inbox, Len(inbox), u, documents[u], editor[u])
      BY <2>1 DEF Follows
    <3>2. CASE Sets(m, u)
      <4>1. Leaves(Append(inbox, m), Len(inbox) + 1, u, documents[u], TextOf(m))
        BY <1>2, <3>2, LeavesAppend
      <4> QED BY <1>1, <1>2, <3>2, <4>1 DEF Replayed
    <3>3. CASE ~Sets(m, u)
      <4>1. Leaves(Append(inbox, m), Len(inbox) + 1, u, documents[u], editor[u])
        BY <1>2, <3>1, <3>3, LeavesAppend
      <4> QED BY <1>1, <1>2, <3>3, <4>1 DEF Replayed
    <3> QED BY <3>2, <3>3
  <2>3. ASSUME NEW i \in Places(inbox', AskTypes)
        PROVE  Leaves(inbox', i - 1, u, documents'[u], asked'[inbox'[i].id][u])
    <3>0. /\ DOMAIN inbox' = 1..(Len(inbox) + 1) /\ DOMAIN inbox = 1..Len(inbox)
          /\ \A j \in 1..Len(inbox) : inbox'[j] = inbox[j]
          /\ inbox'[Len(inbox) + 1] = m
          /\ \A j \in 1..(Len(inbox) + 1) : j \in 1..Len(inbox) \/ j = Len(inbox) + 1
      BY <1>1, <1>2, AppendFacts
    <3>1. i \in 1..(Len(inbox) + 1) /\ inbox'[i].type \in AskTypes
      BY <3>0 DEF Places
    <3>2. CASE i \in 1..Len(inbox)
      <4>1. i \in Places(inbox, AskTypes) /\ inbox'[i] = inbox[i]
        BY <3>0, <3>1, <3>2 DEF Places
      <4>2. inbox[i].id \in 1..Len(asked)
        <5>1. inbox[i].id \in (k + 1)..Len(asked)
          BY <1>6, <4>1 DEF IdsOn
        <5> QED BY <1>2, <5>1
      <4>3. Leaves(inbox, i - 1, u, documents[u], asked[inbox[i].id][u])
        BY <2>1, <4>1 DEF Follows
      <4>4. i - 1 \in 0..Len(inbox)
        BY <1>2, <3>2
      <4>5. Leaves(inbox', i - 1, u, documents[u], asked[inbox[i].id][u])
        BY <1>1, <1>2, <4>3, <4>4, LeavesAppend
      <4> QED BY <1>1, <1>3, <4>1, <4>2, <4>5
    <3>3. CASE i = Len(inbox) + 1
      <4>1. m.type \in AskTypes /\ inbox'[i] = m
        BY <3>0, <3>1, <3>3
      <4>2. asked'[inbox'[i].id][u] = editor[u]
        BY <1>3, <4>1
      <4>3. Leaves(inbox, Len(inbox), u, documents[u], editor[u]) /\ Len(inbox) \in 0..Len(inbox)
        BY <1>2, <2>1 DEF Follows
      <4>4. Leaves(inbox', Len(inbox), u, documents[u], editor[u])
        BY <1>1, <1>2, <4>3, LeavesAppend
      <4>5. i - 1 = Len(inbox)
        BY <1>2, <3>3
      <4> QED BY <1>1, <4>2, <4>4, <4>5
    <3> QED BY <3>0, <3>1, <3>2, <3>3
  <2> QED BY <2>2, <2>3 DEF Follows
<1>10. OutFollows'
  BY <1>0, <1>1 DEF OutFollows
<1> QED BY <1>5, <1>7, <1>8, <1>9, <1>10 DEF LspInv
----------------------------------------------------------------------------
(***************************************************************************)
(* The server takes up a message.                                          *)
(***************************************************************************)

\* What it writes for the message h.
Matches(h, w) ==
  \/ /\ h.type \in AskTypes /\ w.type = "response" /\ w.id = h.id
     /\ \A u \in DOMAIN w.saw : u \in Uris /\ w.saw[u] = documents[u]
  \/ /\ h.type \in DocTypes /\ w.type = "publishDiagnostics"
     /\ w.uri = h.uri /\ w.text = TextOf(h)
  \/ h.type \in PlainTypes /\ w.type = "parse_error"

LEMMA ServeStep ==
  ASSUME LspInv, status = "running", inbox /= <<>>, inbox' = Tail(inbox), UNCHANGED client,
         documents' \in [Uris -> Texts],
         \A u \in Uris : documents'[u] = Replayed(Head(inbox), u, documents[u]),
         shutting_down' \in BOOLEAN,
         \/ status' \in {"ended", "failed", "panicked"} /\ outbox' = outbox
         \/ status' = "running" /\ outbox' = outbox /\ Head(inbox).type \in PlainTypes
         \/ /\ status' = "running"
            /\ \E w \in OutMessages : outbox' = Append(outbox, w) /\ Matches(Head(inbox), w)
  PROVE  LspInv'
<1> DEFINE h == Head(inbox)
<1>0. Shape /\ InOrder /\ AllTruthful /\ InFollows /\ OutFollows
  BY DEF LspInv
<1>1. /\ editor' = editor /\ markers' = markers /\ asked' = asked /\ answers' = answers
      /\ sends' = sends
  BY DEF client
<1>2. /\ inbox \in Seq(InMessages) /\ outbox \in Seq(OutMessages) /\ Len(asked) \in Nat
      /\ Len(answers) \in Nat /\ h \in InMessages /\ inbox' \in Seq(InMessages)
      /\ Len(inbox) \in Nat /\ Len(inbox) >= 1 /\ Len(inbox') = Len(inbox) - 1
      /\ Len(outbox) \in Nat /\ h = inbox[1] /\ DOMAIN inbox = 1..Len(inbox)
      /\ DOMAIN inbox' = 1..(Len(inbox) - 1)
      /\ \A i \in 1..(Len(inbox) - 1) : inbox'[i] = inbox[i + 1] /\ i + 1 \in 1..Len(inbox)
  BY <1>0, TailFacts DEF Shape
<1>3. PICK k \in Nat : AnsweredUpTo(k)
  BY <1>0 DEF InOrder
<1>4. /\ k <= Len(asked) /\ Len(answers) <= k /\ Rising(outbox, {"response"})
      /\ IdsOn(outbox, {"response"}) = (Len(answers) + 1)..k
      /\ IdsOn(inbox, AskTypes) = (k + 1)..Len(asked) /\ Rising(inbox, AskTypes)
  BY <1>0, <1>3 DEF AnsweredUpTo, InOrder
<1>5. /\ Rising(inbox', AskTypes)
      /\ h.type \in AskTypes => /\ IdsOn(inbox, AskTypes) = IdsOn(inbox', AskTypes) \cup {h.id}
                                /\ \A x \in IdsOn(inbox', AskTypes) : h.id < x
      /\ h.type \notin AskTypes => IdsOn(inbox, AskTypes) = IdsOn(inbox', AskTypes)
  BY <1>2, <1>4, IdsTail
<1>6. ASSUME h.type \in AskTypes
      PROVE  h.id = k + 1 /\ k + 1 <= Len(asked) /\ IdsOn(inbox', AskTypes) = (k + 2)..Len(asked)
  <2>1. h.id \in (k + 1)..Len(asked) /\ IdsOn(inbox', AskTypes) \subseteq (k + 1)..Len(asked)
    BY <1>4, <1>5, <1>6
  <2>2. k + 1 \in IdsOn(inbox', AskTypes) \/ k + 1 = h.id
    <3>1. k + 1 \in (k + 1)..Len(asked)
      BY <1>2, <2>1
    <3> QED BY <1>4, <1>5, <1>6, <3>1
  <2>3. h.id = k + 1
    <3>1. ASSUME k + 1 \in IdsOn(inbox', AskTypes) PROVE FALSE
      <4>1. h.id < k + 1
        BY <1>5, <1>6, <3>1
      <4> QED BY <1>2, <2>1, <4>1
    <3> QED BY <2>2, <3>1
  <2>4. \A x \in (k + 1)..Len(asked) : x \in IdsOn(inbox', AskTypes) \/ x = k + 1
    BY <1>4, <1>5, <1>6, <2>3
  <2>5. \A x \in IdsOn(inbox', AskTypes) : x \in (k + 2)..Len(asked)
    BY <1>2, <1>5, <1>6, <2>1, <2>3
  <2>6. \A x \in (k + 2)..Len(asked) : x \in (k + 1)..Len(asked) /\ x /= k + 1
    BY <1>2
  <2>7. IdsOn(inbox', AskTypes) = (k + 2)..Len(asked)
    BY <2>4, <2>5, <2>6
  <2>8. k + 1 <= Len(asked)
    BY <1>2, <2>1, <2>3
  <2> QED BY <2>3, <2>7, <2>8
<1>7. ASSUME status' = "running", NEW u \in Uris PROVE Follows(u)'
  <2>1. Follows(u) /\ documents'[u] = Replayed(h, u, documents[u])
    BY <1>0 DEF InFollows
  <2>2. Leaves(inbox', Len(inbox'), u, documents'[u], editor'[u])
    <3>1. Leaves(inbox, Len(inbox), u, documents[u], editor[u]) /\ Len(inbox) \in 1..Len(inbox)
      BY <1>2, <2>1 DEF Follows
    <3>2. Leaves(inbox', Len(inbox) - 1, u, Replayed(h, u, documents[u]), editor[u])
      BY <1>2, <3>1, LeavesTail
    <3> QED BY <1>1, <1>2, <2>1, <3>2
  <2>3. ASSUME NEW i \in Places(inbox', AskTypes)
        PROVE  Leaves(inbox', i - 1, u, documents'[u], asked'[inbox'[i].id][u])
    <3>1. i \in 1..(Len(inbox) - 1) /\ inbox'[i] = inbox[i + 1] /\ i + 1 \in Places(inbox, AskTypes)
      BY <1>2 DEF Places
    <3>2. Leaves(inbox, (i + 1) - 1, u, documents[u], asked[inbox[i + 1].id][u])
      BY <2>1, <3>1 DEF Follows
    <3>3. (i + 1) - 1 = i /\ i \in 1..Len(inbox)
      BY <1>2, <3>1
    <3>4. Leaves(inbox', i - 1, u, Replayed(h, u, documents[u]), asked[inbox[i + 1].id][u])
      BY <1>2, <3>2, <3>3, LeavesTail
    <3> QED BY <1>1, <2>1, <3>1, <3>4
  <2> QED BY <2>2, <2>3 DEF Follows
<1>8. InFollows'
  BY <1>7 DEF InFollows
<1> HIDE DEF h
<1>9. CASE status' \in {"ended", "failed", "panicked"} /\ outbox' = outbox
  <2>1. Shape'
    BY <1>0, <1>1, <1>2, <1>9 DEF Shape
  <2>2. status' /= "running"
    BY <1>9
  <2>3. InOrder'
    <3>1. AnsweredUpTo(k)'
      BY <1>1, <1>4, <1>9, <2>2 DEF AnsweredUpTo
    <3> QED BY <1>0, <1>1, <1>9, <2>2, <3>1 DEF InOrder
  <2>4. AllTruthful'
    BY <1>0, <1>1, <1>9 DEF AllTruthful, Truthful
  <2>5. OutFollows'
    BY <2>2 DEF OutFollows
  <2> QED BY <1>8, <2>1, <2>3, <2>4, <2>5 DEF LspInv
<1>10. CASE status' = "running" /\ outbox' = outbox /\ h.type \in PlainTypes
  <2>0. h.type \notin AskTypes /\ h.type \notin DocTypes
    BY <1>2, <1>10, InFacts
  <2>1. Shape'
    BY <1>0, <1>1, <1>2, <1>10 DEF Shape
  <2>2. \A u \in Uris : documents'[u] = documents[u]
    BY <2>0 DEF Replayed, Sets, h
  <2>3. InOrder'
    <3>1. AnsweredUpTo(k)'
      BY <1>1, <1>4, <1>5, <1>10, <2>0 DEF AnsweredUpTo
    <3> QED BY <1>0, <1>1, <1>5, <1>10, <3>1 DEF InOrder
  <2>4. AllTruthful'
    BY <1>0, <1>1, <1>10 DEF AllTruthful, Truthful
  <2>5. OutFollows'
    BY <1>0, <1>1, <1>10, <2>2 DEF OutFollows
  <2> QED BY <1>8, <2>1, <2>3, <2>4, <2>5 DEF LspInv
<1>11. ASSUME status' = "running", NEW w \in OutMessages,
              outbox' = Append(outbox, w), Matches(h, w)
       PROVE  LspInv'
  <2>1. /\ outbox' \in Seq(OutMessages) /\ Len(outbox') = Len(outbox) + 1
        /\ DOMAIN outbox' = 1..(Len(outbox) + 1) /\ DOMAIN outbox = 1..Len(outbox)
        /\ \A i \in 1..Len(outbox) : outbox'[i] = outbox[i]
        /\ outbox'[Len(outbox) + 1] = w
        /\ \A i \in 1..(Len(outbox) + 1) : i \in 1..Len(outbox) \/ i = Len(outbox) + 1
    BY <1>2, <1>11, AppendFacts
  <2>2. /\ w.type = "response" <=> h.type \in AskTypes
        /\ w.type = "response" => /\ w.id = h.id
                                  /\ \A u \in DOMAIN w.saw : u \in Uris /\ w.saw[u] = documents[u]
        /\ \A u \in Uris : Sets(w, u) <=> Sets(h, u)
        /\ \A u \in Uris : Sets(w, u) => TextOf(w) = TextOf(h)
    <3>1. h.type \in AskTypes => h.type \notin DocTypes
      BY <1>2, InFacts
    <3>2. h.type \in PlainTypes => h.type \notin DocTypes /\ h.type \notin AskTypes
      BY <1>2, InFacts
    <3>3. /\ w.type = "publishDiagnostics" => w.type \in DocTypes /\ TextOf(w) = w.text
          /\ w.type \in DocTypes => w.type = "publishDiagnostics"
      BY OutFacts
    <3>4. h.type \in DocTypes => h.type \notin AskTypes
      BY <1>2, InFacts
    <3> QED BY <1>11, <3>1, <3>2, <3>3, <3>4 DEF Matches, Sets
  <2>3. Shape'
    BY <1>0, <1>1, <1>2, <1>11, <2>1 DEF Shape
  <2>4. InOrder'
    <3>1. CASE h.type \in AskTypes
      <4>1. w.type \in {"response"} /\ w.id = k + 1
        BY <1>6, <2>2, <3>1
      <4>2. \A x \in IdsOn(outbox, {"response"}) : x < w.id
        BY <1>2, <1>4, <4>1
      <4>3. /\ IdsOn(outbox', {"response"}) = ((Len(answers) + 1)..k) \cup {k + 1}
            /\ Rising(outbox', {"response"})
        BY <1>2, <1>4, <1>11, <4>1, <4>2, IdsAppend
      <4>4. ((Len(answers) + 1)..k) \cup {k + 1} = (Len(answers) + 1)..(k + 1)
        BY <1>2, <1>4
      <4>5. IdsOn(inbox', AskTypes) = ((k + 1) + 1)..Len(asked)
        BY <1>6, <3>1
      <4>6. AnsweredUpTo(k + 1)'
        <5>1. k + 1 <= Len(asked) /\ Len(answers) <= k + 1
          BY <1>2, <1>4, <1>6, <3>1
        <5>2. Len(asked') = Len(asked) /\ Len(answers') = Len(answers)
          BY <1>1
        <5> QED BY <4>3, <4>4, <4>5, <5>1, <5>2 DEF AnsweredUpTo
      <4> QED BY <1>0, <1>1, <1>5, <4>3, <4>6 DEF InOrder
    <3>2. CASE h.type \notin AskTypes
      <4>1. w.type \notin {"response"}
        BY <2>2, <3>2
      <4>2. IdsOn(outbox', {"response"}) = IdsOn(outbox, {"response"}) /\ Rising(outbox', {"response"})
        BY <1>2, <1>4, <1>11, <4>1, IdsAppend
      <4>3. AnsweredUpTo(k)'
        BY <1>1, <1>4, <1>5, <3>2, <4>2 DEF AnsweredUpTo
      <4> QED BY <1>0, <1>1, <1>5, <4>2, <4>3 DEF InOrder
    <3> QED BY <3>1, <3>2
  <2>5. AllTruthful'
    <3> SUFFICES ASSUME NEW i \in Places(outbox', {"response"}), NEW v \in DOMAIN outbox'[i].saw
                 PROVE  outbox'[i].saw[v] = asked'[outbox'[i].id][v]
      BY DEF AllTruthful, Truthful
    <3>1. i \in 1..(Len(outbox) + 1) /\ outbox'[i].type = "response"
      BY <2>1 DEF Places
    <3>2. CASE i \in 1..Len(outbox)
      <4>1. i \in Places(outbox, {"response"}) /\ outbox'[i] = outbox[i]
        BY <2>1, <3>1, <3>2 DEF Places
      <4> QED BY <1>0, <1>1, <4>1 DEF AllTruthful, Truthful
    <3>3. CASE i = Len(outbox) + 1
      <4>1. outbox'[i] = w /\ w.type = "response" /\ h.type \in AskTypes /\ w.id = h.id
        BY <2>1, <2>2, <3>1, <3>3
      <4>2. 1 \in Places(inbox, AskTypes)
        BY <1>2, <4>1 DEF Places
      <4>3. ASSUME NEW u \in Uris PROVE documents[u] = asked[h.id][u]
        <5>1. Leaves(inbox, 1 - 1, u, documents[u], asked[inbox[1].id][u])
          BY <1>0, <4>2 DEF InFollows, Follows
        <5>2. 1 - 1 = 0
          OBVIOUS
        <5> QED BY <1>2, <5>1, <5>2, LeavesNothing
      <4> QED BY <1>1, <2>2, <4>1, <4>3 DEF Truthful
    <3> QED BY <2>1, <3>1, <3>2, <3>3
  <2>6. OutFollows'
    <3> SUFFICES ASSUME NEW u \in Uris
                 PROVE  Leaves(outbox', Len(outbox'), u, markers'[u], documents'[u])
      BY DEF OutFollows
    <3>1. Leaves(outbox, Len(outbox), u, markers[u], documents[u])
      BY <1>0 DEF OutFollows
    <3>2. CASE Sets(h, u)
      <4>1. Leaves(outbox', Len(outbox) + 1, u, markers[u], TextOf(w))
        BY <1>2, <1>11, <2>2, <3>2, LeavesAppend
      <4>2. documents'[u] = TextOf(w)
        BY <2>2, <3>2 DEF Replayed, h
      <4> QED BY <1>1, <2>1, <4>1, <4>2
    <3>3. CASE ~Sets(h, u)
      <4>1. Leaves(outbox', Len(outbox) + 1, u, markers[u], documents[u])
        BY <1>2, <1>11, <2>2, <3>1, <3>3, LeavesAppend
      <4>2. documents'[u] = documents[u]
        BY <3>3 DEF Replayed, h
      <4> QED BY <1>1, <2>1, <4>1, <4>2
    <3> QED BY <3>2, <3>3
  <2> QED BY <1>8, <2>3, <2>4, <2>5, <2>6 DEF LspInv
<1> QED BY <1>9, <1>10, <1>11 DEF h
----------------------------------------------------------------------------
(***************************************************************************)
(* The client reads a message.                                             *)
(***************************************************************************)
LEMMA ReadStep ==
  ASSUME LspInv, Reads
  PROVE  LspInv'
<1> DEFINE h == Head(outbox)
<1>0. Shape /\ InOrder /\ AllTruthful /\ InFollows /\ OutFollows
  BY DEF LspInv
<1>1. /\ outbox /= <<>> /\ outbox' = Tail(outbox)
      /\ documents' = documents /\ shutting_down' = shutting_down /\ status' = status
      /\ inbox' = inbox /\ editor' = editor /\ asked' = asked /\ sends' = sends
  BY DEF Reads, server
<1>2. /\ outbox \in Seq(OutMessages) /\ answers \in Seq(Nat) /\ markers \in [Uris -> Texts]
      /\ Len(answers) \in Nat /\ Len(asked) \in Nat
  BY <1>0 DEF Shape
<1>3. /\ h \in OutMessages /\ outbox' \in Seq(OutMessages)
      /\ Len(outbox) \in Nat /\ Len(outbox) >= 1 /\ Len(outbox') = Len(outbox) - 1
      /\ DOMAIN outbox = 1..Len(outbox) /\ DOMAIN outbox' = 1..(Len(outbox) - 1) /\ h = outbox[1]
      /\ \A i \in 1..(Len(outbox) - 1) : outbox'[i] = outbox[i + 1] /\ i + 1 \in 1..Len(outbox)
  BY <1>1, <1>2, TailFacts
<1>4. PICK k \in Nat : AnsweredUpTo(k)
  BY <1>0 DEF InOrder
<1>5. /\ k <= Len(asked) /\ Len(answers) <= k /\ Rising(outbox, {"response"})
      /\ IdsOn(outbox, {"response"}) = (Len(answers) + 1)..k
      /\ status = "running" => IdsOn(inbox, AskTypes) = (k + 1)..Len(asked)
      /\ status = "running" => Rising(inbox, AskTypes)
      /\ \A i \in DOMAIN answers : answers[i] = i
  BY <1>0, <1>4 DEF AnsweredUpTo, InOrder
<1>6. /\ h.type = "publishDiagnostics" =>
           markers' = [markers EXCEPT ![h.uri] = h.text] /\ answers' = answers
      /\ h.type = "response" => answers' = Append(answers, h.id) /\ markers' = markers
      /\ h.type \notin {"publishDiagnostics", "response"} => markers' = markers /\ answers' = answers
  <2>1. CASE h.type = "publishDiagnostics"
    BY <2>1 DEF Reads
  <2>2. CASE h.type = "response"
    BY <2>2 DEF Reads
  <2>3. CASE h.type \notin {"publishDiagnostics", "response"}
    BY <2>3 DEF Reads
  <2> QED BY <2>1, <2>2, <2>3
<1> HIDE DEF h
<1>7. /\ Rising(outbox', {"response"})
      /\ h.type = "response" =>
           /\ IdsOn(outbox, {"response"}) = IdsOn(outbox', {"response"}) \cup {h.id}
           /\ \A x \in IdsOn(outbox', {"response"}) : h.id < x
      /\ h.type /= "response" => IdsOn(outbox, {"response"}) = IdsOn(outbox', {"response"})
  <2>1. h.type \in {"response"} <=> h.type = "response"
    OBVIOUS
  <2> QED BY <1>1, <1>2, <1>5, <2>1, IdsTail DEF h
<1>8. markers' \in [Uris -> Texts] /\ \A u \in Uris : markers'[u] = Replayed(h, u, markers[u])
  <2>1. CASE h.type = "publishDiagnostics"
    <3>1. h.uri \in Uris /\ h.text \in Texts /\ TextOf(h) = h.text /\ h.type \in DocTypes
      BY <1>3, <2>1, OutFacts
    <3> QED BY <1>2, <1>6, <2>1, <3>1 DEF Replayed, Sets
  <2>2. CASE h.type /= "publishDiagnostics"
    <3>1. h.type \notin DocTypes /\ markers' = markers
      BY <1>3, <1>6, <2>2, OutFacts
    <3> QED BY <1>2, <3>1 DEF Replayed, Sets
  <2> QED BY <2>1, <2>2
<1>9. ASSUME h.type = "response" PROVE InOrder'
  <2>1. h.id \in Nat /\ h.id \in (Len(answers) + 1)..k
    BY <1>3, <1>5, <1>7, <1>9, OutFacts
  <2>2. Len(answers) + 1 \in (Len(answers) + 1)..k
    BY <1>2, <2>1
  <2>3. h.id = Len(answers) + 1
    <3>1. ASSUME Len(answers) + 1 \in IdsOn(outbox', {"response"}) PROVE FALSE
      <4>1. h.id < Len(answers) + 1
        BY <1>7, <1>9, <3>1
      <4> QED BY <1>2, <2>1, <4>1
    <3> QED BY <1>5, <1>7, <1>9, <2>2, <3>1
  <2>4. /\ answers' \in Seq(Nat) /\ Len(answers') = Len(answers) + 1
        /\ \A i \in DOMAIN answers' : answers'[i] = i
    <3>1. answers' = Append(answers, Len(answers) + 1)
      BY <1>6, <1>9, <2>3
    <3>2. Len(answers) + 1 \in Nat
      BY <1>2
    <3>3. /\ answers' \in Seq(Nat) /\ Len(answers') = Len(answers) + 1
          /\ DOMAIN answers = 1..Len(answers) /\ DOMAIN answers' = 1..(Len(answers) + 1)
          /\ \A i \in 1..Len(answers) : answers'[i] = answers[i]
          /\ answers'[Len(answers) + 1] = Len(answers) + 1
          /\ \A i \in 1..(Len(answers) + 1) : i \in 1..Len(answers) \/ i = Len(answers) + 1
      BY <1>2, <3>1, <3>2, AppendFacts
    <3> QED BY <1>5, <3>3
  <2>5. IdsOn(outbox', {"response"}) = (Len(answers) + 2)..k
    <3>1. \A x \in (Len(answers) + 1)..k : x \in IdsOn(outbox', {"response"}) \/ x = Len(answers) + 1
      BY <1>5, <1>7, <1>9, <2>3
    <3>2. \A x \in IdsOn(outbox', {"response"}) :
            x \in (Len(answers) + 1)..k /\ Len(answers) + 1 < x
      BY <1>5, <1>7, <1>9, <2>3
    <3>3. \A x \in (Len(answers) + 2)..k : x \in (Len(answers) + 1)..k /\ x /= Len(answers) + 1
      BY <1>2
    <3>4. \A x \in (Len(answers) + 1)..k : Len(answers) + 1 < x => x \in (Len(answers) + 2)..k
      BY <1>2
    <3> QED BY <3>1, <3>2, <3>3, <3>4
  <2>6. AnsweredUpTo(k)'
    <3>1. Len(answers') <= k /\ (Len(answers') + 1)..k = (Len(answers) + 2)..k
      BY <1>2, <2>2, <2>4
    <3> QED BY <1>1, <1>5, <2>5, <3>1 DEF AnsweredUpTo
  <2> QED BY <1>1, <1>5, <1>7, <2>4, <2>6 DEF InOrder
<1>10. ASSUME h.type /= "response" PROVE InOrder'
  <2>1. answers' = answers
    BY <1>6, <1>10
  <2>2. AnsweredUpTo(k)'
    BY <1>1, <1>5, <1>7, <1>10, <2>1 DEF AnsweredUpTo
  <2> QED BY <1>1, <1>5, <1>7, <2>1, <2>2 DEF InOrder
<1>11. InOrder'
  BY <1>9, <1>10
<1>12. answers' \in Seq(Nat)
  <2>1. CASE h.type = "response"
    <3>1. h.id \in Nat
      BY <1>3, <2>1, OutFacts
    <3>2. answers' = Append(answers, h.id)
      BY <1>6, <2>1
    <3> QED BY <1>2, <3>1, <3>2
  <2>2. CASE h.type /= "response"
    BY <1>2, <1>6, <2>2
  <2> QED BY <2>1, <2>2
<1>13. Shape'
  BY <1>0, <1>1, <1>3, <1>8, <1>12 DEF Shape
<1>14. AllTruthful'
  <2> SUFFICES ASSUME NEW i \in Places(outbox', {"response"}), NEW v \in DOMAIN outbox'[i].saw
               PROVE  outbox'[i].saw[v] = asked'[outbox'[i].id][v]
    BY DEF AllTruthful, Truthful
  <2>1. outbox'[i] = outbox[i + 1] /\ i + 1 \in Places(outbox, {"response"})
    BY <1>3 DEF Places
  <2> QED BY <1>0, <1>1, <2>1 DEF AllTruthful, Truthful
<1>15. InFollows'
  BY <1>0, <1>1 DEF InFollows, Follows
<1>16. OutFollows'
  <2> SUFFICES ASSUME status = "running", NEW u \in Uris
               PROVE  Leaves(outbox', Len(outbox'), u, markers'[u], documents'[u])
    BY <1>1 DEF OutFollows
  <2>1. Leaves(outbox, Len(outbox), u, markers[u], documents[u]) /\ Len(outbox) \in 1..Len(outbox)
    BY <1>0, <1>3 DEF OutFollows
  <2>2. Leaves(outbox', Len(outbox) - 1, u, Replayed(h, u, markers[u]), documents[u])
    BY <1>1, <1>2, <2>1, LeavesTail DEF h
  <2> QED BY <1>1, <1>3, <1>8, <2>2
<1> QED BY <1>11, <1>13, <1>14, <1>15, <1>16 DEF LspInv
----------------------------------------------------------------------------
(***************************************************************************)
(* Every handler is one of these steps.                                    *)
(***************************************************************************)

\* A handler that answers a request.
Replying ==
  \E type \in AskTypes, result \in ResultKinds, consulted \in SUBSET Uris :
    /\ Receives(type) /\ Response(result, consulted)
    /\ documents' = documents /\ shutting_down' \in BOOLEAN

LEMMA AnswerReplies ==
  ASSUME Shape, NEW result \in ResultKinds, NEW consulted \in SUBSET Uris, Answer(result, consulted)
  PROVE  Replying
<1>1. PICK type \in Requests : Receives(type)
  BY DEF Answer
<1>2. /\ type \in AskTypes /\ Receives(type) /\ Response(result, consulted)
      /\ documents' = documents /\ shutting_down' \in BOOLEAN
  BY <1>1 DEF AskTypes, Answer, Keeps, Shape
<1> QED BY <1>2, Zenon DEF Replying

LEMMA LookUpReplies ==
  ASSUME Shape, NEW missing \in ResultKinds, LookUp(missing)
  PROVE  Replying
<1>1. "invalid_params" \in ResultKinds
  BY DEF ResultKinds
<1>2. CASE Answer("invalid_params", {})
  BY <1>1, <1>2, AnswerReplies
<1>3. ASSUME NEW u \in Uris \ OpenDocuments, Answer(missing, {u}) PROVE Replying
  <2>1. {u} \in SUBSET Uris
    OBVIOUS
  <2> QED BY <1>3, <2>1, AnswerReplies
<1> QED BY <1>2, <1>3 DEF LookUp

\* Every handler answers, but for those that look at the byte before the cursor.
LEMMA RequestsReply ==
  ASSUME Shape, handle_request
  PROVE  Replying \/ identifier_at_panics
<1>1. /\ "ok" \in ResultKinds /\ "null" \in ResultKinds /\ "empty" \in ResultKinds
      /\ "invalid_params" \in ResultKinds /\ "invalid_request" \in ResultKinds
      /\ "method_not_found" \in ResultKinds
      /\ {} \in SUBSET Uris /\ Uris \in SUBSET Uris
      /\ \A u \in Uris : {u} \in SUBSET Uris
      /\ \A u \in OpenDocuments : {u} \in SUBSET Uris
  BY DEF ResultKinds, OpenDocuments
<1>2. CASE on_initialize
  BY <1>1, <1>2, AnswerReplies DEF on_initialize
<1>3. CASE on_hover \/ on_rename
  BY <1>1, <1>3, AnswerReplies, LookUpReplies DEF on_hover, on_rename
<1>4. CASE on_code_action \/ on_code_lens_resolve
  BY <1>1, <1>4, AnswerReplies DEF on_code_action, on_code_lens_resolve
<1>5. CASE on_completion
  BY <1>1, <1>5, AnswerReplies DEF on_completion
<1>6. CASE on_workspace_symbol \/ on_other
  BY <1>1, <1>6, AnswerReplies DEF on_workspace_symbol, on_other
<1>7. CASE on_document_symbol \/ on_semantic_tokens_full \/ on_inlay_hint
           \/ on_folding_range \/ on_selection_range
  BY <1>1, <1>7, AnswerReplies, LookUpReplies
     DEF on_document_symbol, on_semantic_tokens_full, on_inlay_hint, on_folding_range,
         on_selection_range
<1>8. CASE on_definition \/ on_references
  BY <1>1, <1>8, AnswerReplies, LookUpReplies DEF on_definition, on_references
<1>9. CASE on_formatting
  BY <1>1, <1>9, AnswerReplies, LookUpReplies DEF on_formatting
<1>10. CASE on_code_lens
  BY <1>1, <1>10, AnswerReplies, LookUpReplies DEF on_code_lens
<1>11. CASE \/ on_prepare_call_hierarchy \/ on_incoming_calls \/ on_outgoing_calls
            \/ on_prepare_type_hierarchy \/ on_type_hierarchy_supertypes
            \/ on_type_hierarchy_subtypes
  BY <1>1, <1>11, AnswerReplies
     DEF on_prepare_call_hierarchy, on_incoming_calls, on_outgoing_calls,
         on_prepare_type_hierarchy, on_type_hierarchy_supertypes,
         on_type_hierarchy_subtypes, Hierarchy
<1>12. CASE on_execute_command
  BY <1>1, <1>12, AnswerReplies, LookUpReplies DEF on_execute_command
<1>13. CASE on_shutdown
  <2>1. "shutdown" \in AskTypes
    BY DEF AskTypes, Requests
  <2> QED BY <1>1, <1>13, <2>1, Zenon DEF on_shutdown, Replying
<1>14. CASE refuse_after_shutdown
  <2>1. PICK type \in Requests : Receives(type)
    BY <1>14 DEF refuse_after_shutdown
  <2>2. type \in AskTypes /\ shutting_down \in BOOLEAN
    BY DEF AskTypes, Shape
  <2> QED BY <1>1, <1>14, <2>1, <2>2, Zenon DEF refuse_after_shutdown, Keeps, Replying
<1>15. CASE exit_request
  <2>1. "exit_request" \in AskTypes
    BY DEF AskTypes, Requests
  <2>2. shutting_down \in BOOLEAN
    BY DEF Shape
  <2> QED BY <1>1, <1>15, <2>1, <2>2, Zenon DEF exit_request, Keeps, Replying
<1> QED
  BY <1>2, <1>3, <1>4, <1>5, <1>6, <1>7, <1>8, <1>9, <1>10, <1>11, <1>12, <1>13, <1>14, <1>15
  DEF handle_request

LEMMA ReplyStep ==
  ASSUME LspInv, Replying
  PROVE  LspInv'
<1>0. Shape
  BY DEF LspInv
<1>1. PICK type \in AskTypes, result \in ResultKinds, consulted \in SUBSET Uris :
        /\ Receives(type) /\ Response(result, consulted)
        /\ documents' = documents /\ shutting_down' \in BOOLEAN
  BY DEF Replying
<1> DEFINE h == Head(inbox)
           w == [type |-> "response", id |-> h.id, result |-> result,
                 saw |-> [u \in consulted |-> documents[u]]]
<1>2. /\ status = "running" /\ inbox /= <<>> /\ h.type = type /\ inbox' = Tail(inbox)
      /\ UNCHANGED client
  BY <1>1 DEF Receives
<1>3. h \in InMessages /\ h.id \in Nat /\ h.type \notin DocTypes
  <2>1. h \in InMessages
    BY <1>0, <1>2, TailFacts DEF Shape
  <2> HIDE DEF h
  <2> QED BY <1>2, <2>1, InFacts
<1>4. documents' \in [Uris -> Texts] /\ \A u \in Uris : documents'[u] = Replayed(h, u, documents[u])
  BY <1>0, <1>1, <1>3 DEF Shape, Replayed, Sets
<1>5. w \in OutMessages /\ Matches(h, w)
  <2>1. [u \in consulted |-> documents[u]] \in Seen
    <3>1. [u \in consulted |-> documents[u]] \in [consulted -> Texts]
      BY <1>0 DEF Shape
    <3> QED BY <3>1 DEF Seen
  <2>2. w \in OutMessages
    BY <1>3, <2>1 DEF OutMessages
  <2>3. w.type = "response" /\ w.id = h.id /\ w.saw = [u \in consulted |-> documents[u]]
    OBVIOUS
  <2> HIDE DEF w
  <2>4. Matches(h, w)
    BY <1>2, <2>3 DEF Matches
  <2> QED BY <2>2, <2>4 DEF w
<1>6. \/ outbox' = Append(outbox, w) /\ status' = "running"
      \/ status' = "failed" /\ outbox' = outbox
  BY <1>1, <1>2 DEF Response, write_message
<1> HIDE DEF w
<1> QED BY <1>1, <1>2, <1>4, <1>5, <1>6, ServeStep DEF h

LEMMA NoticeStep ==
  ASSUME LspInv, on_did_open \/ on_did_change \/ on_did_close
  PROVE  LspInv'
<1> DEFINE h == Head(inbox)
           w == [type |-> "publishDiagnostics", uri |-> h.uri, text |-> TextOf(h)]
<1>0. Shape
  BY DEF LspInv
<1>1. /\ status = "running" /\ inbox /= <<>> /\ inbox' = Tail(inbox) /\ UNCHANGED client
      /\ h.type \in DocTypes /\ shutting_down' = shutting_down
      /\ documents' = [documents EXCEPT ![h.uri] = TextOf(h)]
      /\ write_message(w)
  <2>1. CASE on_did_open
    BY <2>1 DEF on_did_open, Receives, DocTypes, TextOf, open, publish_diagnostics
  <2>2. CASE on_did_change
    BY <2>2 DEF on_did_change, Receives, DocTypes, TextOf, update, publish_diagnostics
  <2>3. CASE on_did_close
    BY <2>3 DEF on_did_close, Receives, DocTypes, TextOf, close, publish_diagnostics
  <2> QED BY <2>1, <2>2, <2>3
<1>2. h \in InMessages /\ h.uri \in Uris /\ TextOf(h) \in Texts
  <2>1. h \in InMessages
    BY <1>0, <1>1, TailFacts DEF Shape
  <2> HIDE DEF h
  <2> QED BY <1>1, <2>1, InFacts
<1>3. documents' \in [Uris -> Texts] /\ \A u \in Uris : documents'[u] = Replayed(h, u, documents[u])
  <2>1. documents \in [Uris -> Texts]
    BY <1>0 DEF Shape
  <2> HIDE DEF h
  <2> QED BY <1>1, <1>2, <2>1 DEF Replayed, Sets
<1>4. w \in OutMessages /\ Matches(h, w)
  BY <1>1, <1>2 DEF OutMessages, Matches
<1>5. \/ outbox' = Append(outbox, w) /\ status' = "running"
      \/ status' = "failed" /\ outbox' = outbox
  BY <1>1 DEF write_message
<1>6. shutting_down' \in BOOLEAN
  BY <1>0, <1>1 DEF Shape
<1> HIDE DEF w
<1> QED BY <1>1, <1>3, <1>4, <1>5, <1>6, ServeStep DEF h

LEMMA PlainStep ==
  ASSUME LspInv, on_exit \/ on_ignored \/ on_invalid_json \/ read_message_ends
  PROVE  LspInv'
<1> DEFINE h == Head(inbox)
           w == [type |-> "parse_error"]
<1>0. Shape
  BY DEF LspInv
<1>1. /\ status = "running" /\ inbox /= <<>> /\ inbox' = Tail(inbox) /\ UNCHANGED client
      /\ h.type \in PlainTypes /\ shutting_down' = shutting_down /\ documents' = documents
      /\ \/ status' \in {"ended", "failed"} /\ outbox' = outbox
         \/ status' = "running" /\ outbox' = outbox
         \/ status' = "running" /\ outbox' = Append(outbox, w)
  <2>1. CASE on_exit
    BY <2>1 DEF on_exit, Receives, PlainTypes, Keeps
  <2>2. CASE on_ignored
    BY <2>2 DEF on_ignored, Receives, PlainTypes, Keeps
  <2>3. CASE on_invalid_json
    BY <2>3 DEF on_invalid_json, Receives, PlainTypes, Keeps, write_message
  <2>4. CASE read_message_ends
    BY <2>4 DEF read_message_ends, Receives, PlainTypes, Keeps
  <2> QED BY <2>1, <2>2, <2>3, <2>4
<1>2. h.type \notin DocTypes /\ w \in OutMessages /\ Matches(h, w)
  <2>1. h \in InMessages
    BY <1>0, <1>1, TailFacts DEF Shape
  <2>2. w \in OutMessages /\ w.type = "parse_error"
    BY DEF OutMessages
  <2> HIDE DEF h, w
  <2>3. h.type \notin DocTypes
    BY <1>1, <2>1, InFacts
  <2> QED BY <1>1, <2>2, <2>3 DEF Matches
<1>3. documents' \in [Uris -> Texts] /\ \A u \in Uris : documents'[u] = Replayed(h, u, documents[u])
  BY <1>0, <1>1, <1>2 DEF Shape, Replayed, Sets
<1>4. shutting_down' \in BOOLEAN
  BY <1>0, <1>1 DEF Shape
<1> HIDE DEF w
<1> QED BY <1>1, <1>2, <1>3, <1>4, ServeStep DEF h

LEMMA PanicStep ==
  ASSUME LspInv, identifier_at_panics
  PROVE  LspInv'
<1> DEFINE h == Head(inbox)
<1>0. Shape
  BY DEF LspInv
<1>1. /\ status = "running" /\ inbox /= <<>> /\ inbox' = Tail(inbox) /\ UNCHANGED client
      /\ h.type \in AskTypes /\ shutting_down' = shutting_down /\ documents' = documents
      /\ status' = "panicked" /\ outbox' = outbox
  BY DEF identifier_at_panics, Receives, Keeps, AskTypes, Requests
<1>2. h.type \notin DocTypes
  BY <1>0, <1>1, TailFacts, InFacts DEF Shape
<1>3. documents' \in [Uris -> Texts] /\ \A u \in Uris : documents'[u] = Replayed(h, u, documents[u])
  BY <1>0, <1>1, <1>2 DEF Shape, Replayed, Sets
<1>4. shutting_down' \in BOOLEAN
  BY <1>0, <1>1 DEF Shape
<1> QED BY <1>1, <1>3, <1>4, ServeStep DEF h

LEMMA ClientStep ==
  ASSUME LspInv,
         \/ \E u \in Uris : \/ Edits(u, "textDocument/didOpen")
                            \/ Edits(u, "textDocument/didChange")
                            \/ Closes(u)
         \/ \E type \in AskTypes : Asks(type)
         \/ \E type \in {"ignored", "not_json", "bad_header", "exit"} : Tells(type)
         \/ \E type \in {"eof", "cut"} : HangsUp(type)
  PROVE  LspInv'
<1>0. /\ editor \in [Uris -> Texts] /\ sends \in Texts /\ asked \in Seq([Uris -> Texts])
  BY DEF LspInv, Shape
<1>1. ASSUME NEW u \in Uris, NEW type \in {"textDocument/didOpen", "textDocument/didChange"},
             Edits(u, type)
      PROVE  LspInv'
  <2> DEFINE m == [type |-> type, uri |-> u, text |-> sends + 1]
  <2>1. Send(m) /\ editor' = [editor EXCEPT ![u] = sends + 1] /\ asked' = asked /\ sends < MaxSends
    BY <1>1 DEF Edits, Send
  <2>2. sends + 1 \in Texts
    BY <1>0, <2>1, LspAssumption DEF Texts
  <2>3. m \in InMessages /\ m.type \in DocTypes /\ m.uri = u /\ TextOf(m) = sends + 1
    BY <2>2 DEF InMessages, DocTypes, TextOf
  <2> HIDE DEF m
  <2>4. m.type \notin AskTypes
    BY <2>3, InFacts
  <2>5. editor' \in [Uris -> Texts] /\ \A v \in Uris : editor'[v] = Replayed(m, v, editor[v])
    BY <1>0, <2>1, <2>2, <2>3 DEF Replayed, Sets
  <2> QED BY <2>1, <2>3, <2>4, <2>5, SendStep
<1>2. ASSUME NEW u \in Uris, Closes(u) PROVE LspInv'
  <2> DEFINE m == [type |-> "textDocument/didClose", uri |-> u]
  <2>1. Send(m) /\ editor' = [editor EXCEPT ![u] = 0] /\ asked' = asked
    BY <1>2 DEF Closes
  <2>2. 0 \in Texts
    BY LspAssumption DEF Texts
  <2>3. m \in InMessages /\ m.type \in DocTypes /\ m.uri = u /\ TextOf(m) = 0
    BY DEF InMessages, DocTypes, TextOf
  <2> HIDE DEF m
  <2>4. m.type \notin AskTypes
    BY <2>3, InFacts
  <2>5. editor' \in [Uris -> Texts] /\ \A v \in Uris : editor'[v] = Replayed(m, v, editor[v])
    BY <1>0, <2>1, <2>2, <2>3 DEF Replayed, Sets
  <2> QED BY <2>1, <2>3, <2>4, <2>5, SendStep
<1>3. ASSUME NEW type \in AskTypes, Asks(type) PROVE LspInv'
  <2> DEFINE m == [type |-> type, id |-> Len(asked) + 1]
  <2>1. Send(m) /\ editor' = editor /\ asked' = Append(asked, editor)
    BY <1>3 DEF Asks
  <2>2. m \in InMessages /\ m.type \in AskTypes /\ m.id = Len(asked) + 1
    BY <1>0 DEF InMessages
  <2> HIDE DEF m
  <2>3. m.type \notin DocTypes
    BY <2>2, InFacts
  <2>4. editor' \in [Uris -> Texts] /\ \A v \in Uris : editor'[v] = Replayed(m, v, editor[v])
    BY <1>0, <2>1, <2>3 DEF Replayed, Sets
  <2> QED BY <2>1, <2>2, <2>4, SendStep
<1>4. ASSUME NEW type \in PlainTypes, Tells(type) \/ HangsUp(type) PROVE LspInv'
  <2> DEFINE m == [type |-> type]
  <2>1. Send(m) /\ editor' = editor /\ asked' = asked
    BY <1>4 DEF Tells, HangsUp
  <2>2. m \in InMessages /\ m.type \in PlainTypes
    BY DEF InMessages
  <2> HIDE DEF m
  <2>3. m.type \notin DocTypes /\ m.type \notin AskTypes
    BY <2>2, InFacts
  <2>4. editor' \in [Uris -> Texts] /\ \A v \in Uris : editor'[v] = Replayed(m, v, editor[v])
    BY <1>0, <2>1, <2>3 DEF Replayed, Sets
  <2> QED BY <2>1, <2>2, <2>3, <2>4, SendStep
<1> QED BY <1>1, <1>2, <1>3, <1>4 DEF PlainTypes

\* Every step of the editor and of the server keeps the invariant.
LEMMA NextInv == LspInv /\ [Next]_vars => LspInv'
<1> SUFFICES ASSUME LspInv, [Next]_vars PROVE LspInv'
  OBVIOUS
<1>0. Shape
  BY DEF LspInv
<1>1. CASE \/ \E u \in Uris : \/ Edits(u, "textDocument/didOpen")
                              \/ Edits(u, "textDocument/didChange")
                              \/ Closes(u)
           \/ \E type \in AskTypes : Asks(type)
           \/ \E type \in {"ignored", "not_json", "bad_header", "exit"} : Tells(type)
           \/ \E type \in {"eof", "cut"} : HangsUp(type)
  BY <1>1, ClientStep
<1>2. CASE Reads
  BY <1>2, ReadStep
<1>3. CASE handle_request
  BY <1>0, <1>3, RequestsReply, ReplyStep, PanicStep
<1>4. CASE handle_notification
  BY <1>4, NoticeStep, PlainStep DEF handle_notification
<1>5. CASE on_invalid_json \/ read_message_ends
  BY <1>5, PlainStep
<1>6. CASE on_invalid_envelope
  <2>1. "bad_envelope" \in AskTypes /\ "invalid_request" \in ResultKinds /\ {} \in SUBSET Uris
        /\ shutting_down \in BOOLEAN
    BY <1>0 DEF AskTypes, Requests, ResultKinds, Shape
  <2>2. Replying
    BY <1>6, <2>1, Zenon DEF on_invalid_envelope, Keeps, Replying
  <2> QED BY <2>2, ReplyStep
<1>7. CASE UNCHANGED vars
  <2>1. /\ documents' = documents /\ shutting_down' = shutting_down /\ status' = status
        /\ inbox' = inbox /\ outbox' = outbox /\ editor' = editor /\ markers' = markers
        /\ asked' = asked /\ answers' = answers /\ sends' = sends
    BY <1>7 DEF vars, server, client
  <2> QED BY <2>1 DEF LspInv, Shape, InOrder, AnsweredUpTo, AllTruthful, Truthful, InFollows,
                      Follows, OutFollows
<1> QED BY <1>1, <1>2, <1>3, <1>4, <1>5, <1>6, <1>7 DEF Next, run, AskTypes
----------------------------------------------------------------------------
(***************************************************************************)
(* The theorems.                                                           *)
(***************************************************************************)

\* The invariant holds whatever the editor sends and whenever it is read.
THEOREM Invariance == Spec => []LspInv
BY InitInv, NextInv, PTL DEF Spec

\* However many requests, edits and broken messages are on their way, the editor
\* gets one response per request, in the order it asked, computed from the texts
\* it had when it asked.
THEOREM EditorGetsExactAnswers == Spec => []AnswersAreExact
<1>1. LspInv => AnswersAreExact
  <2> SUFFICES ASSUME LspInv PROVE AnswersAreExact
    OBVIOUS
  <2>0. Shape /\ InOrder /\ AllTruthful
    BY DEF LspInv
  <2>1. Replies = Places(outbox, {"response"})
    BY DEF Replies, Places
  <2>2. TypeOK
    <3>1. ASSUME NEW i \in Replies PROVE outbox[i].result \in ResultKinds
      <4>1. outbox[i] \in OutMessages /\ outbox[i].type = "response"
        BY <2>0 DEF Shape, Replies
      <4> QED BY <4>1, OutFacts
    <3> QED BY <2>0, <3>1 DEF Shape, TypeOK, Texts
  <2>3. AnsweredInOrder
    <3>1. PICK k \in Nat : IdsOn(outbox, {"response"}) = (Len(answers) + 1)..k
      BY <2>0 DEF InOrder, AnsweredUpTo
    <3>2. Len(answers) \in Nat
      BY <2>0 DEF Shape
    <3>3. ASSUME NEW i \in Replies
          PROVE  /\ outbox[i].id > Len(answers)
                 /\ \A n \in (Len(answers) + 1)..outbox[i].id : \E j \in Replies : outbox[j].id = n
      <4>1. outbox[i].id \in (Len(answers) + 1)..k
        BY <2>1, <3>1 DEF IdsOn
      <4>2. \A n \in (Len(answers) + 1)..outbox[i].id : n \in IdsOn(outbox, {"response"})
        BY <3>1, <3>2, <4>1
      <4> QED BY <2>1, <3>2, <4>1, <4>2 DEF IdsOn
    <3>4. \A i, j \in Replies : i < j => outbox[i].id < outbox[j].id
      BY <2>0, <2>1 DEF InOrder, Rising
    <3> QED BY <2>0, <3>3, <3>4 DEF InOrder, AnsweredInOrder
  <2>4. AnswersTheAskedTexts
    BY <2>0, <2>1 DEF AllTruthful, Truthful, AnswersTheAskedTexts
  <2> QED BY <2>2, <2>3, <2>4 DEF AnswersAreExact
<1> QED BY <1>1, Invariance, PTL

\* Once everything is delivered, the markers the editor shows are those of the
\* texts it has, whatever it opened, edited and closed on the way.
THEOREM MarkersSettle == Spec => []MarkersMatchWhenQuiet
<1>1. LspInv => MarkersMatchWhenQuiet
  <2> SUFFICES ASSUME LspInv, status = "running", inbox = <<>>, outbox = <<>>
               PROVE  markers = editor
    BY DEF MarkersMatchWhenQuiet
  <2>1. Len(inbox) = 0 /\ Len(outbox) = 0
    OBVIOUS
  <2>2. ASSUME NEW u \in Uris PROVE markers[u] = editor[u]
    <3>1. Leaves(inbox, 0, u, documents[u], editor[u])
      BY <2>1 DEF LspInv, InFollows, Follows
    <3>2. Leaves(outbox, 0, u, markers[u], documents[u])
      BY <2>1 DEF LspInv, OutFollows
    <3> QED BY <3>1, <3>2, LeavesNothing
  <2>3. markers \in [Uris -> Texts] /\ editor \in [Uris -> Texts]
    BY DEF LspInv, Shape
  <2> QED BY <2>2, <2>3
<1> QED BY <1>1, Invariance, PTL
============================================================================
