--------------------------- MODULE FirestoreProofs ---------------------------
(***************************************************************************)
(* For any number of users, writes, changes of user and failures: the      *)
(* bookkeeping of the write stream holds together, every write is sent     *)
(* under its author's token, what was acknowledged is read, the client     *)
(* implements WriteLog and tells the app the truth, and it neither gets    *)
(* stuck nor goes round in circles.                                        *)
(***************************************************************************)
EXTENDS FirestoreWrites, SequenceTheorems, WellFoundedInduction, TLAPS

(* The sequence operators the client is written with.                      *)

LEMMA MinIs ==
    ASSUME NEW S \in SUBSET Nat, NEW m \in S, \A k \in S : m <= k
    PROVE  Min(S) = m
<1>1. \A x \in S : (\A k \in S : x <= k) => x = m
  OBVIOUS
<1>2. QED BY <1>1 DEF Min

LEMMA RemovesHead ==
    ASSUME NEW S, NEW q \in Seq(S), q # <<>>
    PROVE  RemoveFirst(q, Head(q)) = Tail(q)
<1> DEFINE I == {i \in 1..Len(q) : q[i] = Head(q)}
<1>1. Len(q) \in Nat \ {0} /\ 1 \in I
  BY EmptySeq
<1>2. Min(I) = 1
  <2>1. I \in SUBSET Nat /\ \A k \in I : 1 <= k
    BY <1>1
  <2> HIDE DEF I
  <2>2. QED BY <1>1, <2>1, MinIs
<1>3. SelectInSeq(q, LAMBDA v : v = Head(q)) = 1
  BY <1>1, <1>2 DEF SelectInSeq
<1>4. RemoveFirst(q, Head(q)) = RemoveAt(q, 1)
  BY <1>1, <1>3 DEF RemoveFirst
<1>5. RemoveAt(q, 1) = SubSeq(q, 2, Len(q))
  <2>1. SubSeq(q, 1, 0) = <<>>
    BY SubSeqEmpty
  <2>2. SubSeq(q, 2, Len(q)) \in Seq(S)
    BY <1>1, SubSeqProperties, ElementOfSeq
  <2>3. QED BY <2>1, <2>2, ConcatEmptySeq DEF RemoveAt
<1>6. QED BY <1>4, <1>5, TailIsSubSeq

(* The ids of a queue grow.                                                *)
Grows(q) == \A i \in 1..Len(q) : \A j \in 1..(i - 1) : q[j].id < q[i].id

LEMMA AfterPrefix ==
    ASSUME NEW q \in Seq(Batches), Grows(q), NEW k \in 0..Len(q), NEW id,
           id = IF k = 0 THEN 0 ELSE q[k].id
    PROVE  After(q, id) = SubSeq(q, k + 1, Len(q))
<1> DEFINE I == {i \in 1..Len(q) : q[i].id > id}
<1>1. Len(q) \in Nat /\ id \in Nat /\ \A i \in 1..Len(q) : q[i].id \in Nat \ {0}
  <2>1. Len(q) \in Nat
    OBVIOUS
  <2>2. ASSUME NEW i \in 1..Len(q) PROVE q[i].id \in Nat \ {0}
    <3>1. q[i] \in Batches
      BY ElementOfSeq
    <3>2. QED BY <3>1 DEF Batches
  <2>3. k # 0 => k \in 1..Len(q)
    BY <2>1
  <2>4. QED BY <2>1, <2>2, <2>3
<1>2. I = (k + 1)..Len(q)
  <2>1. ASSUME NEW i \in 1..Len(q), i > k PROVE q[i].id > id
    <3>1. CASE k = 0
      BY <3>1, <1>1
    <3>2. CASE k # 0
      <4>1. k \in 1..(i - 1)
        BY <2>1, <3>2, <1>1
      <4>2. QED BY <3>2, <4>1, <1>1 DEF Grows
    <3>3. QED BY <3>1, <3>2
  <2>2. ASSUME NEW i \in 1..k PROVE ~ (q[i].id > id)
    <3>1. CASE i = k
      BY <3>1, <1>1
    <3>2. CASE i # k
      <4>1. i \in 1..(k - 1) /\ k \in 1..Len(q)
        BY <3>2, <1>1
      <4>2. QED BY <3>2, <4>1, <1>1 DEF Grows
    <3>3. QED BY <3>1, <3>2
  <2>3. QED BY <2>1, <2>2, <1>1
<1>3. SelectInSeq(q, LAMBDA b : b.id > id) = IF k = Len(q) THEN 0 ELSE k + 1
  <2>1. CASE k = Len(q)
    BY <2>1, <1>1, <1>2 DEF SelectInSeq
  <2>2. CASE k # Len(q)
    <3>1. I \in SUBSET Nat /\ k + 1 \in I /\ \A j \in I : k + 1 <= j
      BY <2>2, <1>1, <1>2
    <3>2. Min(I) = k + 1 /\ I # {}
      <4> HIDE DEF I
      <4> QED BY <3>1, MinIs
    <3>3. QED BY <2>2, <3>2 DEF SelectInSeq
  <2>3. QED BY <2>1, <2>2
<1>4. CASE k = Len(q)
  <2>1. SubSeq(q, k + 1, Len(q)) = <<>>
    BY <1>1, <1>4, SubSeqEmpty
  <2>2. QED BY <1>3, <1>4, <2>1 DEF After
<1>5. CASE k # Len(q)
  <2>1. k + 1 # 0
    OBVIOUS
  <2>2. QED BY <1>3, <1>5, <2>1 DEF After
<1>6. QED BY <1>4, <1>5

(* What NoTokens leaves: everything but the token, in its order.           *)
OneToken(tasks) ==
    \A i, j \in 1..Len(tasks) : IsToken(tasks, i) /\ IsToken(tasks, j) => i = j

LEMMA NoTokenThere ==
    ASSUME NEW tasks, \A i \in 1..Len(tasks) : ~ IsToken(tasks, i)
    PROVE  NoTokens(tasks) = tasks
  BY DEF NoTokens, RemoveFirstMatch, IsToken

LEMMA TokenRemoved ==
    ASSUME NEW S, NEW tasks \in Seq(S), OneToken(tasks),
           NEW k \in 1..Len(tasks), IsToken(tasks, k)
    PROVE  /\ NoTokens(tasks) \in Seq(S)
           /\ Len(NoTokens(tasks)) = Len(tasks) - 1
           /\ \A i \in 1..(Len(tasks) - 1) :
                NoTokens(tasks)[i] = IF i < k THEN tasks[i] ELSE tasks[i + 1]
<1> DEFINE I == {i \in 1..Len(tasks) : tasks[i].kind = "token"}
<1>1. Len(tasks) \in Nat
  OBVIOUS
<1>2. I = {k}
  BY DEF OneToken, IsToken
<1>3. Min(I) = k
  BY <1>2, MinIs
<1>4. SelectInSeq(tasks, LAMBDA t : t.kind = "token") = k
  BY <1>2, <1>3 DEF SelectInSeq
<1>5. NoTokens(tasks) = RemoveAt(tasks, k)
  BY <1>2, <1>4 DEF NoTokens, RemoveFirstMatch
<1>6. /\ SubSeq(tasks, 1, k - 1) \in Seq(S)
      /\ Len(SubSeq(tasks, 1, k - 1)) = k - 1
      /\ \A i \in 1..(k - 1) : SubSeq(tasks, 1, k - 1)[i] = tasks[i]
  <2>1. \A i \in 1..(k - 1) : tasks[i] \in S
    BY <1>1, ElementOfSeq
  <2>2. QED BY <2>1, <1>1, SubSeqProperties
<1>7. /\ SubSeq(tasks, k + 1, Len(tasks)) \in Seq(S)
      /\ Len(SubSeq(tasks, k + 1, Len(tasks))) = Len(tasks) - k
      /\ \A i \in 1..(Len(tasks) - k) :
            SubSeq(tasks, k + 1, Len(tasks))[i] = tasks[k + i]
  <2>1. \A i \in (k + 1)..Len(tasks) : tasks[i] \in S
    BY <1>1, ElementOfSeq
  <2>2. QED BY <2>1, <1>1, SubSeqProperties
<1>8. QED
  <2> DEFINE s == SubSeq(tasks, 1, k - 1)
             t == SubSeq(tasks, k + 1, Len(tasks))
  <2>1. RemoveAt(tasks, k) = s \o t
    BY DEF RemoveAt
  <2>2. /\ s \in Seq(S) /\ Len(s) = k - 1 /\ \A i \in 1..(k - 1) : s[i] = tasks[i]
        /\ t \in Seq(S) /\ Len(t) = Len(tasks) - k
        /\ \A i \in 1..(Len(tasks) - k) : t[i] = tasks[k + i]
    BY <1>6, <1>7
  <2> HIDE DEF s, t
  <2>3. /\ s \o t \in Seq(S) /\ Len(s \o t) = Len(s) + Len(t)
        /\ \A i \in 1..Len(s) + Len(t) :
              (s \o t)[i] = IF i <= Len(s) THEN s[i] ELSE t[i - Len(s)]
    BY <2>2, ConcatProperties
  <2>4. ASSUME NEW i \in 1..(Len(tasks) - 1)
        PROVE  (s \o t)[i] = IF i < k THEN tasks[i] ELSE tasks[i + 1]
    <3>1. i \in 1..Len(s) + Len(t)
      BY <1>1, <2>2
    <3>2. CASE i < k
      <4>1. i \in 1..(k - 1) /\ i <= Len(s)
        BY <1>1, <2>2, <3>2
      <4>2. QED BY <4>1, <2>2, <2>3, <3>1, <3>2
    <3>3. CASE ~ (i < k)
      <4>1. /\ i - (k - 1) \in 1..(Len(tasks) - k) /\ ~ (i <= Len(s))
            /\ k + (i - (k - 1)) = i + 1
        BY <1>1, <2>2, <3>3
      <4>2. t[i - (k - 1)] = tasks[i + 1]
        BY <4>1, <2>2
      <4>3. (s \o t)[i] = t[i - (k - 1)]
        BY <4>1, <3>1, <2>2, <2>3
      <4>4. QED BY <4>2, <4>3, <3>3
    <3>4. QED BY <3>2, <3>3
  <2>5. Len(s) + Len(t) = Len(tasks) - 1
    BY <1>1, <2>2
  <2>6. QED BY <1>5, <2>1, <2>3, <2>4, <2>5

-----------------------------------------------------------------------------
(* Filling the pipeline.                                                   *)

(* How much of a queue the pipeline holds.                                 *)
Room(q) == IF Len(q) < MaxPending THEN Len(q) ELSE MaxPending

LEMMA RoomType ==
    ASSUME NEW q \in Seq(Batches)
    PROVE  Len(q) \in Nat /\ Room(q) \in 0..Len(q) /\ MaxPending \in Nat \ {0}
           /\ Room(q) <= MaxPending /\ (Room(q) = 0 <=> q = <<>>)
<1>1. Len(q) \in Nat /\ (q # <<>> => Len(q) \in Nat \ {0}) /\ (q = <<>> => Len(q) = 0)
  BY EmptySeq
<1>2. QED BY <1>1, MaxPendingAssumption DEF Room

(* A piece of a queue, and its beginning.                                  *)
LEMMA Piece ==
    ASSUME NEW q \in Seq(Batches), NEW k \in Nat, NEW n \in k..Len(q)
    PROVE  /\ SubSeq(q, k + 1, n) \in Seq(Batches)
           /\ Len(SubSeq(q, k + 1, n)) = n - k
           /\ \A i \in 1..(n - k) : SubSeq(q, k + 1, n)[i] = q[k + i]
           /\ SubSeq(q, k + 1, n) = <<>> <=> n = k
<1>1. Len(q) \in Nat /\ k + 1 \in Nat /\ n \in Nat
      /\ \A i \in (k + 1)..n : q[i] \in Batches
  BY ElementOfSeq
<1>2. /\ SubSeq(q, k + 1, n) \in Seq(Batches)
      /\ Len(SubSeq(q, k + 1, n)) = IF k + 1 <= n THEN n - (k + 1) + 1 ELSE 0
      /\ \A i \in 1..(n - (k + 1) + 1) :
            SubSeq(q, k + 1, n)[i] = q[k + 1 + i - 1]
  BY <1>1, SubSeqProperties
<1>3. /\ (IF k + 1 <= n THEN n - (k + 1) + 1 ELSE 0) = n - k
      /\ n - (k + 1) + 1 = n - k /\ \A i \in 1..(n - k) : k + 1 + i - 1 = k + i
  BY <1>1
<1>4. QED BY <1>1, <1>2, <1>3, EmptySeq

LEMMA Prefix ==
    ASSUME NEW q \in Seq(Batches), NEW n \in 0..Len(q)
    PROVE  /\ SubSeq(q, 1, n) \in Seq(Batches)
           /\ Len(SubSeq(q, 1, n)) = n
           /\ \A i \in 1..n : SubSeq(q, 1, n)[i] = q[i]
           /\ SubSeq(q, 1, n) = <<>> <=> n = 0
<1>1. 0 \in Nat /\ n \in 0..Len(q) /\ Len(q) \in Nat /\ 0 + 1 = 1 /\ n - 0 = n
      /\ \A i \in 1..n : 0 + i = i
  OBVIOUS
<1>2. /\ SubSeq(q, 0 + 1, n) \in Seq(Batches)
      /\ Len(SubSeq(q, 0 + 1, n)) = n - 0
      /\ \A i \in 1..(n - 0) : SubSeq(q, 0 + 1, n)[i] = q[0 + i]
      /\ SubSeq(q, 0 + 1, n) = <<>> <=> n = 0
  BY <1>1, Piece
<1>3. QED BY <1>1, <1>2

LEMMA WritesOfPiece ==
    ASSUME NEW bs \in Seq(Batches)
    PROVE  /\ WritesOf(bs) \in Seq(Messages)
           /\ Len(WritesOf(bs)) = Len(bs)
           /\ \A i \in 1..Len(bs) : WritesOf(bs)[i] = WriteOf(bs[i])
           /\ WritesOf(bs) = <<>> <=> bs = <<>>
<1>1. \A i \in 1..Len(bs) : WriteOf(bs[i]) \in Messages
  BY ElementOfSeq DEF WriteOf, Messages
<1>2. Len(bs) \in Nat
  OBVIOUS
<1>3. WritesOf(bs) \in [1..Len(bs) -> Messages]
  BY <1>1 DEF WritesOf
<1>4. WritesOf(bs) \in Seq(Messages)
  BY <1>2, <1>3, SeqDef
<1>5. Len(WritesOf(bs)) = Len(bs)
  BY <1>2, <1>3, <1>4, LenProperties
<1>6. QED BY <1>4, <1>5, EmptySeq DEF WritesOf

LEMMA PieceOfPiece ==
    ASSUME NEW q \in Seq(Batches), NEW k \in Nat, NEW n \in k..Len(q),
           NEW next, next = SubSeq(q, k + 1, Len(q))
    PROVE  SubSeq(next, 1, n - k) = SubSeq(q, k + 1, n)
<1>1. Len(q) \in Nat /\ Len(q) \in k..Len(q) /\ n - k \in 0..(Len(q) - k)
  OBVIOUS
<1>2. /\ next \in Seq(Batches) /\ Len(next) = Len(q) - k
      /\ \A i \in 1..(Len(q) - k) : next[i] = q[k + i]
  BY <1>1, Piece
<1>3. /\ SubSeq(next, 1, n - k) \in Seq(Batches)
      /\ Len(SubSeq(next, 1, n - k)) = n - k
      /\ \A i \in 1..(n - k) : SubSeq(next, 1, n - k)[i] = next[i]
  BY <1>1, <1>2, Prefix
<1>4. /\ SubSeq(q, k + 1, n) \in Seq(Batches)
      /\ Len(SubSeq(q, k + 1, n)) = n - k
      /\ \A i \in 1..(n - k) : SubSeq(q, k + 1, n)[i] = q[k + i]
  BY <1>1, Piece
<1>5. \A i \in 1..(n - k) : SubSeq(next, 1, n - k)[i] = SubSeq(q, k + 1, n)[i]
  BY <1>1, <1>2, <1>3, <1>4
<1>6. QED BY <1>3, <1>4, <1>5, SeqEqual

(* FillWritePipeline extends a pipeline of k batches to all there is room  *)
(* for.                                                                    *)
Sent(r, bs) == IF Ready(r) THEN WritesOf(bs) ELSE <<>>

LEMMA FillIs ==
    ASSUME NEW r \in Remotes, NEW q \in Seq(Batches), Grows(q),
           NEW k \in 0..Room(q), r.pipeline = SubSeq(q, 1, k)
    PROVE  LET n == Room(q)
               sent == Sent(r, SubSeq(q, k + 1, n))
           IN  Fill(r, q) = StartIfNeeded([r EXCEPT
                  !.pipeline = SubSeq(q, 1, n),
                  !.out = @ \o sent,
                  !.idle = IF n = 0 THEN r.state = "open" ELSE @ /\ sent = <<>>])
<1> DEFINE n == Room(q)
           last == IF r.pipeline = <<>> THEN 0 ELSE Last(r.pipeline).id
           next == After(q, last)
           room == MaxPending - Len(r.pipeline)
           added == SubSeq(next, 1, IF room < Len(next) THEN room ELSE Len(next))
<1>1. /\ Len(q) \in Nat /\ n \in 0..Len(q) /\ k \in 0..Len(q) /\ k \in 0..n
      /\ MaxPending \in Nat \ {0} /\ n <= MaxPending
      /\ n = IF Len(q) < MaxPending THEN Len(q) ELSE MaxPending
  BY RoomType DEF Room
<1> HIDE DEF n
<1>2. Len(r.pipeline) = k /\ (r.pipeline = <<>> <=> k = 0)
      /\ \A i \in 1..k : r.pipeline[i] = q[i]
  BY <1>1, Prefix
<1>3. last = IF k = 0 THEN 0 ELSE q[k].id
  BY <1>1, <1>2 DEF Last
<1> HIDE DEF last
<1>4. next = SubSeq(q, k + 1, Len(q))
  BY <1>1, <1>3, AfterPrefix
<1> HIDE DEF next
<1>5. Len(next) = Len(q) - k
  BY <1>1, <1>4, Piece
<1>6. (IF room < Len(next) THEN room ELSE Len(next)) = n - k
  BY <1>1, <1>2, <1>5
<1>7. added = SubSeq(q, k + 1, n)
  BY <1>1, <1>4, <1>6, PieceOfPiece
<1> HIDE DEF added
<1>8. r.pipeline \o added = SubSeq(q, 1, n)
  <2>1. 1 \in 1..(Len(q) + 1) /\ k \in (1 - 1)..Len(q) /\ n \in k..Len(q)
    BY <1>1
  <2>2. QED BY <2>1, <1>7, ConcatAdjacentSubSeq
<1>9. SubSeq(q, 1, n) = <<>> <=> n = 0
  BY <1>1, Prefix
<1>10. Fill(r, q) = StartIfNeeded([r EXCEPT
                  !.pipeline = SubSeq(q, 1, n),
                  !.out = @ \o Sent(r, SubSeq(q, k + 1, n)),
                  !.idle = IF n = 0 THEN r.state = "open"
                           ELSE @ /\ Sent(r, SubSeq(q, k + 1, n)) = <<>>])
  BY <1>7, <1>8, <1>9 DEF Fill, Sent, added, next, last
<1>11. QED BY <1>10 DEF n

-----------------------------------------------------------------------------
(* The inductive invariant.                                                *)

(* What StreamCarriesPipeline needs to be inductive: how far the answers   *)
(* have come also when the server has refused a write, and that only the   *)
(* greeting is sent before the handshake.                                  *)
Carries(r) ==
    /\ r.idle => Ready(r) /\ r.pipeline = <<>>
    /\ r.handshake => r.state = "open"
    /\ r.refused => Ready(r) /\ Len(r.in) < Len(r.pipeline)
    /\ Ready(r) => Len(r.in) <= Len(r.pipeline)
    /\ Ready(r) /\ ~ r.refused =>
         /\ Len(r.in) + Len(r.out) = Len(r.pipeline)
         /\ \A i \in 1..Len(r.out) : r.out[i] = WriteOf(r.pipeline[Len(r.in) + i])
    /\ ~ Ready(r) => Len(r.in) + Len(r.out) = IF r.state = "open" THEN 1 ELSE 0
    /\ r.state = "open" /\ ~ r.handshake /\ r.out # <<>> => r.out = <<Hello>>

Runs(r) == r.pipeline # <<>> => IsStarted(r)

(* The user that is current after the first n tasks, if it was "before"    *)
(* before them.                                                            *)
IsUser(tasks, i) == tasks[i].kind = "user"
LastUser(tasks, n, before, u) ==
    \/ u = before /\ \A i \in 1..n : ~ IsUser(tasks, i)
    \/ \E i \in 1..n : /\ IsUser(tasks, i) /\ tasks[i].user = u
                       /\ \A j \in (i + 1)..n : ~ IsUser(tasks, j)

(* What the main queue brings: the provider learns who the user of FIRAuth *)
(* is, and a token that is still fresh is that user's.                     *)
MainQueueAgrees ==
    /\ LastUser(mainQueue, Len(mainQueue), notified, authUser)
    /\ \A i \in 1..Len(mainQueue) :
         /\ IsToken(mainQueue, i) /\ mainQueue[i].fresh
         /\ \A j \in 1..(i - 1) : ~ IsUser(mainQueue, j)
         => mainQueue[i].token \in {None, notified}
    /\ request # None =>
         (/\ request.fresh /\ \A j \in 1..Len(mainQueue) : ~ IsUser(mainQueue, j)
          => request.asked = authUser)

(* What the worker queue brings: every task finds the user it was made for.*)
WorkerQueueAgrees ==
    /\ LastUser(workerQueue, Len(workerQueue), user, notified)
    /\ \A i \in 1..Len(workerQueue) :
         /\ workerQueue[i].kind = "write" =>
              LastUser(workerQueue, i - 1, user, workerQueue[i].author)
         /\ IsToken(workerQueue, i) /\ workerQueue[i].token # None =>
              LastUser(workerQueue, i - 1, user, workerQueue[i].token)

(* The rows on disk and the stream belong to their user.                   *)
AuthorsAgree ==
    /\ \A u \in Users : \A i \in 1..Len(queues[u]) : queues[u][i].author = u
    /\ remote.state = "open" => remote.token = user

FirestoreInv ==
    /\ TypeOK /\ StartsWithToken /\ IdsGrow /\ PipelineIsFull
    /\ Carries(remote) /\ Runs(remote)
    /\ MainQueueAgrees /\ WorkerQueueAgrees /\ AuthorsAgree
    /\ CallbacksWaitForTheirWrite /\ TakenFromItsAuthor /\ AcknowledgedIsRead

-----------------------------------------------------------------------------
(* Filling keeps the stream in order.                                      *)

StateAfterFill(r, q) ==
    IF IsStarted(r) \/ q = <<>> THEN r.state
    ELSE IF r.state = "error" THEN "backoff" ELSE "starting"

LEMMA FillCarries ==
    ASSUME NEW r \in Remotes, NEW q \in Seq(Batches), Grows(q),
           NEW k \in 0..Room(q), r.pipeline = SubSeq(q, 1, k),
           Carries(r), q = <<>> => r.state # "open" \/ Ready(r),
           NEW f, f = Fill(r, q)
    PROVE  /\ f \in Remotes /\ f.pipeline = SubSeq(q, 1, Room(q))
           /\ Carries(f) /\ Runs(f)
           /\ f.state = StateAfterFill(r, q) /\ f.token = r.token
           /\ f.in = r.in /\ f.handshake = r.handshake
<1> DEFINE n == Room(q)
           sent == Sent(r, SubSeq(q, k + 1, n))
           g == [r EXCEPT !.pipeline = SubSeq(q, 1, n), !.out = @ \o sent,
                          !.idle = IF n = 0 THEN r.state = "open"
                                   ELSE @ /\ sent = <<>>]
<1>1. /\ Len(q) \in Nat /\ n \in 0..Len(q) /\ k \in 0..n /\ k \in Nat
      /\ n \in k..Len(q) /\ k \in 0..Len(q) /\ (n = 0 <=> q = <<>>)
  BY RoomType
<1>2. f = StartIfNeeded(g)
  BY FillIs
<1>3. /\ r.state \in States /\ r.pipeline \in Seq(Batches) /\ r.handshake \in BOOLEAN
      /\ r.idle \in BOOLEAN /\ r.token \in Users \cup {None}
      /\ r.out \in Seq(Messages) /\ r.in \in Seq(Nat) /\ r.refused \in BOOLEAN
  BY DEF Remotes
<1>4. /\ SubSeq(q, 1, n) \in Seq(Batches) /\ Len(SubSeq(q, 1, n)) = n
      /\ \A i \in 1..n : SubSeq(q, 1, n)[i] = q[i]
      /\ SubSeq(q, 1, n) = <<>> <=> n = 0
  BY <1>1, Prefix
<1>5. /\ Len(r.pipeline) = k /\ \A i \in 1..k : r.pipeline[i] = q[i]
      /\ r.pipeline = <<>> <=> k = 0
  BY <1>1, Prefix
<1>6. /\ SubSeq(q, k + 1, n) \in Seq(Batches) /\ Len(SubSeq(q, k + 1, n)) = n - k
      /\ \A i \in 1..(n - k) : SubSeq(q, k + 1, n)[i] = q[k + i]
      /\ SubSeq(q, k + 1, n) = <<>> <=> n = k
  BY <1>1, Piece
<1>7. /\ sent \in Seq(Messages)
      /\ Ready(r) => /\ Len(sent) = n - k
                     /\ \A i \in 1..(n - k) : sent[i] = WriteOf(q[k + i])
                     /\ sent = <<>> <=> n = k
      /\ ~ Ready(r) => sent = <<>>
  <2>1. CASE Ready(r)
    <3> DEFINE bs == SubSeq(q, k + 1, n)
    <3>1. sent = WritesOf(bs)
      BY <2>1 DEF Sent
    <3>2. /\ bs \in Seq(Batches) /\ Len(bs) = n - k
          /\ \A i \in 1..(n - k) : bs[i] = q[k + i]
          /\ bs = <<>> <=> n = k
      BY <1>6
    <3> HIDE DEF bs, sent
    <3>3. QED BY <2>1, <3>1, <3>2, WritesOfPiece
  <2>2. CASE ~ Ready(r)
    BY <2>2 DEF Sent
  <2>3. QED BY <2>1, <2>2
<1> HIDE DEF n, sent
<1>8. /\ r.out \o sent \in Seq(Messages)
      /\ Len(r.out \o sent) = Len(r.out) + Len(sent)
      /\ \A i \in 1..(Len(r.out) + Len(sent)) :
           (r.out \o sent)[i] = IF i <= Len(r.out) THEN r.out[i]
                                ELSE sent[i - Len(r.out)]
      /\ Len(r.out) \in Nat /\ Len(sent) \in Nat /\ Len(r.in) \in Nat
  BY <1>3, <1>7, ConcatProperties
<1>9. ~ Ready(r) => r.out \o sent = r.out
  BY <1>3, <1>7, ConcatEmptySeq
<1>10. /\ g \in Remotes /\ g.pipeline = SubSeq(q, 1, n) /\ g.out = r.out \o sent
       /\ g.idle = (IF n = 0 THEN r.state = "open" ELSE r.idle /\ sent = <<>>)
       /\ g.state = r.state /\ g.token = r.token /\ g.in = r.in
       /\ g.handshake = r.handshake /\ g.refused = r.refused
  <2>1. (IF n = 0 THEN r.state = "open" ELSE r.idle /\ sent = <<>>) \in BOOLEAN
    BY <1>3
  <2>2. QED BY <1>3, <1>4, <1>8, <2>1 DEF Remotes
<1> HIDE DEF g
<1>11. /\ f \in Remotes /\ f.pipeline = g.pipeline /\ f.out = g.out /\ f.idle = g.idle
       /\ f.token = g.token /\ f.in = g.in /\ f.handshake = g.handshake
       /\ f.refused = g.refused /\ f.state = StateAfterFill(r, q) /\ Runs(f)
  <2>1. g.pipeline = <<>> <=> q = <<>>
    BY <1>1, <1>4, <1>10
  <2>2. CASE IsStarted(r) \/ q = <<>>
    BY <2>1, <2>2, <1>2, <1>10 DEF StartIfNeeded, IsStarted, StateAfterFill, Runs
  <2>3. CASE ~ (IsStarted(r) \/ q = <<>>)
    <3>1. f = [g EXCEPT !.state = IF @ = "error" THEN "backoff" ELSE "starting"]
      BY <2>1, <2>3, <1>2, <1>10 DEF StartIfNeeded, IsStarted
    <3>2. g \in Remotes /\ g.state = r.state
      BY <1>10
    <3>3. QED BY <2>3, <3>1, <3>2 DEF Remotes, States, IsStarted, StateAfterFill, Runs
  <2>4. QED BY <2>2, <2>3
<1>12. /\ Ready(f) <=> Ready(r)
       /\ f.state = "open" <=> r.state = "open"
  BY <1>10, <1>11 DEF Ready, StateAfterFill, IsStarted
<1>13. Carries(f)
  <2>1. /\ f.idle => Ready(f) /\ f.pipeline = <<>>
        /\ f.handshake => f.state = "open"
    <3>1. r.idle => k = 0 /\ Ready(r)
      BY <1>5 DEF Carries
    <3>2. f.idle => n = 0 /\ Ready(r)
      BY <3>1, <1>1, <1>7, <1>10, <1>11
    <3>3. QED BY <3>2, <1>4, <1>10, <1>11, <1>12 DEF Carries
  <2>2. /\ f.refused => Ready(f) /\ Len(f.in) < Len(f.pipeline)
        /\ Ready(f) => Len(f.in) <= Len(f.pipeline)
    BY <1>1, <1>4, <1>5, <1>8, <1>10, <1>11, <1>12 DEF Carries
  <2>3. ASSUME Ready(f), ~ f.refused
        PROVE  /\ Len(f.in) + Len(f.out) = Len(f.pipeline)
               /\ \A i \in 1..Len(f.out) :
                     f.out[i] = WriteOf(f.pipeline[Len(f.in) + i])
    <3>1. /\ Ready(r) /\ Len(r.in) + Len(r.out) = k
          /\ \A i \in 1..Len(r.out) : r.out[i] = WriteOf(r.pipeline[Len(r.in) + i])
      BY <2>3, <1>5, <1>10, <1>11, <1>12 DEF Carries
    <3> DEFINE in == Len(r.in)
               out == Len(r.out)
    <3>2. /\ in \in Nat /\ out \in Nat /\ n \in Nat /\ k \in 0..n /\ in + out = k
      <4>1. in \in Nat /\ out \in Nat
        BY <1>8
      <4>2. n \in Nat /\ k \in 0..n
        BY <1>1
      <4>3. QED BY <3>1, <4>1, <4>2
    <3>3. /\ Len(f.in) = in /\ f.out = r.out \o sent
          /\ Len(sent) = n - k /\ Len(r.out \o sent) = out + (n - k)
      <4>1. /\ f.in = r.in /\ f.out = r.out \o sent /\ Len(sent) = n - k
        BY <3>1, <1>7, <1>10, <1>11
      <4>2. QED BY <4>1, <1>8
    <3>4. \A i \in 1..(out + (n - k)) :
            (r.out \o sent)[i] = IF i <= out THEN r.out[i] ELSE sent[i - out]
      BY <3>3, <1>8
    <3>5. \A i \in 1..out : r.out[i] = WriteOf(r.pipeline[in + i])
      BY <3>1
    <3> HIDE DEF in, out
    <3>6. out + (n - k) \in Nat /\ in + (out + (n - k)) = n
      BY <3>2
    <3>7. ASSUME NEW i \in 1..(out + (n - k))
          PROVE  (r.out \o sent)[i] = WriteOf(q[in + i])
      <4>1. CASE i <= out
        <5>1. i \in 1..out /\ in + i \in 1..k
          BY <4>1, <3>2
        <5>2. QED BY <5>1, <4>1, <3>4, <3>5, <1>5
      <4>2. CASE ~ (i <= out)
        <5>1. i - out \in 1..(n - k) /\ k + (i - out) = in + i
          BY <4>2, <3>2
        <5>2. QED BY <5>1, <4>2, <3>1, <3>4, <1>7
      <4>3. QED BY <4>1, <4>2
    <3>8. \A i \in 1..(out + (n - k)) : f.pipeline[in + i] = q[in + i]
      <4>1. \A i \in 1..(out + (n - k)) : in + i \in 1..n
        BY <3>2
      <4>2. QED BY <4>1, <1>4, <1>10, <1>11
    <3>9. Len(f.pipeline) = n /\ Len(f.out) = out + (n - k)
      BY <3>3, <1>4, <1>10, <1>11
    <3>10. QED BY <3>3, <3>6, <3>7, <3>8, <3>9
  <2>4. /\ ~ Ready(f) => Len(f.in) + Len(f.out) = IF f.state = "open" THEN 1 ELSE 0
        /\ f.state = "open" /\ ~ f.handshake /\ f.out # <<>> => f.out = <<Hello>>
    <3>1. ~ Ready(f) => f.out = r.out /\ f.in = r.in
      BY <1>9, <1>10, <1>11, <1>12
    <3>2. f.state = "open" /\ ~ f.handshake => ~ Ready(f) /\ r.state = "open" /\ ~ r.handshake
      BY <1>10, <1>11, <1>12 DEF Ready
    <3>3. QED BY <3>1, <3>2, <1>12 DEF Carries
  <2>5. QED BY <2>1, <2>2, <2>3, <2>4 DEF Carries
<1>14. QED BY <1>10, <1>11, <1>13 DEF n

-----------------------------------------------------------------------------
(* The user after some tasks.                                              *)

LEMMA LastUserSame ==
    ASSUME NEW s, NEW t, NEW n \in Nat, NEW before, NEW u,
           \A i \in 1..n : s[i].kind = t[i].kind /\ (IsUser(s, i) => s[i].user = t[i].user),
           LastUser(s, n, before, u)
    PROVE  LastUser(t, n, before, u)
<1>1. \A i \in 1..n : IsUser(s, i) <=> IsUser(t, i)
  BY DEF IsUser
<1>2. QED BY <1>1 DEF LastUser

LEMMA LastUserAppend ==
    ASSUME NEW S, NEW tasks \in Seq(S), NEW e \in S, NEW before, NEW u
    PROVE  /\ \A n \in 0..Len(tasks) :
                LastUser(tasks, n, before, u) => LastUser(Append(tasks, e), n, before, u)
           /\ e.kind # "user" /\ LastUser(tasks, Len(tasks), before, u)
              => LastUser(Append(tasks, e), Len(tasks) + 1, before, u)
           /\ e.kind = "user" /\ e.user = u
              => LastUser(Append(tasks, e), Len(tasks) + 1, before, u)
<1> DEFINE t == Append(tasks, e)
<1>1. /\ Len(tasks) \in Nat /\ Len(t) = Len(tasks) + 1
      /\ \A i \in 1..Len(tasks) : t[i] = tasks[i]
      /\ t[Len(tasks) + 1] = e
  BY AppendProperties
<1> HIDE DEF t
<1>2. \A n \in 0..Len(tasks) : LastUser(tasks, n, before, u) => LastUser(t, n, before, u)
  <2>1. SUFFICES ASSUME NEW n \in 0..Len(tasks), LastUser(tasks, n, before, u)
                 PROVE  LastUser(t, n, before, u)
    OBVIOUS
  <2>2. n \in Nat /\ \A i \in 1..n : t[i] = tasks[i]
    BY <1>1
  <2>3. QED BY <2>1, <2>2, LastUserSame
<1>3. ASSUME e.kind # "user", LastUser(tasks, Len(tasks), before, u)
      PROVE  LastUser(t, Len(tasks) + 1, before, u)
  <2>1. ~ IsUser(t, Len(tasks) + 1)
    BY <1>1, <1>3 DEF IsUser
  <2>2. \A i \in 1..Len(tasks) : (IsUser(t, i) <=> IsUser(tasks, i)) /\ t[i] = tasks[i]
    BY <1>1 DEF IsUser
  <2>3. \A i \in 1..(Len(tasks) + 1) : i \in 1..Len(tasks) \/ i = Len(tasks) + 1
    BY <1>1
  <2>4. CASE u = before /\ \A i \in 1..Len(tasks) : ~ IsUser(tasks, i)
    BY <2>1, <2>2, <2>3, <2>4 DEF LastUser
  <2>5. ASSUME NEW i \in 1..Len(tasks), IsUser(tasks, i), tasks[i].user = u,
               \A j \in (i + 1)..Len(tasks) : ~ IsUser(tasks, j)
        PROVE  LastUser(t, Len(tasks) + 1, before, u)
    <3>1. \A j \in (i + 1)..(Len(tasks) + 1) : ~ IsUser(t, j)
      <4>1. SUFFICES ASSUME NEW j \in (i + 1)..(Len(tasks) + 1) PROVE ~ IsUser(t, j)
        OBVIOUS
      <4>2. CASE j = Len(tasks) + 1
        BY <4>2, <2>1
      <4>3. CASE j # Len(tasks) + 1
        <5>1. j \in (i + 1)..Len(tasks) /\ j \in 1..Len(tasks)
          BY <4>3, <1>1
        <5>2. QED BY <5>1, <2>2, <2>5
      <4>4. QED BY <4>2, <4>3
    <3>2. i \in 1..(Len(tasks) + 1) /\ IsUser(t, i) /\ t[i].user = u
      BY <1>1, <2>2, <2>5
    <3>3. QED BY <3>1, <3>2 DEF LastUser
  <2>6. QED BY <1>3, <2>4, <2>5 DEF LastUser
<1>4. ASSUME e.kind = "user", e.user = u
      PROVE  LastUser(t, Len(tasks) + 1, before, u)
  <2>1. IsUser(t, Len(tasks) + 1) /\ t[Len(tasks) + 1].user = u
    BY <1>1, <1>4 DEF IsUser
  <2>2. Len(tasks) + 1 \in 1..(Len(tasks) + 1)
        /\ (Len(tasks) + 1 + 1)..(Len(tasks) + 1) = {}
    BY <1>1
  <2>3. QED BY <2>1, <2>2 DEF LastUser
<1>5. QED BY <1>2, <1>3, <1>4 DEF t

AfterHead(tasks, before) == IF Head(tasks).kind = "user" THEN Head(tasks).user ELSE before

LEMMA LastUserTail ==
    ASSUME NEW S, NEW tasks \in Seq(S), tasks # <<>>, NEW n \in 1..Len(tasks),
           NEW before, NEW u, LastUser(tasks, n, before, u)
    PROVE  LastUser(Tail(tasks), n - 1, AfterHead(tasks, before), u)
<1> DEFINE t == Tail(tasks)
<1>1. /\ Len(tasks) \in Nat /\ Len(t) = Len(tasks) - 1 /\ n \in Nat
      /\ \A i \in 1..(Len(tasks) - 1) : t[i] = tasks[i + 1]
      /\ Head(tasks) = tasks[1]
  BY HeadTailProperties
<1> HIDE DEF t
<1>2. \A i \in 1..(n - 1) : /\ t[i] = tasks[i + 1] /\ i + 1 \in 1..n
                            /\ IsUser(t, i) <=> IsUser(tasks, i + 1)
  BY <1>1 DEF IsUser
<1>3. CASE u = before /\ \A i \in 1..n : ~ IsUser(tasks, i)
  <2>1. ~ IsUser(tasks, 1)
    BY <1>1, <1>3
  <2>2. AfterHead(tasks, before) = u
    BY <2>1, <1>1, <1>3 DEF AfterHead, IsUser
  <2>3. QED BY <1>2, <1>3, <2>2 DEF LastUser, t
<1>4. ASSUME NEW i \in 1..n, IsUser(tasks, i), tasks[i].user = u,
             \A j \in (i + 1)..n : ~ IsUser(tasks, j)
      PROVE  LastUser(t, n - 1, AfterHead(tasks, before), u)
  <2>1. CASE i = 1
    <3>1. AfterHead(tasks, before) = u
      BY <2>1, <1>1, <1>4 DEF AfterHead, IsUser
    <3>2. \A j \in 1..(n - 1) : j + 1 \in (i + 1)..n
      BY <2>1, <1>1
    <3>3. QED BY <3>1, <3>2, <1>2, <1>4 DEF LastUser
  <2>2. CASE i # 1
    <3>1. i - 1 \in 1..(n - 1) /\ i - 1 + 1 = i
      BY <2>2, <1>1
    <3>2. IsUser(t, i - 1) /\ t[i - 1].user = u
      BY <3>1, <1>2, <1>4
    <3>3. \A j \in (i - 1 + 1)..(n - 1) : j \in 1..(n - 1) /\ j + 1 \in (i + 1)..n
      BY <3>1, <1>1
    <3>4. QED BY <3>1, <3>2, <3>3, <1>2, <1>4 DEF LastUser
  <2>3. QED BY <2>1, <2>2
<1>5. QED BY <1>3, <1>4 DEF LastUser, t

(* Taking out a task that is not a change of user.                         *)
LEMMA LastUserWithout ==
    ASSUME NEW tasks, NEW t, NEW k \in Nat \ {0}, ~ IsUser(tasks, k),
           NEW n \in Nat, NEW m \in {n, n + 1},
           m = n => n < k, m = n + 1 => n >= k - 1,
           \A i \in 1..n : t[i] = IF i < k THEN tasks[i] ELSE tasks[i + 1],
           NEW before, NEW u, LastUser(tasks, m, before, u)
    PROVE  LastUser(t, n, before, u)
<1>1. \A i \in 1..n : /\ i < k => i \in 1..m /\ (IsUser(t, i) <=> IsUser(tasks, i))
                      /\ ~ (i < k) => /\ i + 1 \in 1..m
                                      /\ IsUser(t, i) <=> IsUser(tasks, i + 1)
  BY DEF IsUser
<1>2. CASE u = before /\ \A i \in 1..m : ~ IsUser(tasks, i)
  BY <1>1, <1>2 DEF LastUser
<1>3. ASSUME NEW i \in 1..m, IsUser(tasks, i), tasks[i].user = u,
             \A j \in (i + 1)..m : ~ IsUser(tasks, j)
      PROVE  LastUser(t, n, before, u)
  <2>1. i # k
    BY <1>3
  <2>2. CASE i < k
    <3>1. i \in 1..n
      BY <2>2
    <3>2. IsUser(t, i) /\ t[i].user = u
      BY <3>1, <2>2, <1>3 DEF IsUser
    <3>3. ASSUME NEW j \in (i + 1)..n PROVE ~ IsUser(t, j)
      <4>1. j \in 1..n /\ j \in Nat
        BY <3>1
      <4>2. CASE j < k
        <5>1. j \in (i + 1)..m
          BY <4>1, <4>2, <1>1
        <5>2. QED BY <5>1, <4>1, <4>2, <1>1, <1>3
      <4>3. CASE ~ (j < k)
        <5>1. j + 1 \in (i + 1)..m
          BY <4>1, <4>3, <3>1, <1>1
        <5>2. QED BY <5>1, <4>1, <4>3, <1>1, <1>3
      <4>4. QED BY <4>2, <4>3
    <3>4. QED BY <3>1, <3>2, <3>3 DEF LastUser
  <2>3. CASE i > k
    <3>1. i - 1 \in 1..n /\ ~ (i - 1 < k) /\ i - 1 + 1 = i
      BY <2>3
    <3>2. IsUser(t, i - 1) /\ t[i - 1].user = u
      BY <3>1, <1>3 DEF IsUser
    <3>3. ASSUME NEW j \in (i - 1 + 1)..n PROVE ~ IsUser(t, j)
      <4>1. j \in 1..n /\ ~ (j < k)
        BY <2>3, <3>1
      <4>2. j + 1 \in (i + 1)..m
        BY <4>1, <3>1, <1>1
      <4>3. QED BY <4>1, <4>2, <1>1, <1>3
    <3>4. QED BY <3>1, <3>2, <3>3 DEF LastUser
  <2>4. QED BY <2>1, <2>2, <2>3
<1>4. QED BY <1>2, <1>3 DEF LastUser

(* Without its token a queue leads to the same users.                      *)
LEMMA WithoutTokens ==
    ASSUME NEW S, NEW tasks \in Seq(S), OneToken(tasks)
    PROVE  LET t == NoTokens(tasks)
           IN  /\ t \in Seq(S)
               /\ \A before, u : LastUser(tasks, Len(tasks), before, u)
                                 => LastUser(t, Len(t), before, u)
               /\ \A i \in 1..Len(t) :
                    /\ ~ IsToken(t, i)
                    /\ \E j \in 1..Len(tasks) :
                         /\ t[i] = tasks[j]
                         /\ \A before, u : LastUser(tasks, j - 1, before, u)
                                           => LastUser(t, i - 1, before, u)
<1> DEFINE t == NoTokens(tasks)
<1>1. CASE \A i \in 1..Len(tasks) : ~ IsToken(tasks, i)
  <2>1. t = tasks
    BY <1>1, NoTokenThere
  <2>2. QED BY <1>1, <2>1
<1>2. ASSUME NEW k \in 1..Len(tasks), IsToken(tasks, k)
      PROVE  /\ t \in Seq(S)
             /\ \A before, u : LastUser(tasks, Len(tasks), before, u)
                               => LastUser(t, Len(t), before, u)
             /\ \A i \in 1..Len(t) :
                  /\ ~ IsToken(t, i)
                  /\ \E j \in 1..Len(tasks) :
                       /\ t[i] = tasks[j]
                       /\ \A before, u : LastUser(tasks, j - 1, before, u)
                                         => LastUser(t, i - 1, before, u)
  <2>1. /\ t \in Seq(S) /\ Len(t) = Len(tasks) - 1
        /\ \A i \in 1..(Len(tasks) - 1) :
             t[i] = IF i < k THEN tasks[i] ELSE tasks[i + 1]
    BY <1>2, TokenRemoved
  <2>2. Len(tasks) \in Nat /\ k \in Nat \ {0} /\ Len(t) \in Nat
    BY <2>1
  <2>3. ~ IsUser(tasks, k)
    BY <1>2 DEF IsToken, IsUser
  <2> HIDE DEF t
  <2>4. ASSUME NEW before, NEW u, LastUser(tasks, Len(tasks), before, u)
        PROVE  LastUser(t, Len(t), before, u)
    <3>1. Len(tasks) = Len(t) + 1 /\ Len(t) >= k - 1
      BY <2>1, <2>2
    <3>2. \A i \in 1..Len(t) : t[i] = IF i < k THEN tasks[i] ELSE tasks[i + 1]
      BY <2>1
    <3>3. Len(tasks) \in {Len(t), Len(t) + 1} /\ Len(tasks) # Len(t)
      BY <3>1, <2>2
    <3>4. QED BY <3>1, <3>2, <3>3, <2>2, <2>3, <2>4, LastUserWithout
  <2>5. ASSUME NEW i \in 1..Len(t)
        PROVE  /\ ~ IsToken(t, i)
               /\ \E j \in 1..Len(tasks) :
                    /\ t[i] = tasks[j]
                    /\ \A before, u : LastUser(tasks, j - 1, before, u)
                                      => LastUser(t, i - 1, before, u)
    <3> DEFINE j == IF i < k THEN i ELSE i + 1
    <3>1. /\ j \in 1..Len(tasks) /\ j # k /\ t[i] = tasks[j]
          /\ i - 1 \in Nat /\ j - 1 \in {i - 1, i - 1 + 1}
          /\ (j - 1 = i - 1 => i - 1 < k) /\ (j - 1 = i - 1 + 1 => i - 1 >= k - 1)
      BY <2>1, <2>2
    <3>2. ~ IsToken(t, i)
      BY <3>1, <1>2 DEF OneToken, IsToken
    <3> HIDE DEF j
    <3>3. ASSUME NEW before, NEW u, LastUser(tasks, j - 1, before, u)
          PROVE  LastUser(t, i - 1, before, u)
      <4>1. \A x \in 1..(i - 1) : t[x] = IF x < k THEN tasks[x] ELSE tasks[x + 1]
        BY <2>1, <2>2
      <4>2. QED BY <4>1, <3>1, <3>3, <2>2, <2>3, LastUserWithout
    <3>4. QED BY <3>1, <3>2, <3>3
  <2>6. QED BY <2>1, <2>4, <2>5
<1>3. QED BY <1>1, <1>2

-----------------------------------------------------------------------------
(* The next batch id.                                                      *)

LEMMA LeastNumber ==
    ASSUME NEW S \in SUBSET Nat, S # {}
    PROVE  \E m \in S : \A k \in S : m <= k
<1> DEFINE R == {ss \in Nat \X Nat : ss[1] < ss[2]}
<1>1. IsWellFoundedOn(R, Nat)
  BY NatLessThanWellFounded DEF OpToRel
<1>2. \A m, k \in Nat : <<k, m>> \notin R => m <= k
  OBVIOUS
<1> HIDE DEF R
<1>3. PICK m \in S : \A k \in S : <<k, m>> \notin R
  BY <1>1, WFMin
<1>4. \A k \in S : m <= k
  BY <1>2, <1>3
<1>5. QED BY <1>4

LEMMA GreatestNumber ==
    ASSUME NEW S \in SUBSET Nat, 0 \in S, NEW n \in Nat, \A k \in S : k < n
    PROVE  \E m \in S : \A k \in S : k <= m
<1> DEFINE B == {b \in Nat : \A k \in S : k <= b}
<1>1. n \in B /\ B \in SUBSET Nat
  OBVIOUS
<1>2. PICK m \in B : \A b \in B : m <= b
  <2> HIDE DEF B
  <2> QED BY <1>1, LeastNumber
<1>3. m \in S
  <2>1. SUFFICES ASSUME m \notin S PROVE FALSE
    OBVIOUS
  <2>2. m # 0 /\ m - 1 \in Nat /\ \A k \in S : k <= m - 1
    BY <2>1
  <2>3. m - 1 \in B
    BY <2>2
  <2>4. QED BY <1>2, <2>2, <2>3
<1>4. QED BY <1>2, <1>3

LEMMA NextBatchId ==
    ASSUME NEW qs \in [Users -> Seq(Batches)], NEW n \in Nat,
           \A u \in Users : Grows(qs[u]) /\ \A i \in 1..Len(qs[u]) : qs[u][i].id < n
    PROVE  /\ LoadNextBatchId(qs) \in Nat \ {0}
           /\ \A u \in Users : \A i \in 1..Len(qs[u]) :
                qs[u][i].id < LoadNextBatchId(qs)
<1> DEFINE S == {0} \cup {Last(qs[u]).id : u \in {v \in Users : qs[v] # <<>>}}
           P(m) == \A u \in Users : qs[u] # <<>> => Last(qs[u]).id <= m
<1>1. ASSUME NEW u \in Users, qs[u] # <<>>
      PROVE  /\ Len(qs[u]) \in 1..Len(qs[u]) /\ Last(qs[u]) = qs[u][Len(qs[u])]
             /\ Last(qs[u]).id \in Nat /\ Last(qs[u]).id < n
             /\ \A i \in 1..Len(qs[u]) : qs[u][i].id \in Nat /\ qs[u][i].id <= Last(qs[u]).id
  <2>1. qs[u] \in Seq(Batches) /\ Len(qs[u]) \in Nat \ {0}
    BY <1>1, EmptySeq
  <2>2. Last(qs[u]) = qs[u][Len(qs[u])]
    BY DEF Last
  <2>3. ASSUME NEW i \in 1..Len(qs[u]) PROVE qs[u][i].id \in Nat
    <3>1. qs[u][i] \in Batches
      BY <2>1, ElementOfSeq
    <3>2. QED BY <3>1 DEF Batches
  <2>4. ASSUME NEW i \in 1..Len(qs[u]) PROVE qs[u][i].id <= Last(qs[u]).id
    <3>1. CASE i = Len(qs[u])
      BY <3>1, <2>1, <2>2, <2>3
    <3>2. CASE i # Len(qs[u])
      <4>1. i \in 1..(Len(qs[u]) - 1) /\ Len(qs[u]) \in 1..Len(qs[u])
        BY <3>2, <2>1
      <4>2. QED BY <4>1, <2>2, <2>3 DEF Grows
    <3>3. QED BY <3>1, <3>2
  <2>5. QED BY <2>1, <2>2, <2>3, <2>4
<1>2. S \in SUBSET Nat /\ 0 \in S /\ \A k \in S \ {0} : k < n
  BY <1>1
<1>3. \A k \in S : k < n + 1
  BY <1>2
<1>4. PICK m \in S : \A k \in S : k <= m
  <2> HIDE DEF S
  <2>1. n + 1 \in Nat
    OBVIOUS
  <2> QED BY <1>2, <1>3, <2>1, GreatestNumber
<1>5. P(m)
  BY <1>4
<1> HIDE DEF S
<1>6. /\ LoadNextBatchId(qs) = 1 + (CHOOSE x \in S : P(x))
      /\ (CHOOSE x \in S : P(x)) \in S /\ P(CHOOSE x \in S : P(x))
  BY <1>4, <1>5 DEF LoadNextBatchId, S
<1>7. PICK x \in S : P(x) /\ LoadNextBatchId(qs) = 1 + x
  BY <1>6
<1>8. ASSUME NEW u \in Users, NEW i \in 1..Len(qs[u])
      PROVE  qs[u][i].id < 1 + x
  <2>1. qs[u] # <<>>
    BY EmptySeq
  <2>2. QED BY <2>1, <1>1, <1>2, <1>7
<1>9. QED BY <1>2, <1>7, <1>8

-----------------------------------------------------------------------------
(* The rows of one user.                                                   *)

IdsBelow(q, n) == \A i \in 1..Len(q) : q[i].id < n

LEMMA IdsGrowIs ==
    IdsGrow <=> \A u \in Users : Grows(queues[u]) /\ IdsBelow(queues[u], nextId)
  BY DEF IdsGrow, Grows, IdsBelow

LEMMA RowAppended ==
    ASSUME NEW q \in Seq(Batches), NEW b \in Batches, Grows(q), IdsBelow(q, b.id)
    PROVE  /\ Append(q, b) \in Seq(Batches) /\ Append(q, b) # <<>>
           /\ Grows(Append(q, b)) /\ IdsBelow(Append(q, b), b.id + 1)
           /\ \A k \in 0..Len(q) : SubSeq(Append(q, b), 1, k) = SubSeq(q, 1, k)
           /\ Room(q) \in 0..Room(Append(q, b))
<1> DEFINE t == Append(q, b)
<1>1. /\ Len(q) \in Nat /\ t \in Seq(Batches) /\ t # <<>> /\ Len(t) = Len(q) + 1
      /\ \A i \in 1..Len(q) : t[i] = q[i]
      /\ t[Len(q) + 1] = b
  BY AppendProperties
<1>2. /\ b.id \in Nat /\ \A i \in 1..Len(q) : q[i].id \in Nat
  <2>1. \A i \in 1..Len(q) : q[i] \in Batches
    BY ElementOfSeq
  <2>2. QED BY <2>1 DEF Batches
<1> HIDE DEF t
<1>3. \A i \in 1..Len(t) : i \in 1..Len(q) \/ i = Len(q) + 1
  BY <1>1
<1>4. Grows(t)
  <2>1. SUFFICES ASSUME NEW i \in 1..Len(t), NEW j \in 1..(i - 1)
                 PROVE  t[j].id < t[i].id
    BY DEF Grows
  <2>2. j \in 1..Len(q)
    BY <1>1
  <2>3. CASE i = Len(q) + 1
    BY <2>2, <2>3, <1>1 DEF IdsBelow
  <2>4. CASE i \in 1..Len(q)
    BY <2>2, <2>4, <1>1 DEF Grows
  <2>5. QED BY <2>3, <2>4, <1>3
<1>5. IdsBelow(t, b.id + 1)
  <2>1. \A i \in 1..Len(q) : t[i].id < b.id + 1
    BY <1>1, <1>2 DEF IdsBelow
  <2>2. t[Len(q) + 1].id < b.id + 1
    BY <1>1, <1>2
  <2>3. QED BY <2>1, <2>2, <1>3 DEF IdsBelow
<1>6. ASSUME NEW k \in 0..Len(q) PROVE SubSeq(t, 1, k) = SubSeq(q, 1, k)
  <2>1. k \in 0..Len(t) /\ \A i \in 1..k : i \in 1..Len(q)
    BY <1>1
  <2>2. /\ SubSeq(t, 1, k) \in Seq(Batches) /\ Len(SubSeq(t, 1, k)) = k
        /\ \A i \in 1..k : SubSeq(t, 1, k)[i] = t[i]
    BY <2>1, <1>1, Prefix
  <2>3. /\ SubSeq(q, 1, k) \in Seq(Batches) /\ Len(SubSeq(q, 1, k)) = k
        /\ \A i \in 1..k : SubSeq(q, 1, k)[i] = q[i]
    BY Prefix
  <2>4. QED BY <2>1, <2>2, <2>3, <1>1, SeqEqual
<1>7. Room(q) \in 0..Room(t)
  BY <1>1, MaxPendingAssumption DEF Room
<1>8. QED BY <1>1, <1>4, <1>5, <1>6, <1>7 DEF t

LEMMA RowRemoved ==
    ASSUME NEW q \in Seq(Batches), q # <<>>, NEW n \in Nat, Grows(q), IdsBelow(q, n)
    PROVE  /\ Tail(q) \in Seq(Batches) /\ Grows(Tail(q)) /\ IdsBelow(Tail(q), n)
           /\ Room(q) - 1 \in 0..Room(Tail(q)) /\ Room(q) \in Nat \ {0}
           /\ SubSeq(q, 1, Room(q)) # <<>>
           /\ Head(SubSeq(q, 1, Room(q))) = Head(q) /\ Head(q) = q[1]
           /\ Tail(SubSeq(q, 1, Room(q))) = SubSeq(Tail(q), 1, Room(q) - 1)
           /\ Len(Tail(q)) = Len(q) - 1
           /\ \A i \in 1..(Len(q) - 1) : Tail(q)[i] = q[i + 1]
<1> DEFINE t == Tail(q)
           k == Room(q)
           r == SubSeq(q, 1, k)
<1>1. /\ Len(q) \in Nat \ {0} /\ t \in Seq(Batches) /\ Len(t) = Len(q) - 1
      /\ \A i \in 1..(Len(q) - 1) : t[i] = q[i + 1]
      /\ Head(q) = q[1] /\ Len(t) \in Nat
  BY HeadTailProperties, EmptySeq
<1>2. k - 1 \in 0..Room(t) /\ k \in 1..Len(q)
  BY <1>1, MaxPendingAssumption DEF Room
<1> HIDE DEF t, k
<1>3. /\ r \in Seq(Batches) /\ r # <<>> /\ Len(r) = k /\ \A i \in 1..k : r[i] = q[i]
  <2>1. k \in 0..Len(q) /\ k # 0
    BY <1>2
  <2>2. QED BY <2>1, Prefix
<1> HIDE DEF r
<1>4. /\ Head(r) = Head(q) /\ Tail(r) \in Seq(Batches) /\ Len(Tail(r)) = k - 1
      /\ \A i \in 1..(k - 1) : Tail(r)[i] = r[i + 1]
  <2>1. 1 \in 1..k
    BY <1>2
  <2>2. QED BY <2>1, <1>1, <1>3, HeadTailProperties
<1>5. Tail(r) = SubSeq(t, 1, k - 1)
  <2>1. k - 1 \in 0..Len(t) /\ \A i \in 1..(k - 1) : i \in 1..(Len(q) - 1) /\ i + 1 \in 1..k
    BY <1>1, <1>2
  <2>2. /\ SubSeq(t, 1, k - 1) \in Seq(Batches) /\ Len(SubSeq(t, 1, k - 1)) = k - 1
        /\ \A i \in 1..(k - 1) : SubSeq(t, 1, k - 1)[i] = t[i]
    BY <2>1, <1>1, Prefix
  <2>3. \A i \in 1..(k - 1) : Tail(r)[i] = SubSeq(t, 1, k - 1)[i]
    BY <2>1, <2>2, <1>1, <1>3, <1>4
  <2>4. QED BY <2>2, <2>3, <1>4, SeqEqual
<1>6. Grows(t)
  <2>1. SUFFICES ASSUME NEW i \in 1..Len(t), NEW j \in 1..(i - 1)
                 PROVE  t[j].id < t[i].id
    BY DEF Grows
  <2>2. /\ i \in 1..(Len(q) - 1) /\ j \in 1..(Len(q) - 1)
        /\ i + 1 \in 1..Len(q) /\ j + 1 \in 1..(i + 1 - 1)
    BY <1>1
  <2>3. QED BY <2>2, <1>1 DEF Grows
<1>7. IdsBelow(t, n)
  <2>1. \A i \in 1..Len(t) : i \in 1..(Len(q) - 1) /\ i + 1 \in 1..Len(q)
    BY <1>1
  <2>2. QED BY <2>1, <1>1 DEF IdsBelow
<1>8. k \in Nat \ {0}
  BY <1>2
<1>9. QED BY <1>1, <1>2, <1>3, <1>4, <1>5, <1>6, <1>7, <1>8 DEF t, k, r

(* A stream at rest, started again if there is something to send.          *)
LEMMA RestCarries ==
    ASSUME NEW state \in {"initial", "error"}, NEW bs \in Seq(Batches)
    PROVE  /\ Idle(state, bs) \in Remotes /\ Carries(Idle(state, bs))
           /\ Idle(state, bs).pipeline = bs /\ Idle(state, bs).state = state
           /\ LET f == StartIfNeeded(Idle(state, bs))
              IN  /\ f \in Remotes /\ Carries(f) /\ Runs(f) /\ f.pipeline = bs
                  /\ f.state = IF bs = <<>> THEN state
                               ELSE IF state = "error" THEN "backoff" ELSE "starting"
<1> DEFINE r == Idle(state, bs)
           f == StartIfNeeded(r)
<1>1. /\ r \in Remotes /\ r.pipeline = bs /\ r.state = state /\ ~ r.idle
      /\ ~ r.handshake /\ r.out = <<>> /\ r.in = <<>> /\ ~ r.refused
  BY DEF Idle, Remotes, States
<1> HIDE DEF r
<1>2. /\ f \in Remotes /\ f.pipeline = bs /\ ~ f.idle
      /\ ~ f.handshake /\ f.out = <<>> /\ f.in = <<>> /\ ~ f.refused
      /\ f.state = IF bs = <<>> THEN state
                   ELSE IF state = "error" THEN "backoff" ELSE "starting"
  BY <1>1 DEF StartIfNeeded, IsStarted, Remotes, States
<1> HIDE DEF f
<1>3. Len(<<>>) + Len(<<>>) = 0
  OBVIOUS
<1>4. Carries(r)
  BY <1>1, <1>3 DEF Carries, Ready
<1>5. Carries(f) /\ Runs(f)
  BY <1>2, <1>3 DEF Carries, Ready, Runs, IsStarted
<1>6. QED BY <1>1, <1>2, <1>4, <1>5 DEF f, r

-----------------------------------------------------------------------------
(* What each action does to the rows, the pipeline and the stream.         *)

StreamPart ==
    /\ queues \in [Users -> Seq(Batches)] /\ nextId \in Nat \ {0} /\ user \in Users
    /\ remote \in Remotes /\ IdsGrow /\ PipelineIsFull
    /\ Carries(remote) /\ Runs(remote)

LEMMA FullPipeline ==
    ASSUME StreamPart
    PROVE  /\ queues[user] \in Seq(Batches) /\ Grows(queues[user])
           /\ IdsBelow(queues[user], nextId)
           /\ remote.pipeline = SubSeq(queues[user], 1, Room(queues[user]))
           /\ Room(queues[user]) \in 0..Len(queues[user])
           /\ remote.pipeline = <<>> <=> queues[user] = <<>>
           /\ remote.pipeline \in Seq(Batches)
<1>1. /\ queues[user] \in Seq(Batches) /\ Grows(queues[user])
      /\ IdsBelow(queues[user], nextId)
      /\ remote.pipeline = SubSeq(queues[user], 1, Room(queues[user]))
  BY IdsGrowIs DEF StreamPart, PipelineIsFull, Room
<1>2. Room(queues[user]) \in 0..Len(queues[user])
      /\ (Room(queues[user]) = 0 <=> queues[user] = <<>>)
  BY <1>1, RoomType
<1>3. QED BY <1>1, <1>2, Prefix

(* The type of the first task.                                             *)
LEMMA HeadTask ==
    ASSUME NEW S, NEW tasks \in Seq(S), tasks # <<>>
    PROVE  /\ Head(tasks) \in S /\ Head(tasks) = tasks[1] /\ Tail(tasks) \in Seq(S)
           /\ Len(tasks) \in Nat \ {0} /\ Len(Tail(tasks)) = Len(tasks) - 1
           /\ \A i \in 1..(Len(tasks) - 1) : Tail(tasks)[i] = tasks[i + 1]
  BY HeadTailProperties, EmptySeq

Tasks == WriteTasks \cup UserTasks \cup TokenTasks

LEMMA TaskKinds ==
    ASSUME NEW t \in Tasks
    PROVE  /\ t.kind = "write" => t \in WriteTasks /\ t.write \in Writes
                                   /\ t.author \in Users
           /\ t.kind = "user" => t \in UserTasks /\ t.user \in Users
           /\ t.kind = "token" => t \in TokenTasks /\ t.token \in Users \cup {None}
                                   /\ t.fresh \in BOOLEAN
           /\ t.kind \in {"write", "user", "token"}
           /\ t.kind # "write" => t \in UserTasks \cup TokenTasks
  BY DEF Tasks, WriteTasks, UserTasks, TokenTasks

LEMMA WriteMutationsStream ==
    ASSUME TypeOK, StreamPart, WriteMutations
    PROVE  /\ StreamPart' /\ remote'.token = remote.token
           /\ queues' = [queues EXCEPT ![user] = Append(@,
                  [id |-> nextId, write |-> Head(workerQueue).write,
                   author |-> Head(workerQueue).author])]
           /\ queues[user] \in Seq(Batches)
           /\ [id |-> nextId, write |-> Head(workerQueue).write,
               author |-> Head(workerQueue).author] \in Batches
           /\ remote'.state = StateAfterFill(remote, queues'[user])
           /\ queues'[user] # <<>>
           /\ remote'.in = remote.in /\ remote'.handshake = remote.handshake
<1> DEFINE task == Head(workerQueue)
           batch == [id |-> nextId, write |-> task.write, author |-> task.author]
           q == queues[user]
           t == Append(q, batch)
<1>1. task \in WriteTasks
  BY HeadTask, TaskKinds DEF TypeOK, Tasks, WriteMutations, Task
<1>2. batch \in Batches /\ batch.id = nextId
  BY <1>1 DEF Batches, WriteTasks, StreamPart
<1> HIDE DEF batch
<1>3. /\ queues' = [queues EXCEPT ![user] = Append(@, batch)] /\ nextId' = nextId + 1
      /\ remote' = Fill(remote, queues'[user]) /\ user' = user
  BY DEF WriteMutations, batch
<1>4. /\ q \in Seq(Batches) /\ Grows(q) /\ IdsBelow(q, batch.id)
      /\ remote.pipeline = SubSeq(q, 1, Room(q)) /\ Room(q) \in 0..Len(q)
  BY <1>2, FullPipeline
<1>5. /\ t \in Seq(Batches) /\ t # <<>> /\ Grows(t) /\ IdsBelow(t, nextId + 1)
      /\ SubSeq(t, 1, Room(q)) = SubSeq(q, 1, Room(q)) /\ Room(q) \in 0..Room(t)
  BY <1>2, <1>4, RowAppended
<1>6. queues' = [queues EXCEPT ![user] = t] /\ queues'[user] = t
  BY <1>3 DEF StreamPart
<1> HIDE DEF t
<1>7. /\ remote' \in Remotes /\ remote'.pipeline = SubSeq(t, 1, Room(t))
      /\ Carries(remote') /\ Runs(remote')
      /\ remote'.state = StateAfterFill(remote, t) /\ remote'.token = remote.token
      /\ remote'.in = remote.in /\ remote'.handshake = remote.handshake
  <2>1. /\ remote \in Remotes /\ Carries(remote) /\ remote' = Fill(remote, t)
        /\ remote.pipeline = SubSeq(t, 1, Room(q))
    BY <1>3, <1>4, <1>5, <1>6 DEF StreamPart
  <2>2. QED BY <2>1, <1>5, FillCarries
<1>8. queues' \in [Users -> Seq(Batches)] /\ nextId' \in Nat \ {0}
  BY <1>3, <1>5, <1>6 DEF StreamPart
<1>9. \A u \in Users : Grows(queues'[u]) /\ IdsBelow(queues'[u], nextId')
  <2>1. SUFFICES ASSUME NEW u \in Users PROVE Grows(queues'[u]) /\ IdsBelow(queues'[u], nextId')
    OBVIOUS
  <2>2. CASE u = user
    BY <2>2, <1>3, <1>5, <1>6
  <2>3. CASE u # user
    <3>1. queues'[u] = queues[u] /\ Grows(queues[u]) /\ IdsBelow(queues[u], nextId)
          /\ queues[u] \in Seq(Batches)
      BY <2>3, <1>6, IdsGrowIs DEF StreamPart
    <3>2. \A i \in 1..Len(queues[u]) : queues[u][i].id \in Nat
      <4>1. \A i \in 1..Len(queues[u]) : queues[u][i] \in Batches
        BY <3>1, ElementOfSeq
      <4>2. QED BY <4>1 DEF Batches
    <3>3. QED BY <3>1, <3>2, <1>3 DEF IdsBelow, StreamPart
  <2>4. QED BY <2>2, <2>3
<1>10. IdsGrow' /\ PipelineIsFull'
  BY <1>3, <1>6, <1>7, <1>9 DEF IdsGrow, Grows, IdsBelow, PipelineIsFull, Room
<1>11. QED
  BY <1>2, <1>3, <1>4, <1>5, <1>6, <1>7, <1>8, <1>10 DEF StreamPart, batch, t

(* The oldest row of the user is removed, and the pipeline filled again    *)
(* from "r", which carries what is left of it.                             *)
LEMMA RemovalStream ==
    ASSUME StreamPart, remote.pipeline # <<>>, RemoveMutationBatch(Head(remote.pipeline)),
           UNCHANGED <<user, nextId>>,
           NEW r \in Remotes, r.pipeline = Tail(remote.pipeline), Carries(r),
           r.state # "open" \/ Ready(r), remote' = Fill(r, queues'[user])
    PROVE  /\ StreamPart' /\ remote'.token = r.token
           /\ remote'.state = StateAfterFill(r, queues'[user])
           /\ remote'.in = r.in /\ remote'.handshake = r.handshake
           /\ queues' = [queues EXCEPT ![user] = Tail(@)]
           /\ queues[user] \in Seq(Batches) /\ queues[user] # <<>>
           /\ Head(remote.pipeline) = Head(queues[user])
<1> DEFINE q == queues[user]
           t == Tail(q)
<1>1. /\ q \in Seq(Batches) /\ Grows(q) /\ IdsBelow(q, nextId) /\ q # <<>>
      /\ remote.pipeline = SubSeq(q, 1, Room(q))
  BY FullPipeline
<1>2. /\ t \in Seq(Batches) /\ Grows(t) /\ IdsBelow(t, nextId)
      /\ Room(q) - 1 \in 0..Room(t) /\ Head(remote.pipeline) = Head(q)
      /\ r.pipeline = SubSeq(t, 1, Room(q) - 1)
  BY <1>1, RowRemoved DEF StreamPart
<1>3. queues' = [queues EXCEPT ![user] = t] /\ queues'[user] = t
  BY <1>1, <1>2, RemovesHead DEF RemoveMutationBatch, StreamPart
<1> HIDE DEF t
<1>4. /\ remote' \in Remotes /\ remote'.pipeline = SubSeq(t, 1, Room(t))
      /\ Carries(remote') /\ Runs(remote')
      /\ remote'.state = StateAfterFill(r, t) /\ remote'.token = r.token
      /\ remote'.in = r.in /\ remote'.handshake = r.handshake
  BY <1>2, <1>3, FillCarries
<1>5. queues' \in [Users -> Seq(Batches)]
  BY <1>2, <1>3 DEF StreamPart
<1>6. \A u \in Users : Grows(queues'[u]) /\ IdsBelow(queues'[u], nextId)
  BY <1>2, <1>3, IdsGrowIs DEF StreamPart
<1>7. IdsGrow' /\ PipelineIsFull'
  BY <1>3, <1>4, <1>6 DEF IdsGrow, Grows, IdsBelow, PipelineIsFull, Room
<1>8. QED BY <1>1, <1>2, <1>3, <1>4, <1>5, <1>7 DEF StreamPart, t

(* The streams start anew for user'.                                       *)
LEMMA RestartStream ==
    ASSUME StreamPart, user' \in Users, UNCHANGED queues,
           nextId' \in {nextId, LoadNextBatchId(queues)},
           remote' = Fill(Idle("initial", <<>>), queues[user'])
    PROVE  /\ StreamPart'
           /\ remote'.state = IF queues[user'] = <<>> THEN "initial" ELSE "starting"
           /\ remote'.in = <<>> /\ ~ remote'.handshake
<1> DEFINE r == Idle("initial", <<>>)
           q == queues[user']
<1>1. r \in Remotes /\ Carries(r) /\ r.pipeline = <<>> /\ r.state = "initial"
      /\ r.in = <<>> /\ ~ r.handshake
  <2>1. <<>> \in Seq(Batches)
    OBVIOUS
  <2>2. QED BY <2>1, RestCarries DEF Idle
<1>2. \A u \in Users : Grows(queues[u]) /\ IdsBelow(queues[u], nextId)
  BY IdsGrowIs DEF StreamPart
<1>3. /\ q \in Seq(Batches) /\ Grows(q) /\ 0 \in 0..Room(q) /\ SubSeq(q, 1, 0) = <<>>
  <2>1. q \in Seq(Batches)
    BY DEF StreamPart
  <2>2. Room(q) \in 0..Len(q) /\ Len(q) \in Nat
    BY <2>1, RoomType
  <2>3. QED BY <2>1, <2>2, <1>2, SubSeqEmpty
<1> HIDE DEF r
<1>4. /\ remote' \in Remotes /\ remote'.pipeline = SubSeq(q, 1, Room(q))
      /\ Carries(remote') /\ Runs(remote') /\ remote'.state = StateAfterFill(r, q)
      /\ remote'.in = r.in /\ remote'.handshake = r.handshake
  <2>1. remote' = Fill(r, q)
    BY DEF r
  <2>2. r.state # "open" /\ r.pipeline = SubSeq(q, 1, 0)
    BY <1>1, <1>3
  <2>3. QED BY <2>1, <2>2, <1>1, <1>3, FillCarries
<1>5. /\ nextId' \in Nat \ {0}
      /\ \A u \in Users : IdsBelow(queues[u], nextId')
  <2>1. CASE nextId' = nextId
    BY <2>1, <1>2 DEF StreamPart
  <2>2. CASE nextId' = LoadNextBatchId(queues)
    <3>1. /\ LoadNextBatchId(queues) \in Nat \ {0}
          /\ \A u \in Users : \A i \in 1..Len(queues[u]) :
               queues[u][i].id < LoadNextBatchId(queues)
      <4>1. queues \in [Users -> Seq(Batches)] /\ nextId \in Nat
        BY DEF StreamPart
      <4>2. \A u \in Users : Grows(queues[u])
                /\ \A i \in 1..Len(queues[u]) : queues[u][i].id < nextId
        BY <1>2 DEF IdsBelow
      <4>3. QED BY <4>1, <4>2, NextBatchId
    <3>2. QED BY <2>2, <3>1 DEF IdsBelow
  <2>3. QED BY <2>1, <2>2
<1>6. IdsGrow' /\ PipelineIsFull'
  BY <1>2, <1>4, <1>5 DEF IdsGrow, Grows, IdsBelow, PipelineIsFull, Room
<1>7. QED BY <1>1, <1>4, <1>5, <1>6 DEF StreamPart, StateAfterFill, IsStarted

(* A change of the stream that leaves the pipeline alone.                  *)
LEMMA SameRows ==
    ASSUME StreamPart, UNCHANGED <<queues, nextId, user>>, remote' \in Remotes,
           remote'.pipeline = remote.pipeline, Carries(remote'),
           Runs(remote')
    PROVE  StreamPart'
  BY DEF StreamPart, IdsGrow, PipelineIsFull

LEMMA StreamFields ==
    ASSUME NEW r \in Remotes
    PROVE  /\ r.state \in States /\ r.pipeline \in Seq(Batches)
           /\ r.handshake \in BOOLEAN /\ r.idle \in BOOLEAN
           /\ r.token \in Users \cup {None} /\ r.out \in Seq(Messages)
           /\ r.in \in Seq(Nat) /\ r.refused \in BOOLEAN
           /\ Len(r.in) \in Nat /\ Len(r.out) \in Nat /\ Len(r.pipeline) \in Nat
           /\ (r.in = <<>> <=> Len(r.in) = 0) /\ (r.out = <<>> <=> Len(r.out) = 0)
           /\ (r.pipeline = <<>> <=> Len(r.pipeline) = 0)
<1>1. /\ r.state \in States /\ r.pipeline \in Seq(Batches)
      /\ r.handshake \in BOOLEAN /\ r.idle \in BOOLEAN
      /\ r.token \in Users \cup {None} /\ r.out \in Seq(Messages)
      /\ r.in \in Seq(Nat) /\ r.refused \in BOOLEAN
  BY DEF Remotes
<1>2. QED BY <1>1, EmptySeq

LEMMA SmallSum ==
    ASSUME NEW a \in Nat, NEW b \in Nat
    PROVE  /\ a + b = 0 => a = 0 /\ b = 0
           /\ a + b = 1 => (a = 0 /\ b = 1) \/ (a = 1 /\ b = 0)
  OBVIOUS

(* Before the handshake a stream holds the greeting or its answer.         *)
LEMMA NotReadyStream ==
    ASSUME NEW r \in Remotes, Carries(r), ~ Ready(r)
    PROVE  /\ ~ r.idle /\ ~ r.refused /\ ~ r.handshake
           /\ r.state # "open" => r.in = <<>> /\ r.out = <<>>
           /\ r.state = "open" => \/ r.in = <<>> /\ Len(r.out) = 1
                                  \/ Len(r.in) = 1 /\ r.out = <<>>
<1>1. ~ r.idle /\ ~ r.refused /\ ~ r.handshake
  BY DEF Carries, Ready
<1>2. Len(r.in) + Len(r.out) = IF r.state = "open" THEN 1 ELSE 0
  BY DEF Carries
<1>3. Len(r.in) \in Nat /\ Len(r.out) \in Nat
  BY StreamFields
<1>4. CASE r.state = "open"
  <2>1. Len(r.in) + Len(r.out) = 1
    BY <1>2, <1>4
  <2>2. (Len(r.in) = 0 /\ Len(r.out) = 1) \/ (Len(r.in) = 1 /\ Len(r.out) = 0)
    BY <2>1, <1>3, SmallSum
  <2>3. QED BY <2>2, <1>1, <1>4, StreamFields
<1>5. CASE r.state # "open"
  <2>1. Len(r.in) + Len(r.out) = 0
    BY <1>2, <1>5
  <2>2. Len(r.in) = 0 /\ Len(r.out) = 0
    BY <2>1, <1>3, SmallSum
  <2>3. QED BY <2>2, <1>1, <1>5, StreamFields
<1>6. QED BY <1>4, <1>5

LEMMA ResumeStartStream ==
    ASSUME StreamPart, StartsWithToken, TypeOK, ResumeStart
    PROVE  /\ StreamPart' /\ remote'.in = <<>> /\ ~ remote'.handshake
           /\ remote.state = "starting" /\ remote'.state # "starting"
           /\ remote'.state = "open" => /\ Head(workerQueue).token # None
                                        /\ remote'.token = Head(workerQueue).token
<1> DEFINE token == Head(workerQueue).token
           bs == remote.pipeline
           next == IF token = None THEN StartIfNeeded(Idle("error", bs))
                   ELSE [remote EXCEPT !.state = "open", !.token = token,
                                       !.out = <<Hello>>]
<1>1. /\ workerQueue # <<>> /\ Head(workerQueue).kind = "token"
      /\ remote' = next /\ UNCHANGED <<queues, nextId, user>>
  BY DEF ResumeStart, Task, localVars
<1>2. /\ Head(workerQueue) = workerQueue[1] /\ 1 \in 1..Len(workerQueue)
      /\ token \in Users \cup {None}
  BY <1>1, HeadTask, TaskKinds DEF TypeOK, Tasks
<1>3. remote.state = "starting"
  BY <1>1, <1>2 DEF StartsWithToken, IsToken
<1>4. /\ remote \in Remotes /\ bs \in Seq(Batches) /\ ~ remote.idle /\ ~ remote.handshake
      /\ ~ remote.refused /\ remote.in = <<>> /\ remote.out = <<>>
  BY <1>3, StreamFields, NotReadyStream DEF StreamPart, Ready
<1>5. CASE token = None
  <2>1. remote' = StartIfNeeded(Idle("error", bs))
    BY <1>1, <1>5
  <2>2. /\ remote' \in Remotes /\ Carries(remote') /\ Runs(remote')
        /\ remote'.pipeline = bs /\ remote'.state \in {"error", "backoff"}
    BY <2>1, <1>4, RestCarries
  <2>3. remote'.in = <<>> /\ ~ remote'.handshake
    BY <2>1 DEF StartIfNeeded, Idle
  <2>4. QED BY <2>2, <2>3, <1>1, <1>3, SameRows
<1>6. CASE token # None
  <2>1. Hello \in Messages /\ <<Hello>> \in Seq(Messages) /\ Len(<<Hello>>) = 1
        /\ Len(<<>>) = 0
    BY DEF Messages
  <2>2. /\ remote' \in Remotes /\ remote'.state = "open" /\ remote'.token = token
        /\ remote'.out = <<Hello>> /\ remote'.in = <<>> /\ remote'.pipeline = bs
        /\ ~ remote'.idle /\ ~ remote'.handshake /\ ~ remote'.refused
    BY <2>1, <1>1, <1>2, <1>4, <1>6 DEF Remotes, States
  <2>3. Carries(remote') /\ Runs(remote')
    BY <2>1, <2>2 DEF Carries, Ready, Runs, IsStarted
  <2>4. QED BY <2>2, <2>3, <1>1, <1>3, <1>6, SameRows
<1>7. QED BY <1>5, <1>6

LEMMA BackoffElapsedStream ==
    ASSUME StreamPart, BackoffElapsed
    PROVE  /\ StreamPart' /\ remote'.state = "starting" /\ remote'.handshake = remote.handshake
           /\ remote'.in = remote.in
<1>1. /\ remote.state = "backoff" /\ remote' = [remote EXCEPT !.state = "starting"]
      /\ UNCHANGED <<queues, nextId, user>> /\ remote \in Remotes
  BY DEF BackoffElapsed, localVars, StreamPart
<1>2. /\ remote' \in Remotes /\ remote'.state = "starting"
      /\ remote'.pipeline = remote.pipeline /\ remote'.idle = remote.idle
      /\ remote'.handshake = remote.handshake /\ remote'.refused = remote.refused
      /\ remote'.in = remote.in /\ remote'.out = remote.out
  BY <1>1 DEF Remotes, States
<1>3. Carries(remote') /\ Runs(remote')
  <2>1. Carries(remote) /\ ~ Ready(remote) /\ ~ Ready(remote')
    BY <1>1, <1>2 DEF StreamPart, Ready
  <2>2. QED BY <2>1, <1>1, <1>2 DEF Carries, Runs, IsStarted
<1>4. QED BY <1>1, <1>2, <1>3, SameRows

(* A stream that ends and keeps its pipeline.                              *)
LEMMA EndedStream ==
    ASSUME StreamPart, UNCHANGED <<queues, nextId, user>>, NEW state \in {"initial", "error"},
           remote' = StartIfNeeded(Idle(state, remote.pipeline))
    PROVE  /\ StreamPart' /\ ~ remote'.handshake /\ remote'.in = <<>>
           /\ remote'.state = IF remote.pipeline = <<>> THEN state
                              ELSE IF state = "error" THEN "backoff" ELSE "starting"
<1>1. remote.pipeline \in Seq(Batches)
  BY StreamFields DEF StreamPart
<1>2. ~ remote'.handshake /\ remote'.in = <<>>
  BY DEF StartIfNeeded, Idle
<1>3. QED BY <1>1, <1>2, RestCarries, SameRows

LEMMA HandshakeStream ==
    ASSUME StreamPart, HandshakeComplete
    PROVE  /\ StreamPart' /\ remote'.state = remote.state /\ remote'.token = remote.token
           /\ remote'.in = <<>>
<1> DEFINE bs == remote.pipeline
           next == [remote EXCEPT
                      !.handshake = TRUE, !.in = Tail(@), !.out = @ \o WritesOf(bs),
                      !.idle = @ /\ bs = <<>>]
<1>1. /\ remote.in # <<>> /\ ~ remote.handshake /\ remote' = next
      /\ UNCHANGED <<queues, nextId, user>> /\ remote \in Remotes
  BY DEF HandshakeComplete, localVars, StreamPart
<1>2. Carries(remote) /\ ~ Ready(remote)
  BY <1>1 DEF StreamPart, Ready
<1>5. /\ remote.state = "open" /\ Len(remote.in) = 1 /\ remote.out = <<>>
      /\ ~ remote.idle /\ ~ remote.refused
  BY <1>1, <1>2, NotReadyStream
<1>6. /\ ~ remote.idle /\ ~ remote.refused /\ remote.out = <<>> /\ bs \in Seq(Batches)
      /\ Tail(remote.in) = <<>>
  <2>2. bs \in Seq(Batches) /\ remote.in \in Seq(Nat)
    BY <1>1, StreamFields
  <2>3. Tail(remote.in) \in Seq(Nat) /\ Len(Tail(remote.in)) = 0
    BY <2>2, <1>1, <1>5, HeadTailProperties
  <2>4. QED BY <1>5, <2>2, <2>3, EmptySeq
<1>7. /\ WritesOf(bs) \in Seq(Messages) /\ <<>> \o WritesOf(bs) = WritesOf(bs)
      /\ Len(WritesOf(bs)) = Len(bs) /\ \A i \in 1..Len(bs) : WritesOf(bs)[i] = WriteOf(bs[i])
      /\ Len(bs) \in Nat
  <2>1. /\ WritesOf(bs) \in Seq(Messages) /\ Len(WritesOf(bs)) = Len(bs)
        /\ \A i \in 1..Len(bs) : WritesOf(bs)[i] = WriteOf(bs[i])
    BY <1>6, WritesOfPiece
  <2>2. QED BY <2>1, <1>6, ConcatEmptySeq
<1>8. /\ remote' \in Remotes /\ remote'.state = "open" /\ remote'.handshake
      /\ remote'.in = <<>> /\ remote'.out = WritesOf(bs) /\ remote'.pipeline = bs
      /\ ~ remote'.idle /\ ~ remote'.refused /\ remote'.token = remote.token
  <2>1. <<>> \in Seq(Nat) /\ (remote.idle /\ bs = <<>>) \in BOOLEAN
    BY <1>6
  <2>2. QED BY <2>1, <1>1, <1>5, <1>6, <1>7 DEF Remotes
<1>9. Carries(remote') /\ Runs(remote')
  <2>1. Len(<<>>) = 0 /\ 0 <= Len(bs) /\ 0 + Len(bs) = Len(bs)
        /\ \A i \in 1..Len(bs) : 0 + i = i
    BY <1>7
  <2>2. QED BY <2>1, <1>7, <1>8 DEF Carries, Ready, Runs, IsStarted
<1>10. QED BY <1>1, <1>5, <1>8, <1>9, SameRows

LEMMA ServerGreetsStream ==
    ASSUME StreamPart, ServerGreets
    PROVE  /\ StreamPart' /\ remote'.state = remote.state /\ remote'.token = remote.token
           /\ ~ Ready(remote) /\ remote'.handshake = remote.handshake
           /\ remote'.pipeline = remote.pipeline
<1>1. /\ remote.out # <<>> /\ ~ remote.refused /\ Head(remote.out).kind = "hello"
      /\ remote' = [remote EXCEPT !.out = Tail(@), !.in = Append(@, 0)]
      /\ UNCHANGED <<queues, nextId, user>> /\ remote \in Remotes /\ Carries(remote)
      /\ Runs(remote)
  BY DEF ServerGreets, Receives, localVars, StreamPart
<1>2. /\ remote.out \in Seq(Messages) /\ Head(remote.out) = remote.out[1]
      /\ Len(remote.out) \in Nat \ {0}
  BY <1>1, StreamFields, EmptySeq, HeadTailProperties
<1>3. ~ Ready(remote)
  <2>1. SUFFICES ASSUME Ready(remote) PROVE FALSE
    OBVIOUS
  <2>2. PICK b : remote.out[1] = WriteOf(b)
    <3>1. PICK a \in Nat, o \in Nat \ {0} : a = Len(remote.in) /\ o = Len(remote.out)
      BY <1>1, <1>2, StreamFields
    <3>2. \A i \in 1..o : remote.out[i] = WriteOf(remote.pipeline[a + i])
      BY <2>1, <3>1, <1>1 DEF Carries
    <3>3. 1 \in 1..o
      BY <3>1
    <3>4. QED BY <3>2, <3>3
  <2>3. remote.out[1].kind = "write"
    BY <2>2 DEF WriteOf
  <2>4. QED BY <2>3, <1>1, <1>2
<1>4. /\ remote.state = "open" /\ remote.in = <<>> /\ Len(remote.out) = 1
      /\ ~ remote.idle /\ ~ remote.handshake
  BY <1>1, <1>3, NotReadyStream
<1>5. Tail(remote.out) = <<>> /\ Append(<<>>, 0) = <<0>> /\ Len(<<0>>) = 1 /\ Len(<<>>) = 0
      /\ <<0>> \in Seq(Nat) /\ <<>> \in Seq(Messages)
  <2>1. Tail(remote.out) \in Seq(Messages) /\ Len(Tail(remote.out)) = 0
    BY <1>1, <1>2, <1>4, HeadTailProperties
  <2>2. Append(<<>>, 0) = <<0>> /\ Len(<<0>>) = 1 /\ Len(<<>>) = 0 /\ <<0>> \in Seq(Nat)
    OBVIOUS
  <2>3. <<>> \in Seq(Messages)
    OBVIOUS
  <2>4. QED BY <2>1, <2>2, <2>3, EmptySeq
<1>6. /\ remote' \in Remotes /\ remote'.state = "open" /\ ~ remote'.handshake
      /\ remote'.in = <<0>> /\ remote'.out = <<>> /\ ~ remote'.idle /\ ~ remote'.refused
      /\ remote'.pipeline = remote.pipeline /\ remote'.token = remote.token
  BY <1>1, <1>4, <1>5 DEF Remotes
<1>7. Carries(remote') /\ Runs(remote')
  BY <1>5, <1>6 DEF Carries, Ready, Runs, IsStarted
<1>8. QED BY <1>1, <1>3, <1>4, <1>6, <1>7, SameRows

(* What the server reads is the next write of the pipeline.                *)
LEMMA ReceivesWrite ==
    ASSUME StreamPart, Receives("write")
    PROVE  /\ Ready(remote) /\ ~ remote.refused
           /\ Len(remote.in) + 1 \in 1..Len(remote.pipeline)
           /\ Head(remote.out).batch = remote.pipeline[Len(remote.in) + 1]
           /\ Len(remote.in) + 1 + (Len(remote.out) - 1) = Len(remote.pipeline)
           /\ Len(remote.out) \in Nat \ {0} /\ Len(remote.in) \in Nat
<1>1. /\ remote.out # <<>> /\ ~ remote.refused /\ Head(remote.out).kind = "write"
      /\ remote \in Remotes /\ Carries(remote)
  BY DEF Receives, StreamPart
<1>2. /\ remote.out \in Seq(Messages) /\ Head(remote.out) = remote.out[1]
      /\ Len(remote.out) \in Nat \ {0} /\ Len(remote.in) \in Nat
      /\ Len(remote.pipeline) \in Nat
  BY <1>1, StreamFields, EmptySeq, HeadTailProperties
<1>3. Ready(remote)
  <2>1. SUFFICES ASSUME ~ Ready(remote) PROVE FALSE
    OBVIOUS
  <2>2. remote.state = "open" /\ ~ remote.handshake
    BY <2>1, <1>1, NotReadyStream
  <2>3. remote.out = <<Hello>>
    BY <2>2, <1>1 DEF Carries
  <2>4. QED BY <2>3, <1>1, <1>2 DEF Hello
<1>4. PICK a \in Nat, o \in Nat, k \in Nat :
         a = Len(remote.in) /\ o = Len(remote.out) /\ k = Len(remote.pipeline)
  BY <1>2
<1>5. /\ a + o = k /\ o # 0
      /\ \A i \in 1..o : remote.out[i] = WriteOf(remote.pipeline[a + i])
  BY <1>1, <1>2, <1>3, <1>4 DEF Carries
<1>6. a + 1 \in 1..k /\ a + 1 + (o - 1) = k /\ 1 \in 1..o
  BY <1>5
<1>7. remote.out[1] = WriteOf(remote.pipeline[a + 1])
  BY <1>5, <1>6
<1>8. Head(remote.out).batch = remote.pipeline[a + 1]
  BY <1>2, <1>7 DEF WriteOf
<1>9. QED BY <1>1, <1>2, <1>3, <1>4, <1>6, <1>8

LEMMA ServerTakesStream ==
    ASSUME StreamPart, TypeOK, ServerTakes
    PROVE  /\ StreamPart' /\ remote'.state = remote.state /\ remote'.token = remote.token
           /\ remote'.handshake = remote.handshake /\ remote'.pipeline = remote.pipeline
           /\ Len(remote'.in) = Len(remote.in) + 1
<1>1. /\ Receives("write") /\ remote.out # <<>>
      /\ remote' = [remote EXCEPT !.out = Tail(@), !.in = Append(@, Len(log'))]
      /\ UNCHANGED <<queues, nextId, user>> /\ remote \in Remotes /\ Carries(remote)
      /\ Runs(remote)
  BY DEF ServerTakes, Receives, localVars, StreamPart
<1>2. Len(log') \in Nat
  <2>1. log \in Seq([write : Writes, author : Users, token : Users])
    BY DEF TypeOK
  <2>2. Len(log') = Len(log) + 1
    BY <2>1 DEF ServerTakes
  <2>3. QED BY <2>1, <2>2
<1>3. /\ Ready(remote) /\ ~ remote.refused
      /\ Len(remote.in) + 1 \in 1..Len(remote.pipeline)
      /\ Len(remote.in) + 1 + (Len(remote.out) - 1) = Len(remote.pipeline)
      /\ Len(remote.out) \in Nat \ {0} /\ Len(remote.in) \in Nat
  BY <1>1, ReceivesWrite
<1> DEFINE ins == Append(remote.in, Len(log'))
           outs == Tail(remote.out)
<1>4. /\ ins \in Seq(Nat) /\ Len(ins) = Len(remote.in) + 1
      /\ outs \in Seq(Messages) /\ Len(outs) = Len(remote.out) - 1
      /\ \A i \in 1..(Len(remote.out) - 1) : outs[i] = remote.out[i + 1]
  BY <1>1, <1>2, StreamFields, AppendProperties, HeadTailProperties
<1>5. \A i \in 1..(Len(remote.out) - 1) :
         outs[i] = WriteOf(remote.pipeline[Len(remote.in) + 1 + i])
  <2>1. PICK a \in Nat, o \in Nat : a = Len(remote.in) /\ o = Len(remote.out)
    BY <1>3
  <2>2. \A i \in 1..o : remote.out[i] = WriteOf(remote.pipeline[a + i])
    BY <1>1, <1>3, <2>1 DEF Carries
  <2>3. \A i \in 1..(o - 1) : i + 1 \in 1..o /\ a + (i + 1) = a + 1 + i
    OBVIOUS
  <2>4. \A i \in 1..(o - 1) : outs[i] = WriteOf(remote.pipeline[a + 1 + i])
    BY <2>1, <2>2, <2>3, <1>4
  <2>5. QED BY <2>1, <2>4
<1> HIDE DEF ins, outs
<1>6. /\ remote' \in Remotes /\ remote'.in = ins /\ remote'.out = outs
      /\ remote'.state = remote.state /\ remote'.handshake = remote.handshake
      /\ remote'.idle = remote.idle /\ remote'.refused = remote.refused
      /\ remote'.pipeline = remote.pipeline /\ remote'.token = remote.token
  BY <1>1, <1>4 DEF Remotes, ins, outs
<1>7. Carries(remote')
  <2>1. Ready(remote') /\ ~ remote'.refused /\ remote'.state = "open" /\ remote'.handshake
    BY <1>3, <1>6 DEF Ready
  <2>2. Len(remote'.in) <= Len(remote'.pipeline)
    BY <1>3, <1>4, <1>6
  <2>3. Len(remote'.in) + Len(remote'.out) = Len(remote'.pipeline)
    BY <1>3, <1>4, <1>6
  <2>4. \A i \in 1..Len(remote'.out) :
           remote'.out[i] = WriteOf(remote'.pipeline[Len(remote'.in) + i])
    BY <1>4, <1>5, <1>6
  <2>5. remote'.idle => remote'.pipeline = <<>>
    BY <1>1, <1>6 DEF Carries
  <2>6. QED BY <2>1, <2>2, <2>3, <2>4, <2>5 DEF Carries
<1>8. Runs(remote')
  BY <1>1, <1>6 DEF Runs, IsStarted
<1>9. QED BY <1>1, <1>4, <1>6, <1>7, <1>8, SameRows

LEMMA ServerRefusesStream ==
    ASSUME StreamPart, ServerRefuses
    PROVE  /\ StreamPart' /\ remote'.state = remote.state /\ remote'.token = remote.token
           /\ remote'.handshake = remote.handshake /\ remote'.in = remote.in
<1>1. /\ Receives("write") /\ remote' = [remote EXCEPT !.out = <<>>, !.refused = TRUE]
      /\ UNCHANGED <<queues, nextId, user>> /\ remote \in Remotes /\ Carries(remote)
      /\ Runs(remote)
  BY DEF ServerRefuses, localVars, StreamPart
<1>2. Ready(remote) /\ Len(remote.in) < Len(remote.pipeline)
  <2>1. /\ Ready(remote) /\ Len(remote.in) + 1 \in 1..Len(remote.pipeline)
        /\ Len(remote.in) \in Nat
    BY <1>1, ReceivesWrite
  <2>2. Len(remote.pipeline) \in Nat
    BY <1>1, StreamFields
  <2>3. QED BY <2>1, <2>2
<1>3. /\ remote' \in Remotes /\ remote'.in = remote.in /\ remote'.refused
      /\ remote'.state = remote.state /\ remote'.handshake = remote.handshake
      /\ remote'.idle = remote.idle /\ remote'.pipeline = remote.pipeline
      /\ remote'.token = remote.token
  <2>1. <<>> \in Seq(Messages)
    OBVIOUS
  <2>2. QED BY <2>1, <1>1 DEF Remotes
<1>4. Carries(remote') /\ Runs(remote')
  <2>1. Len(remote.in) <= Len(remote.pipeline)
    BY <1>1, <1>2 DEF Carries
  <2>2. QED BY <2>1, <1>1, <1>2, <1>3 DEF Carries, Ready, Runs, IsStarted
<1>5. QED BY <1>1, <1>3, <1>4, SameRows

(* An answer: the stream carries what is left of the pipeline.             *)
LEMMA MutationResultStream ==
    ASSUME StreamPart, MutationResult
    PROVE  /\ StreamPart' /\ remote'.token = remote.token /\ remote'.state = "open"
           /\ remote'.handshake /\ Ready(remote)
           /\ remote.in # <<>> /\ remote'.in = Tail(remote.in)
           /\ queues' = [queues EXCEPT ![user] = Tail(@)]
           /\ queues[user] \in Seq(Batches) /\ queues[user] # <<>>
           /\ Head(remote.pipeline) = Head(queues[user])
<1> DEFINE bs == Tail(remote.pipeline)
           ins == Tail(remote.in)
           r == [remote EXCEPT !.pipeline = Tail(@), !.in = Tail(@)]
<1>1. /\ remote.in # <<>> /\ remote.handshake /\ remote' = Fill(r, queues'[user])
      /\ RemoveMutationBatch(Head(remote.pipeline)) /\ UNCHANGED <<user, nextId>>
      /\ remote \in Remotes /\ Carries(remote) /\ Ready(remote)
  BY DEF MutationResult, StreamPart, Carries, Ready
<1>2. /\ Len(remote.in) \in Nat \ {0} /\ Len(remote.pipeline) \in Nat \ {0}
      /\ Len(remote.in) <= Len(remote.pipeline) /\ Len(remote.out) \in Nat
  <2>1. Len(remote.in) <= Len(remote.pipeline)
    BY <1>1 DEF Carries
  <2>2. Len(remote.in) \in Nat \ {0} /\ Len(remote.pipeline) \in Nat /\ Len(remote.out) \in Nat
    BY <1>1, StreamFields
  <2>3. QED BY <2>1, <2>2
<1>3. remote.pipeline # <<>>
  BY <1>1, <1>2, StreamFields
<1>4. /\ bs \in Seq(Batches) /\ Len(bs) = Len(remote.pipeline) - 1
      /\ \A i \in 1..(Len(remote.pipeline) - 1) : bs[i] = remote.pipeline[i + 1]
      /\ ins \in Seq(Nat) /\ Len(ins) = Len(remote.in) - 1
  BY <1>1, <1>3, StreamFields, HeadTailProperties
<1> HIDE DEF bs, ins
<1>5. /\ r \in Remotes /\ r.pipeline = bs /\ r.in = ins /\ r.out = remote.out
      /\ r.state = remote.state /\ r.handshake = remote.handshake
      /\ r.idle = remote.idle /\ r.refused = remote.refused /\ r.token = remote.token
  BY <1>1, <1>4 DEF Remotes, bs, ins
<1> HIDE DEF r
<1>6. Ready(r) /\ r.state = "open" /\ ~ r.idle /\ r.handshake
  BY <1>1, <1>3, <1>5 DEF Ready, Carries
<1>7. Carries(r)
  <2>1. Len(r.in) <= Len(r.pipeline)
    BY <1>2, <1>4, <1>5
  <2>2. r.refused => Len(r.in) < Len(r.pipeline)
    <3>1. remote.refused => Len(remote.in) < Len(remote.pipeline)
      BY <1>1 DEF Carries
    <3>2. QED BY <3>1, <1>2, <1>4, <1>5
  <2>3. ASSUME ~ r.refused
        PROVE  /\ Len(r.in) + Len(r.out) = Len(r.pipeline)
               /\ \A i \in 1..Len(r.out) : r.out[i] = WriteOf(r.pipeline[Len(r.in) + i])
    <3>1. PICK a \in Nat \ {0}, o \in Nat, k \in Nat \ {0} :
             a = Len(remote.in) /\ o = Len(remote.out) /\ k = Len(remote.pipeline)
      BY <1>2
    <3>2. a + o = k /\ \A i \in 1..o : remote.out[i] = WriteOf(remote.pipeline[a + i])
      BY <2>3, <3>1, <1>1, <1>5 DEF Carries
    <3>3. /\ a - 1 + o = k - 1
          /\ \A i \in 1..o : a - 1 + i \in 1..(k - 1) /\ a - 1 + i + 1 = a + i
      BY <3>2
    <3>4. Len(r.in) = a - 1 /\ Len(r.out) = o /\ Len(r.pipeline) = k - 1
      BY <3>1, <1>4, <1>5
    <3>5. \A i \in 1..o : r.out[i] = WriteOf(r.pipeline[a - 1 + i])
      <4>1. SUFFICES ASSUME NEW i \in 1..o
                     PROVE  r.out[i] = WriteOf(r.pipeline[a - 1 + i])
        OBVIOUS
      <4>2. \A j \in 1..(k - 1) : bs[j] = remote.pipeline[j + 1]
        BY <3>1, <1>4
      <4>3. bs[a - 1 + i] = remote.pipeline[a + i]
        BY <3>3, <4>2
      <4>4. QED BY <4>3, <3>2, <1>5
    <3>6. QED BY <3>3, <3>4, <3>5
  <2>4. QED BY <2>1, <2>2, <2>3, <1>6 DEF Carries
<1>8. /\ StreamPart' /\ remote'.token = r.token
      /\ remote'.state = StateAfterFill(r, queues'[user])
      /\ remote'.in = r.in /\ remote'.handshake = r.handshake
      /\ queues' = [queues EXCEPT ![user] = Tail(@)]
      /\ queues[user] \in Seq(Batches) /\ queues[user] # <<>>
      /\ Head(remote.pipeline) = Head(queues[user])
  <2>1. r.pipeline = Tail(remote.pipeline) /\ remote' = Fill(r, queues'[user])
    BY <1>1, <1>5 DEF bs, r
  <2>2. QED BY <2>1, <1>1, <1>3, <1>5, <1>6, <1>7, RemovalStream
<1>9. QED BY <1>1, <1>5, <1>6, <1>8 DEF ins, StateAfterFill, IsStarted

LEMMA WriteErrorStream ==
    ASSUME StreamPart, WriteError
    PROVE  /\ StreamPart'
           /\ remote'.state = IF queues'[user] = <<>> THEN "initial" ELSE "starting"
           /\ remote.state = "open" /\ ~ remote'.handshake
           /\ queues' = [queues EXCEPT ![user] = Tail(@)]
           /\ queues[user] \in Seq(Batches) /\ queues[user] # <<>>
           /\ Head(remote.pipeline) = Head(queues[user])
<1> DEFINE r == Idle("initial", Tail(remote.pipeline))
<1>1. /\ remote.refused /\ remote.handshake /\ remote.pipeline # <<>>
      /\ RemoveMutationBatch(Head(remote.pipeline)) /\ remote' = Fill(r, queues'[user])
      /\ UNCHANGED <<user, nextId>> /\ remote \in Remotes /\ remote.state = "open"
  BY DEF WriteError, StreamPart, Carries
<1>2. Tail(remote.pipeline) \in Seq(Batches)
  BY <1>1, StreamFields, HeadTailProperties
<1>3. /\ r \in Remotes /\ Carries(r) /\ r.pipeline = Tail(remote.pipeline)
      /\ r.state = "initial" /\ ~ r.handshake
  BY <1>2, RestCarries DEF Idle
<1> HIDE DEF r
<1>4. /\ StreamPart' /\ remote'.token = r.token
      /\ remote'.state = StateAfterFill(r, queues'[user])
      /\ remote'.in = r.in /\ remote'.handshake = r.handshake
      /\ queues' = [queues EXCEPT ![user] = Tail(@)]
      /\ queues[user] \in Seq(Batches) /\ queues[user] # <<>>
      /\ Head(remote.pipeline) = Head(queues[user])
  <2>1. r.state # "open" \/ Ready(r)
    BY <1>3
  <2>2. QED BY <2>1, <1>1, <1>3, RemovalStream
<1>5. QED BY <1>1, <1>3, <1>4 DEF StateAfterFill, IsStarted

LEMMA StreamStep ==
    ASSUME TypeOK, StreamPart, StartsWithToken, FirestoreNext
    PROVE  StreamPart'
<1> USE DEF authVars, localVars, serverVars, counters
<1>1. CASE WriteMutations
  BY <1>1, WriteMutationsStream
<1>2. CASE HandleCredentialChange
  <2>1. Head(workerQueue).user \in Users
    BY <1>2, HeadTask, TaskKinds DEF TypeOK, Tasks, HandleCredentialChange, Task
  <2>2. user' \in Users /\ UNCHANGED queues /\ nextId' \in {nextId, LoadNextBatchId(queues)}
        /\ remote' = Fill(Idle("initial", <<>>), queues[user'])
    BY <2>1, <1>2 DEF HandleCredentialChange, RestartNetwork, Restarted
  <2>3. QED BY <2>2, RestartStream
<1>3. CASE ConnectivityChanged
  <2>1. user' \in Users /\ UNCHANGED queues /\ nextId' \in {nextId, LoadNextBatchId(queues)}
        /\ remote' = Fill(Idle("initial", <<>>), queues[user'])
    BY <1>3 DEF ConnectivityChanged, RestartNetwork, Restarted, StreamPart
  <2>2. QED BY <2>1, RestartStream
<1>4. CASE Relaunch
  <2>1. user' \in Users /\ UNCHANGED queues /\ nextId' \in {nextId, LoadNextBatchId(queues)}
        /\ remote' = Fill(Idle("initial", <<>>), queues[user'])
    BY <1>4 DEF Relaunch, TypeOK
  <2>2. QED BY <2>1, RestartStream
<1>5. CASE ResumeStart
  BY <1>5, ResumeStartStream
<1>6. CASE BackoffElapsed
  BY <1>6, BackoffElapsedStream
<1>7. CASE IdleTimeout
  BY <1>7, EndedStream DEF IdleTimeout
<1>8. CASE HandshakeComplete
  BY <1>8, HandshakeStream
<1>9. CASE MutationResult
  BY <1>9, MutationResultStream
<1>10. CASE StreamFails
  BY <1>10, EndedStream DEF StreamFails
<1>11. CASE WriteError
  BY <1>11, WriteErrorStream
<1>12. CASE ServerNext
  <2>1. CASE WatchSends
    BY <2>1 DEF WatchSends, StreamPart, IdsGrow, PipelineIsFull
  <2>2. QED BY <2>1, <1>12, ServerGreetsStream, ServerTakesStream, ServerRefusesStream
            DEF ServerNext
<1>13. CASE Write \/ AuthNext \/ ApplyRemoteEvent
  <2>1. UNCHANGED <<queues, nextId, user, remote>>
    BY <1>13 DEF Write, AuthNext, AuthChanges, AuthAnswers, NoticeUser, PassToken,
                 ApplyRemoteEvent
  <2>2. QED BY <2>1 DEF StreamPart, IdsGrow, PipelineIsFull
<1>14. QED
  BY <1>1, <1>2, <1>3, <1>4, <1>5, <1>6, <1>7, <1>8, <1>9, <1>10, <1>11, <1>12, <1>13
     DEF FirestoreNext, ClientNext

-----------------------------------------------------------------------------
(* Tokens and changes of user on the queues.                               *)

LEMMA StartsWithTokenIs ==
    StartsWithToken <=>
      /\ remote.state = "starting"
           <=> request # None \/ HasToken(mainQueue) \/ HasToken(workerQueue)
      /\ OneToken(mainQueue) /\ OneToken(workerQueue)
      /\ HasToken(mainQueue) \/ HasToken(workerQueue) => request = None
      /\ ~ (HasToken(mainQueue) /\ HasToken(workerQueue))
  BY DEF StartsWithToken, HasToken, OneToken

LEMMA TokenAppended ==
    ASSUME NEW S, NEW tasks \in Seq(S), NEW e \in S
    PROVE  /\ HasToken(Append(tasks, e)) <=> HasToken(tasks) \/ e.kind = "token"
           /\ OneToken(tasks) /\ (e.kind = "token" => ~ HasToken(tasks))
              => OneToken(Append(tasks, e))
<1> DEFINE t == Append(tasks, e)
<1>1. /\ Len(tasks) \in Nat /\ Len(t) = Len(tasks) + 1
      /\ \A i \in 1..Len(tasks) : t[i] = tasks[i]
      /\ t[Len(tasks) + 1] = e
  BY AppendProperties
<1> HIDE DEF t
<1>2. \A i \in 1..Len(t) : i \in 1..Len(tasks) \/ i = Len(tasks) + 1
  BY <1>1
<1>3. 1..Len(tasks) \subseteq 1..Len(t) /\ Len(tasks) + 1 \in 1..Len(t)
  BY <1>1
<1>4. QED BY <1>1, <1>2, <1>3 DEF HasToken, OneToken, IsToken, t

LEMMA TokenTail ==
    ASSUME NEW S, NEW tasks \in Seq(S), tasks # <<>>
    PROVE  /\ Head(tasks).kind # "token" => (HasToken(Tail(tasks)) <=> HasToken(tasks))
           /\ Head(tasks).kind = "token" => HasToken(tasks)
           /\ OneToken(tasks) => /\ OneToken(Tail(tasks))
                                 /\ Head(tasks).kind = "token" => ~ HasToken(Tail(tasks))
<1> DEFINE t == Tail(tasks)
<1>1. /\ Len(tasks) \in Nat \ {0} /\ Len(t) = Len(tasks) - 1 /\ Head(tasks) = tasks[1]
      /\ \A i \in 1..(Len(tasks) - 1) : t[i] = tasks[i + 1]
  BY HeadTask
<1> HIDE DEF t
<1>2. /\ \A i \in 1..Len(t) : i + 1 \in 1..Len(tasks) /\ i + 1 # 1
                              /\ (IsToken(t, i) <=> IsToken(tasks, i + 1))
      /\ 1 \in 1..Len(tasks)
      /\ \A i \in 1..Len(tasks) : i = 1 \/ (i - 1 \in 1..Len(t) /\ i - 1 + 1 = i)
      /\ \A i, j \in 1..Len(t) : i + 1 = j + 1 => i = j
  BY <1>1 DEF IsToken
<1>3. (Head(tasks).kind = "token") <=> IsToken(tasks, 1)
  BY <1>1 DEF IsToken
<1>4. HasToken(t) => HasToken(tasks)
  BY <1>2 DEF HasToken
<1>5. HasToken(tasks) => IsToken(tasks, 1) \/ HasToken(t)
  <2>1. SUFFICES ASSUME NEW i \in 1..Len(tasks), IsToken(tasks, i)
                 PROVE  IsToken(tasks, 1) \/ HasToken(t)
    BY DEF HasToken
  <2>2. CASE i = 1
    BY <2>1, <2>2
  <2>3. CASE i # 1
    <3>1. i - 1 \in 1..Len(t) /\ i - 1 + 1 = i
      BY <2>3, <1>2
    <3>2. IsToken(t, i - 1)
      BY <3>1, <2>1, <1>2
    <3>3. QED BY <3>1, <3>2 DEF HasToken
  <2>4. QED BY <2>2, <2>3
<1>6. IsToken(tasks, 1) => HasToken(tasks)
  BY <1>2 DEF HasToken
<1>7. OneToken(tasks) => OneToken(t) /\ (IsToken(tasks, 1) => ~ HasToken(t))
  BY <1>2 DEF HasToken, OneToken
<1>8. QED BY <1>3, <1>4, <1>5, <1>6, <1>7 DEF t

LEMMA NoTokensTokens ==
    ASSUME NEW S, NEW tasks \in Seq(S), OneToken(tasks)
    PROVE  ~ HasToken(NoTokens(tasks)) /\ OneToken(NoTokens(tasks))
<1>1. \A i \in 1..Len(NoTokens(tasks)) : ~ IsToken(NoTokens(tasks), i)
  BY WithoutTokens
<1>2. QED BY <1>1 DEF HasToken, OneToken

QueuePart ==
    /\ authUser \in Users /\ notified \in Users /\ user \in Users
    /\ mainQueue \in Seq(UserTasks \cup TokenTasks)
    /\ workerQueue \in Seq(Tasks)
    /\ request \in Requests \cup {None}
    /\ StartsWithToken /\ MainQueueAgrees /\ WorkerQueueAgrees

(* What the tasks of the worker queue find when their turn comes.          *)
TasksAgree(tasks, u) ==
    \A i \in 1..Len(tasks) :
       /\ tasks[i].kind = "write" => LastUser(tasks, i - 1, u, tasks[i].author)
       /\ IsToken(tasks, i) /\ tasks[i].token # None =>
            LastUser(tasks, i - 1, u, tasks[i].token)

LEMMA TasksAgreeIs ==
    WorkerQueueAgrees <=> /\ LastUser(workerQueue, Len(workerQueue), user, notified)
                          /\ TasksAgree(workerQueue, user)
  BY DEF WorkerQueueAgrees, TasksAgree

LEMMA TasksAgreeAppend ==
    ASSUME NEW tasks \in Seq(Tasks), NEW e \in Tasks, NEW u, TasksAgree(tasks, u),
           e.kind = "write" => LastUser(tasks, Len(tasks), u, e.author),
           e.kind = "token" /\ e.token # None => LastUser(tasks, Len(tasks), u, e.token)
    PROVE  TasksAgree(Append(tasks, e), u)
<1> DEFINE t == Append(tasks, e)
<1>1. /\ Len(tasks) \in Nat /\ Len(t) = Len(tasks) + 1
      /\ \A i \in 1..Len(tasks) : t[i] = tasks[i]
      /\ t[Len(tasks) + 1] = e
  BY AppendProperties
<1>2. \A n \in 0..Len(tasks) : \A v : LastUser(tasks, n, u, v) => LastUser(t, n, u, v)
  BY LastUserAppend
<1> HIDE DEF t
<1>3. ASSUME NEW i \in 1..Len(t)
      PROVE  /\ t[i].kind = "write" => LastUser(t, i - 1, u, t[i].author)
             /\ IsToken(t, i) /\ t[i].token # None => LastUser(t, i - 1, u, t[i].token)
  <2>1. CASE i = Len(tasks) + 1
    <3>1. i - 1 = Len(tasks) /\ Len(tasks) \in 0..Len(tasks) /\ t[i] = e
      BY <2>1, <1>1
    <3>2. QED BY <3>1, <1>2 DEF IsToken
  <2>2. CASE i # Len(tasks) + 1
    <3>1. i \in 1..Len(tasks) /\ i - 1 \in 0..Len(tasks) /\ t[i] = tasks[i]
      BY <2>2, <1>1
    <3>2. QED BY <3>1, <1>2 DEF IsToken, TasksAgree
  <2>3. QED BY <2>1, <2>2
<1>4. QED BY <1>3 DEF TasksAgree, t

LEMMA TasksAgreeTail ==
    ASSUME NEW tasks \in Seq(Tasks), tasks # <<>>, NEW u, TasksAgree(tasks, u)
    PROVE  /\ TasksAgree(Tail(tasks), AfterHead(tasks, u))
           /\ Head(tasks).kind = "write" => Head(tasks).author = u
           /\ Head(tasks).kind = "token" => Head(tasks).token \in {None, u}
<1> DEFINE t == Tail(tasks)
<1>1. /\ Len(tasks) \in Nat \ {0} /\ Len(t) = Len(tasks) - 1 /\ Head(tasks) = tasks[1]
      /\ \A i \in 1..(Len(tasks) - 1) : t[i] = tasks[i + 1]
  BY HeadTask
<1>2. \A n \in 1..Len(tasks) : \A v :
         LastUser(tasks, n, u, v) => LastUser(t, n - 1, AfterHead(tasks, u), v)
  BY LastUserTail
<1> HIDE DEF t
<1>3. ASSUME NEW i \in 1..Len(t)
      PROVE  /\ t[i].kind = "write" => LastUser(t, i - 1, AfterHead(tasks, u), t[i].author)
             /\ IsToken(t, i) /\ t[i].token # None
                => LastUser(t, i - 1, AfterHead(tasks, u), t[i].token)
  <2>1. i + 1 \in 1..Len(tasks) /\ i \in 1..Len(tasks) /\ i + 1 - 1 = i /\ t[i] = tasks[i + 1]
    BY <1>1
  <2>2. /\ t[i].kind = "write" => LastUser(tasks, i, u, t[i].author)
        /\ IsToken(t, i) /\ t[i].token # None => LastUser(tasks, i, u, t[i].token)
    BY <2>1 DEF TasksAgree, IsToken
  <2>3. QED BY <2>1, <2>2, <1>2
<1>4. \A v : LastUser(tasks, 0, u, v) => v = u
  BY DEF LastUser
<1>5. /\ tasks[1].kind = "write" => LastUser(tasks, 0, u, tasks[1].author)
      /\ IsToken(tasks, 1) /\ tasks[1].token # None => LastUser(tasks, 0, u, tasks[1].token)
  <2>1. 1 \in 1..Len(tasks) /\ 1 - 1 = 0
    BY <1>1
  <2>2. QED BY <2>1 DEF TasksAgree
<1>6. QED BY <1>1, <1>3, <1>4, <1>5 DEF TasksAgree, IsToken, t

LEMMA TasksAgreeNoTokens ==
    ASSUME NEW tasks \in Seq(Tasks), OneToken(tasks), NEW u, TasksAgree(tasks, u)
    PROVE  TasksAgree(NoTokens(tasks), u)
<1> DEFINE t == NoTokens(tasks)
<1>1. \A i \in 1..Len(t) :
         /\ ~ IsToken(t, i)
         /\ \E j \in 1..Len(tasks) :
              /\ t[i] = tasks[j]
              /\ \A before, v : LastUser(tasks, j - 1, before, v)
                                => LastUser(t, i - 1, before, v)
  BY WithoutTokens
<1> HIDE DEF t
<1>2. QED BY <1>1 DEF TasksAgree, t

(* A token that is still fresh, with no change of user before it.          *)
NoUsers(tasks, n) == \A j \in 1..n : ~ IsUser(tasks, j)
FreshAgree(tasks, u) ==
    \A i \in 1..Len(tasks) :
       IsToken(tasks, i) /\ tasks[i].fresh /\ NoUsers(tasks, i - 1)
       => tasks[i].token \in {None, u}

LEMMA MainQueueAgreesIs ==
    MainQueueAgrees <=>
      /\ LastUser(mainQueue, Len(mainQueue), notified, authUser)
      /\ FreshAgree(mainQueue, notified)
      /\ request # None => (request.fresh /\ NoUsers(mainQueue, Len(mainQueue))
                            => request.asked = authUser)
  BY DEF MainQueueAgrees, FreshAgree, NoUsers

LEMMA NoUsersLast ==
    ASSUME NEW tasks, NEW n \in Nat, NEW before, NEW u, LastUser(tasks, n, before, u),
           NoUsers(tasks, n)
    PROVE  u = before
  BY DEF LastUser, NoUsers

LEMMA NoTokenFresh ==
    ASSUME NEW tasks, ~ HasToken(tasks), NEW u
    PROVE  FreshAgree(tasks, u) /\ OneToken(tasks)
  BY DEF HasToken, FreshAgree, OneToken

LEMMA FreshAppended ==
    ASSUME NEW S, NEW tasks \in Seq(S), NEW e \in S, NEW u, FreshAgree(tasks, u),
           e.kind = "token" /\ e.fresh /\ NoUsers(tasks, Len(tasks)) => e.token \in {None, u}
    PROVE  /\ FreshAgree(Append(tasks, e), u)
           /\ NoUsers(Append(tasks, e), Len(Append(tasks, e)))
              => NoUsers(tasks, Len(tasks)) /\ e.kind # "user"
<1> DEFINE t == Append(tasks, e)
<1>1. /\ Len(tasks) \in Nat /\ Len(t) = Len(tasks) + 1
      /\ \A i \in 1..Len(tasks) : t[i] = tasks[i]
      /\ t[Len(tasks) + 1] = e
  BY AppendProperties
<1> HIDE DEF t
<1>2. \A n \in 0..Len(tasks) : NoUsers(t, n) => NoUsers(tasks, n)
  <2>1. SUFFICES ASSUME NEW n \in 0..Len(tasks), NoUsers(t, n), NEW j \in 1..n
                 PROVE  ~ IsUser(tasks, j)
    BY DEF NoUsers
  <2>2. j \in 1..Len(tasks)
    BY <1>1
  <2>3. QED BY <2>1, <2>2, <1>1 DEF NoUsers, IsUser
<1>3. ASSUME NEW i \in 1..Len(t), IsToken(t, i), t[i].fresh, NoUsers(t, i - 1)
      PROVE  t[i].token \in {None, u}
  <2>1. CASE i = Len(tasks) + 1
    <3>1. i - 1 = Len(tasks) /\ Len(tasks) \in 0..Len(tasks) /\ t[i] = e
      BY <2>1, <1>1
    <3>2. QED BY <3>1, <1>2, <1>3 DEF IsToken
  <2>2. CASE i # Len(tasks) + 1
    <3>1. i \in 1..Len(tasks) /\ i - 1 \in 0..Len(tasks) /\ t[i] = tasks[i]
      BY <2>2, <1>1
    <3>2. QED BY <3>1, <1>2, <1>3 DEF IsToken, FreshAgree
  <2>3. QED BY <2>1, <2>2
<1>4. NoUsers(t, Len(t)) => NoUsers(tasks, Len(tasks)) /\ e.kind # "user"
  <2>1. SUFFICES ASSUME NoUsers(t, Len(t))
                 PROVE  NoUsers(tasks, Len(tasks)) /\ e.kind # "user"
    OBVIOUS
  <2>2. /\ \A j \in 1..Len(tasks) : j \in 1..Len(t)
        /\ Len(tasks) + 1 \in 1..Len(t)
    BY <1>1
  <2>3. QED BY <2>1, <2>2, <1>1 DEF NoUsers, IsUser
<1>5. QED BY <1>3, <1>4 DEF FreshAgree, t

-----------------------------------------------------------------------------
(* What each action does to the queues.                                    *)

(* The stream changes, and no token is asked for or dropped.               *)
LEMMA QueueSame ==
    ASSUME QueuePart,
           UNCHANGED <<authUser, notified, user, mainQueue, workerQueue, request>>,
           remote'.state = "starting" <=> remote.state = "starting"
    PROVE  QueuePart'
<1>1. StartsWithToken'
  BY StartsWithTokenIs DEF QueuePart, StartsWithToken
<1>2. MainQueueAgrees' /\ WorkerQueueAgrees'
  BY DEF QueuePart, MainQueueAgrees, WorkerQueueAgrees
<1>3. QED BY <1>1, <1>2 DEF QueuePart

(* A stream that did not start asks for a token if it starts now.          *)
LEMMA Credentials ==
    ASSUME QueuePart, remote.state # "starting", NEW before, before # "starting",
           authUser' = authUser, RequestCredentials(before)
    PROVE  /\ request' \in Requests \cup {None}
           /\ request' # None <=> remote'.state = "starting"
           /\ request' # None => request'.asked = authUser'
           /\ ~ HasToken(mainQueue) /\ ~ HasToken(workerQueue)
<1>1. /\ request = None /\ ~ HasToken(mainQueue) /\ ~ HasToken(workerQueue)
  BY StartsWithTokenIs DEF QueuePart
<1>2. [asked |-> authUser, fresh |-> TRUE] \in Requests
  BY DEF Requests, QueuePart
<1>3. [asked |-> authUser, fresh |-> TRUE] # None
  BY <1>2, NoneAssumption
<1>4. CASE remote'.state = "starting"
  BY <1>1, <1>2, <1>3, <1>4 DEF RequestCredentials
<1>5. CASE remote'.state # "starting"
  BY <1>1, <1>5 DEF RequestCredentials
<1>6. QED BY <1>1, <1>4, <1>5

(* Without tokens on the queues, with the request that the stream needs.   *)
LEMMA QueueWithoutTokens ==
    ASSUME authUser' \in Users, notified' \in Users, user' \in Users,
           mainQueue' \in Seq(UserTasks \cup TokenTasks), workerQueue' \in Seq(Tasks),
           ~ HasToken(mainQueue)', ~ HasToken(workerQueue)',
           request' \in Requests \cup {None},
           request' # None <=> remote'.state = "starting",
           request' # None => request'.asked = authUser',
           LastUser(mainQueue', Len(mainQueue'), notified', authUser'),
           LastUser(workerQueue', Len(workerQueue'), user', notified'),
           TasksAgree(workerQueue', user')
    PROVE  QueuePart'
<1>1. OneToken(mainQueue') /\ OneToken(workerQueue') /\ FreshAgree(mainQueue', notified')
  BY NoTokenFresh
<1>2. ~ HasToken(mainQueue') /\ ~ HasToken(workerQueue')
  OBVIOUS
<1>3. StartsWithToken'
  <2>1. \A i \in 1..Len(mainQueue') : ~ IsToken(mainQueue', i)
    BY <1>2 DEF HasToken
  <2>2. \A i \in 1..Len(workerQueue') : ~ IsToken(workerQueue', i)
    BY <1>2 DEF HasToken
  <2>3. QED BY <2>1, <2>2 DEF StartsWithToken, IsToken
<1>4. MainQueueAgrees'
  BY <1>1 DEF MainQueueAgrees, FreshAgree, IsToken, IsUser, NoUsers, LastUser
<1>5. WorkerQueueAgrees'
  BY DEF WorkerQueueAgrees, TasksAgree, IsToken, IsUser, LastUser
<1>6. QED BY <1>3, <1>4, <1>5 DEF QueuePart

LEMMA QueueCredentials ==
    ASSUME QueuePart, remote.state # "starting",
           UNCHANGED <<authUser, notified, user, mainQueue, workerQueue>>,
           NEW before, before # "starting", RequestCredentials(before)
    PROVE  QueuePart'
<1>1. /\ request' \in Requests \cup {None}
      /\ request' # None <=> remote'.state = "starting"
      /\ request' # None => request'.asked = authUser'
      /\ ~ HasToken(mainQueue) /\ ~ HasToken(workerQueue)
  BY Credentials
<1>2. /\ LastUser(mainQueue, Len(mainQueue), notified, authUser)
      /\ LastUser(workerQueue, Len(workerQueue), user, notified)
      /\ TasksAgree(workerQueue, user)
  BY MainQueueAgreesIs, TasksAgreeIs DEF QueuePart
<1>3. ~ HasToken(mainQueue)' /\ ~ HasToken(workerQueue)'
  BY <1>1 DEF HasToken, IsToken
<1>4. QED BY <1>1, <1>2, <1>3, QueueWithoutTokens DEF QueuePart

(* RestartNetwork, with what is left of the worker queue.                  *)
LEMMA QueueRestart ==
    ASSUME QueuePart, UNCHANGED <<authUser, notified>>, user' \in Users,
           NEW tasks \in Seq(Tasks), OneToken(tasks), TasksAgree(tasks, user'),
           LastUser(tasks, Len(tasks), user', notified),
           mainQueue' = NoTokens(mainQueue), workerQueue' = NoTokens(tasks),
           RequestCredentials("initial")
    PROVE  QueuePart'
<1>1. /\ mainQueue \in Seq(UserTasks \cup TokenTasks) /\ OneToken(mainQueue)
      /\ LastUser(mainQueue, Len(mainQueue), notified, authUser)
  BY StartsWithTokenIs, MainQueueAgreesIs DEF QueuePart
<1>2. /\ mainQueue' \in Seq(UserTasks \cup TokenTasks) /\ ~ HasToken(mainQueue')
      /\ LastUser(mainQueue', Len(mainQueue'), notified, authUser)
  BY <1>1, WithoutTokens, NoTokensTokens
<1>3. /\ workerQueue' \in Seq(Tasks) /\ ~ HasToken(workerQueue')
      /\ LastUser(workerQueue', Len(workerQueue'), user', notified)
      /\ TasksAgree(workerQueue', user')
  BY WithoutTokens, NoTokensTokens, TasksAgreeNoTokens
<1>4. /\ request' \in Requests \cup {None}
      /\ request' # None <=> remote'.state = "starting"
      /\ request' # None => request'.asked = authUser'
  <2>1. [asked |-> authUser, fresh |-> TRUE] \in Requests
    BY DEF Requests, QueuePart
  <2>2. [asked |-> authUser, fresh |-> TRUE] # None
    BY <2>1, NoneAssumption
  <2>3. request' = IF remote'.state # "starting" THEN None
                   ELSE [asked |-> authUser, fresh |-> TRUE]
    BY DEF RequestCredentials
  <2>4. CASE remote'.state = "starting"
    BY <2>1, <2>2, <2>3, <2>4
  <2>5. CASE remote'.state # "starting"
    BY <2>3, <2>5
  <2>6. QED BY <2>4, <2>5
<1>5. ~ HasToken(mainQueue)' /\ ~ HasToken(workerQueue)'
  BY <1>2, <1>3 DEF HasToken, IsToken
<1>6. QED BY <1>2, <1>3, <1>4, <1>5, QueueWithoutTokens DEF QueuePart

(* QueuePart after a step, from its parts.                                 *)
LEMMA QueuePartNext ==
    ASSUME authUser' \in Users, notified' \in Users, user' \in Users,
           mainQueue' \in Seq(UserTasks \cup TokenTasks), workerQueue' \in Seq(Tasks),
           request' \in Requests \cup {None},
           remote'.state = "starting"
             <=> request' # None \/ HasToken(mainQueue') \/ HasToken(workerQueue'),
           OneToken(mainQueue'), OneToken(workerQueue'),
           HasToken(mainQueue') \/ HasToken(workerQueue') => request' = None,
           ~ (HasToken(mainQueue') /\ HasToken(workerQueue')),
           LastUser(mainQueue', Len(mainQueue'), notified', authUser'),
           FreshAgree(mainQueue', notified'),
           request' # None => (request'.fresh /\ NoUsers(mainQueue', Len(mainQueue'))
                               => request'.asked = authUser'),
           LastUser(workerQueue', Len(workerQueue'), user', notified'),
           TasksAgree(workerQueue', user')
    PROVE  QueuePart'
<1>1. StartsWithToken'
  BY DEF StartsWithToken, HasToken, OneToken, IsToken
<1>2. MainQueueAgrees'
  BY DEF MainQueueAgrees, FreshAgree, IsToken, IsUser, NoUsers, LastUser
<1>3. WorkerQueueAgrees'
  BY DEF WorkerQueueAgrees, TasksAgree, IsToken, IsUser, LastUser
<1>4. QED BY <1>1, <1>2, <1>3 DEF QueuePart

LEMMA QueueParts ==
    ASSUME QueuePart
    PROVE  /\ authUser \in Users /\ notified \in Users /\ user \in Users
           /\ mainQueue \in Seq(UserTasks \cup TokenTasks) /\ workerQueue \in Seq(Tasks)
           /\ request \in Requests \cup {None}
           /\ remote.state = "starting"
                <=> request # None \/ HasToken(mainQueue) \/ HasToken(workerQueue)
           /\ OneToken(mainQueue) /\ OneToken(workerQueue)
           /\ HasToken(mainQueue) \/ HasToken(workerQueue) => request = None
           /\ ~ (HasToken(mainQueue) /\ HasToken(workerQueue))
           /\ LastUser(mainQueue, Len(mainQueue), notified, authUser)
           /\ FreshAgree(mainQueue, notified)
           /\ request # None => (request.fresh /\ NoUsers(mainQueue, Len(mainQueue))
                                 => request.asked = authUser)
           /\ LastUser(workerQueue, Len(workerQueue), user, notified)
           /\ TasksAgree(workerQueue, user)
  BY StartsWithTokenIs, MainQueueAgreesIs, TasksAgreeIs DEF QueuePart

LEMMA WriteQueue ==
    ASSUME QueuePart, TypeOK, Write
    PROVE  QueuePart'
<1> DEFINE e == [kind |-> "write", write |-> made + 1, author |-> notified]
<1>1. /\ workerQueue' = Append(workerQueue, e)
      /\ UNCHANGED <<authUser, notified, mainQueue, request, user, remote>>
  BY DEF Write, authVars
<1>2. e \in Tasks /\ e.kind = "write" /\ e.author = notified
  BY BoundAssumption DEF Tasks, WriteTasks, Writes, TypeOK, Write
<1> HIDE DEF e
<1>3. /\ workerQueue' \in Seq(Tasks) /\ Len(workerQueue') = Len(workerQueue) + 1
      /\ workerQueue \in Seq(Tasks)
  BY <1>1, <1>2, QueueParts, AppendProperties
<1>4. /\ LastUser(workerQueue', Len(workerQueue'), user, notified)
      /\ TasksAgree(workerQueue', user)
      /\ HasToken(workerQueue') <=> HasToken(workerQueue)
      /\ OneToken(workerQueue')
  <2>1. LastUser(workerQueue', Len(workerQueue) + 1, user, notified)
    BY <1>1, <1>2, <1>3, QueueParts, LastUserAppend
  <2>2. TasksAgree(workerQueue', user)
    BY <1>1, <1>2, <1>3, QueueParts, TasksAgreeAppend
  <2>3. (HasToken(workerQueue') <=> HasToken(workerQueue)) /\ OneToken(workerQueue')
    BY <1>1, <1>2, <1>3, QueueParts, TokenAppended
  <2>4. QED BY <2>1, <2>2, <2>3, <1>3
<1>5. QED BY <1>1, <1>3, <1>4, QueueParts, QueuePartNext

LEMMA AuthChangesQueue ==
    ASSUME QueuePart, NEW u \in Users, AuthChanges(u)
    PROVE  QueuePart'
<1> DEFINE e == [kind |-> "user", user |-> u]
<1>1. /\ mainQueue' = Append(mainQueue, e) /\ authUser' = u
      /\ UNCHANGED <<notified, workerQueue, request, user, remote>>
  BY DEF AuthChanges
<1>2. e \in UserTasks \cup TokenTasks /\ e.kind = "user" /\ e.user = u
  BY DEF UserTasks
<1> HIDE DEF e
<1>3. /\ mainQueue \in Seq(UserTasks \cup TokenTasks)
      /\ mainQueue' \in Seq(UserTasks \cup TokenTasks)
      /\ Len(mainQueue') = Len(mainQueue) + 1
  BY <1>1, <1>2, QueueParts, AppendProperties
<1>4. LastUser(mainQueue', Len(mainQueue'), notified, u)
  <2>1. LastUser(mainQueue', Len(mainQueue) + 1, notified, u)
    BY <1>1, <1>2, <1>3, LastUserAppend
  <2>2. QED BY <2>1, <1>3
<1>5. /\ HasToken(mainQueue') <=> HasToken(mainQueue)
      /\ OneToken(mainQueue')
  BY <1>1, <1>2, <1>3, QueueParts, TokenAppended
<1>6. FreshAgree(mainQueue', notified) /\ ~ NoUsers(mainQueue', Len(mainQueue'))
  BY <1>1, <1>2, <1>3, QueueParts, FreshAppended
<1>7. QED BY <1>1, <1>3, <1>4, <1>5, <1>6, QueueParts, QueuePartNext

LEMMA AuthAnswersQueue ==
    ASSUME QueuePart, NEW t \in Users \cup {None}, AuthAnswers(t)
    PROVE  QueuePart'
<1> DEFINE e == [kind |-> "token", token |-> t, fresh |-> request.fresh]
<1>1. /\ mainQueue' = Append(mainQueue, e) /\ request # None /\ request' = None
      /\ t \in {request.asked, authUser, None}
      /\ UNCHANGED <<authUser, notified, workerQueue, user, remote>>
  BY DEF AuthAnswers
<1>2. request \in Requests
  BY <1>1, QueueParts
<1>3. e \in UserTasks \cup TokenTasks /\ e.kind = "token" /\ e.token = t
      /\ e.fresh = request.fresh
  BY <1>2 DEF TokenTasks, Requests
<1> HIDE DEF e
<1>4. /\ mainQueue \in Seq(UserTasks \cup TokenTasks)
      /\ mainQueue' \in Seq(UserTasks \cup TokenTasks)
      /\ Len(mainQueue') = Len(mainQueue) + 1 /\ Len(mainQueue) \in Nat
  BY <1>1, <1>3, QueueParts, AppendProperties
<1>5. /\ ~ HasToken(mainQueue) /\ ~ HasToken(workerQueue) /\ remote.state = "starting"
  BY <1>1, QueueParts
<1>6. LastUser(mainQueue', Len(mainQueue'), notified, authUser)
  <2>1. LastUser(mainQueue', Len(mainQueue) + 1, notified, authUser)
    <3>1. e.kind # "user" /\ LastUser(mainQueue, Len(mainQueue), notified, authUser)
      BY <1>3, QueueParts
    <3>2. QED BY <3>1, <1>1, <1>3, <1>4, LastUserAppend
  <2>2. QED BY <2>1, <1>4
<1>7. HasToken(mainQueue') /\ OneToken(mainQueue')
  BY <1>1, <1>3, <1>4, <1>5, NoTokenFresh, TokenAppended
<1>8. FreshAgree(mainQueue', notified)
  <2>1. ASSUME e.fresh, NoUsers(mainQueue, Len(mainQueue))
        PROVE  e.token \in {None, notified}
    <3>1. authUser = notified
      BY <2>1, <1>4, QueueParts, NoUsersLast
    <3>2. request.asked = authUser
      BY <2>1, <1>1, <1>3, QueueParts
    <3>3. QED BY <3>1, <3>2, <1>1, <1>3
  <2>2. FreshAgree(mainQueue, notified)
    BY QueueParts
  <2>3. QED BY <2>1, <2>2, <1>1, <1>3, <1>4, FreshAppended
<1>9. /\ request' \in Requests \cup {None}
      /\ remote'.state = "starting"
           <=> request' # None \/ HasToken(mainQueue') \/ HasToken(workerQueue')
  BY <1>1, <1>5, <1>7
<1>10. OneToken(workerQueue') /\ ~ HasToken(workerQueue')
  BY <1>1, <1>5, QueueParts
<1>11. QED BY <1>1, <1>4, <1>6, <1>7, <1>8, <1>9, <1>10, QueueParts, QueuePartNext

LEMMA SameKinds ==
    ASSUME NEW s, NEW t, Len(s) = Len(t), \A i \in 1..Len(s) : s[i].kind = t[i].kind
    PROVE  (HasToken(s) <=> HasToken(t)) /\ (OneToken(s) <=> OneToken(t))
  BY DEF HasToken, OneToken, IsToken

LEMMA NoticeUserQueue ==
    ASSUME QueuePart, NoticeUser
    PROVE  QueuePart'
<1> DEFINE S == UserTasks \cup TokenTasks
           e == Head(mainQueue)
           t == Tail(mainQueue)
           n == Len(mainQueue) - 1
<1>1. /\ mainQueue # <<>> /\ e.kind = "user" /\ notified' = e.user
      /\ mainQueue' = [i \in 1..n |-> Stale(mainQueue[i + 1])]
      /\ request' = IF request = None THEN None ELSE [request EXCEPT !.fresh = FALSE]
      /\ workerQueue' = Append(workerQueue, e)
      /\ UNCHANGED <<authUser, user, remote>>
  BY DEF NoticeUser
<1>2. /\ e \in S /\ t \in Seq(S) /\ Len(t) = n /\ n \in Nat /\ Len(mainQueue) \in Nat \ {0}
      /\ \A i \in 1..n : t[i] = mainQueue[i + 1]
      /\ mainQueue \in Seq(S)
  BY <1>1, QueueParts, HeadTask
<1>3. e \in Tasks /\ e.user \in Users
  BY <1>1, <1>2, TaskKinds DEF Tasks
<1>4. LastUser(t, n, e.user, authUser) /\ (HasToken(t) <=> HasToken(mainQueue)) /\ OneToken(t)
  <2>1. LastUser(mainQueue, Len(mainQueue), notified, authUser) /\ OneToken(mainQueue)
    BY QueueParts
  <2>2. AfterHead(mainQueue, notified) = e.user /\ Len(mainQueue) \in 1..Len(mainQueue)
    BY <1>1, <1>2 DEF AfterHead
  <2>3. LastUser(t, Len(mainQueue) - 1, e.user, authUser)
    BY <1>1, <1>2, <2>1, <2>2, LastUserTail
  <2>4. (HasToken(t) <=> HasToken(mainQueue)) /\ OneToken(t)
    BY <1>1, <1>2, <2>1, TokenTail
  <2>5. QED BY <2>3, <2>4
<1> HIDE DEF e, t, n
<1>5. /\ mainQueue' \in Seq(S) /\ Len(mainQueue') = n
      /\ \A i \in 1..n : mainQueue'[i] = Stale(t[i])
  <2>1. ASSUME NEW i \in 1..n PROVE Stale(mainQueue[i + 1]) \in S
    <3>1. t[i] \in S
      BY <1>2, ElementOfSeq
    <3>2. mainQueue[i + 1] \in S
      BY <3>1, <1>2
    <3>3. QED BY <3>2 DEF Stale, UserTasks, TokenTasks
  <2>2. mainQueue' \in [1..n -> S]
    BY <1>1, <2>1
  <2>3. mainQueue' \in Seq(S) /\ Len(mainQueue') = n
    BY <1>2, <2>2, SeqDef, LenProperties
  <2>4. QED BY <2>3, <1>1, <1>2
<1>6. /\ \A i \in 1..n : /\ mainQueue'[i].kind = t[i].kind
                         /\ IsUser(t, i) => mainQueue'[i].user = t[i].user
      /\ \A i \in 1..n : IsToken(mainQueue', i) => ~ mainQueue'[i].fresh
  <2>1. SUFFICES ASSUME NEW i \in 1..n
                 PROVE  /\ Stale(t[i]).kind = t[i].kind
                        /\ IsUser(t, i) => Stale(t[i]).user = t[i].user
                        /\ Stale(t[i]).kind = "token" => ~ Stale(t[i]).fresh
    BY <1>5 DEF IsToken
  <2>2. t[i] \in S
    BY <1>2, ElementOfSeq
  <2>3. QED BY <2>2 DEF Stale, IsUser, UserTasks, TokenTasks
<1>7. /\ LastUser(mainQueue', Len(mainQueue'), notified', authUser)
      /\ FreshAgree(mainQueue', notified')
      /\ HasToken(mainQueue') <=> HasToken(mainQueue)
      /\ OneToken(mainQueue')
  <2>1. LastUser(mainQueue', n, e.user, authUser)
    <3>1. \A i \in 1..n : t[i].kind = mainQueue'[i].kind
                           /\ (IsUser(t, i) => t[i].user = mainQueue'[i].user)
      BY <1>6
    <3>2. QED BY <3>1, <1>2, <1>4, LastUserSame
  <2>2. FreshAgree(mainQueue', notified')
    BY <1>5, <1>6 DEF FreshAgree
  <2>3. Len(mainQueue') = Len(t) /\ \A i \in 1..Len(mainQueue') : mainQueue'[i].kind = t[i].kind
    BY <1>2, <1>5, <1>6
  <2>4. (HasToken(mainQueue') <=> HasToken(t)) /\ (OneToken(mainQueue') <=> OneToken(t))
    BY <2>3, SameKinds
  <2>5. QED BY <2>1, <2>2, <2>4, <1>1, <1>4, <1>5
<1>8. /\ request' \in Requests \cup {None} /\ (request' # None <=> request # None)
      /\ request' # None => ~ request'.fresh
  <2>1. CASE request = None
    BY <2>1, <1>1
  <2>2. CASE request # None
    <3>1. request \in Requests
      BY <2>2, QueueParts
    <3>2. request' \in Requests /\ ~ request'.fresh
      BY <3>1, <2>2, <1>1 DEF Requests
    <3>3. QED BY <3>2, <2>2, NoneAssumption
  <2>3. QED BY <2>1, <2>2
<1>9. /\ workerQueue' \in Seq(Tasks)
      /\ LastUser(workerQueue', Len(workerQueue'), user, notified')
      /\ TasksAgree(workerQueue', user)
      /\ HasToken(workerQueue') <=> HasToken(workerQueue)
      /\ OneToken(workerQueue')
  <2>1. /\ workerQueue \in Seq(Tasks) /\ OneToken(workerQueue)
        /\ TasksAgree(workerQueue, user)
    BY QueueParts
  <2>2. workerQueue' \in Seq(Tasks) /\ Len(workerQueue') = Len(workerQueue) + 1
    BY <2>1, <1>1, <1>3, AppendProperties
  <2>3. LastUser(workerQueue', Len(workerQueue) + 1, user, notified')
    BY <2>1, <1>1, <1>3, LastUserAppend
  <2>4. TasksAgree(workerQueue', user)
    BY <2>1, <1>1, <1>3, TasksAgreeAppend
  <2>5. (HasToken(workerQueue') <=> HasToken(workerQueue)) /\ OneToken(workerQueue')
    BY <2>1, <1>1, <1>3, TokenAppended
  <2>6. QED BY <2>2, <2>3, <2>4, <2>5
<1>10. notified' \in Users
  BY <1>1, <1>3
<1>11. QED BY <1>1, <1>5, <1>7, <1>8, <1>9, <1>10, QueueParts, QueuePartNext

LEMMA PassTokenQueue ==
    ASSUME QueuePart, PassToken
    PROVE  QueuePart'
<1> DEFINE S == UserTasks \cup TokenTasks
           e == Head(mainQueue)
<1>1. /\ mainQueue # <<>> /\ e.kind = "token" /\ mainQueue' = Tail(mainQueue)
      /\ IF e.fresh THEN workerQueue' = Append(workerQueue, e) /\ UNCHANGED request
         ELSE request' = [asked |-> authUser, fresh |-> TRUE] /\ UNCHANGED workerQueue
      /\ UNCHANGED <<authUser, notified, user, remote>>
  BY DEF PassToken
<1>2. /\ e \in S /\ mainQueue' \in Seq(S) /\ Len(mainQueue') = Len(mainQueue) - 1
      /\ Len(mainQueue) \in Nat \ {0} /\ mainQueue \in Seq(S) /\ e = mainQueue[1]
  BY <1>1, QueueParts, HeadTask
<1>3. e \in Tasks /\ e.fresh \in BOOLEAN
  BY <1>1, <1>2, TaskKinds DEF Tasks
<1>4. /\ HasToken(mainQueue) /\ ~ HasToken(mainQueue') /\ request = None
      /\ ~ HasToken(workerQueue) /\ remote.state = "starting"
  <2>1. HasToken(mainQueue) /\ ~ HasToken(Tail(mainQueue))
    BY <1>1, <1>2, QueueParts, TokenTail
  <2>2. QED BY <2>1, <1>1, QueueParts
<1>5. LastUser(mainQueue', Len(mainQueue'), notified, authUser)
  <2>1. LastUser(mainQueue, Len(mainQueue), notified, authUser)
    BY QueueParts
  <2>2. AfterHead(mainQueue, notified) = notified /\ Len(mainQueue) \in 1..Len(mainQueue)
    BY <1>1, <1>2 DEF AfterHead
  <2>3. LastUser(Tail(mainQueue), Len(mainQueue) - 1, notified, authUser)
    BY <1>1, <1>2, <2>1, <2>2, LastUserTail
  <2>4. QED BY <2>3, <1>1, <1>2
<1>6. OneToken(mainQueue') /\ FreshAgree(mainQueue', notified)
  BY <1>4, NoTokenFresh
<1>7. /\ workerQueue \in Seq(Tasks) /\ OneToken(workerQueue)
      /\ TasksAgree(workerQueue, user)
      /\ LastUser(workerQueue, Len(workerQueue), user, notified)
  BY QueueParts
<1>8. CASE e.fresh
  <2>1. workerQueue' = Append(workerQueue, e) /\ request' = None
    BY <1>1, <1>4, <1>8
  <2>2. e.token \in {None, notified}
    <3>1. 1 \in 1..Len(mainQueue) /\ NoUsers(mainQueue, 1 - 1)
      BY <1>2 DEF NoUsers
    <3>2. QED BY <3>1, <1>1, <1>2, <1>8, QueueParts DEF FreshAgree, IsToken
  <2> HIDE DEF e
  <2>3. workerQueue' \in Seq(Tasks) /\ Len(workerQueue') = Len(workerQueue) + 1
    BY <2>1, <1>3, <1>7, AppendProperties
  <2>4. LastUser(workerQueue', Len(workerQueue) + 1, user, notified)
    <3>1. e.kind # "user"
      BY <1>1
    <3>2. QED BY <3>1, <2>1, <1>3, <1>7, LastUserAppend
  <2>5. TasksAgree(workerQueue', user)
    BY <2>1, <2>2, <1>1, <1>3, <1>7, TasksAgreeAppend
  <2>6. HasToken(workerQueue') /\ OneToken(workerQueue')
    BY <2>1, <1>1, <1>3, <1>4, <1>7, TokenAppended
  <2>7. LastUser(workerQueue', Len(workerQueue'), user, notified)
    BY <2>3, <2>4
  <2>8. request' \in Requests \cup {None} /\ request' = None
    BY <2>1
  <2>9. QED BY <2>3, <2>5, <2>6, <2>7, <2>8, <1>1, <1>2, <1>4, <1>5, <1>6,
               QueueParts, QueuePartNext
<1>9. CASE ~ e.fresh
  <2>1. workerQueue' = workerQueue /\ request' = [asked |-> authUser, fresh |-> TRUE]
    BY <1>1, <1>9
  <2>2. request' \in Requests /\ request' # None /\ request'.asked = authUser
    <3>1. request' \in Requests
      BY <2>1, QueueParts DEF Requests
    <3>2. QED BY <3>1, <2>1, NoneAssumption
  <2>3. ~ HasToken(workerQueue') /\ OneToken(workerQueue')
    BY <2>1, <1>4, <1>7
  <2>4. QED BY <2>1, <2>2, <2>3, <1>1, <1>2, <1>4, <1>5, <1>6, <1>7,
               QueueParts, QueuePartNext
<1>10. QED BY <1>3, <1>8, <1>9

(* The worker queue goes on to its next task.                              *)
LEMMA NextTask ==
    ASSUME QueuePart, workerQueue # <<>>, workerQueue' = Tail(workerQueue)
    PROVE  /\ workerQueue' \in Seq(Tasks) /\ OneToken(workerQueue')
           /\ TasksAgree(workerQueue', AfterHead(workerQueue, user))
           /\ LastUser(workerQueue', Len(workerQueue'), AfterHead(workerQueue, user), notified)
           /\ Head(workerQueue).kind # "token"
              => (HasToken(workerQueue') <=> HasToken(workerQueue))
           /\ Head(workerQueue).kind = "token"
              => HasToken(workerQueue) /\ ~ HasToken(workerQueue')
           /\ Head(workerQueue) \in Tasks
           /\ Head(workerQueue).kind = "write" => Head(workerQueue).author = user
           /\ Head(workerQueue).kind = "token" => Head(workerQueue).token \in {None, user}
<1>1. /\ workerQueue \in Seq(Tasks) /\ OneToken(workerQueue)
      /\ TasksAgree(workerQueue, user)
      /\ LastUser(workerQueue, Len(workerQueue), user, notified)
  BY QueueParts
<1>2. /\ workerQueue' \in Seq(Tasks) /\ Len(workerQueue') = Len(workerQueue) - 1
      /\ Len(workerQueue) \in Nat \ {0} /\ Head(workerQueue) \in Tasks
  BY <1>1, HeadTask
<1>3. LastUser(workerQueue', Len(workerQueue'), AfterHead(workerQueue, user), notified)
  <2>1. Len(workerQueue) \in 1..Len(workerQueue)
    BY <1>2
  <2>2. LastUser(Tail(workerQueue), Len(workerQueue) - 1, AfterHead(workerQueue, user), notified)
    BY <2>1, <1>1, LastUserTail
  <2>3. QED BY <2>2, <1>2
<1>4. /\ TasksAgree(workerQueue', AfterHead(workerQueue, user))
      /\ Head(workerQueue).kind = "write" => Head(workerQueue).author = user
      /\ Head(workerQueue).kind = "token" => Head(workerQueue).token \in {None, user}
  BY <1>1, TasksAgreeTail
<1>5. /\ OneToken(workerQueue')
      /\ Head(workerQueue).kind # "token"
         => (HasToken(workerQueue') <=> HasToken(workerQueue))
      /\ Head(workerQueue).kind = "token"
         => HasToken(workerQueue) /\ ~ HasToken(workerQueue')
  BY <1>1, TokenTail
<1>6. QED BY <1>2, <1>3, <1>4, <1>5

LEMMA WriteMutationsQueue ==
    ASSUME TypeOK, StreamPart, QueuePart, WriteMutations
    PROVE  QueuePart' /\ Head(workerQueue).author = user
<1>1. /\ workerQueue # <<>> /\ Head(workerQueue).kind = "write"
      /\ workerQueue' = Tail(workerQueue) /\ RequestCredentials(remote.state)
      /\ UNCHANGED <<authUser, notified, mainQueue, user>>
  BY DEF WriteMutations, Task
<1>2. remote'.state = StateAfterFill(remote, queues'[user])
  BY WriteMutationsStream
<1>3. /\ workerQueue' \in Seq(Tasks) /\ OneToken(workerQueue')
      /\ TasksAgree(workerQueue', user)
      /\ LastUser(workerQueue', Len(workerQueue'), user, notified)
      /\ HasToken(workerQueue') <=> HasToken(workerQueue)
      /\ Head(workerQueue).author = user
  BY <1>1, NextTask DEF AfterHead
<1>4. CASE remote.state = "starting"
  <2>1. remote'.state = "starting" /\ request' = request
    BY <1>1, <1>2, <1>4 DEF StateAfterFill, IsStarted, RequestCredentials
  <2>2. QED BY <2>1, <1>1, <1>3, <1>4, QueueParts, QueuePartNext
<1>5. CASE remote.state # "starting"
  <2>1. /\ request' \in Requests \cup {None}
        /\ request' # None <=> remote'.state = "starting"
        /\ request' # None => request'.asked = authUser'
        /\ ~ HasToken(mainQueue) /\ ~ HasToken(workerQueue)
    BY <1>1, <1>5, Credentials
  <2>2. ~ HasToken(mainQueue)' /\ ~ HasToken(workerQueue)'
    BY <2>1, <1>1, <1>3 DEF HasToken, IsToken
  <2>3. QED BY <2>1, <2>2, <1>1, <1>3, QueueParts, QueueWithoutTokens
<1>6. QED BY <1>3, <1>4, <1>5

LEMMA ResumeStartQueue ==
    ASSUME TypeOK, StreamPart, QueuePart, ResumeStart
    PROVE  /\ QueuePart' /\ Head(workerQueue).token \in {None, user}
<1>1. /\ workerQueue # <<>> /\ Head(workerQueue).kind = "token"
      /\ workerQueue' = Tail(workerQueue)
      /\ UNCHANGED <<authUser, notified, mainQueue, request, user>>
  BY DEF ResumeStart, Task, authVars
<1>2. /\ workerQueue' \in Seq(Tasks) /\ OneToken(workerQueue')
      /\ TasksAgree(workerQueue', user)
      /\ LastUser(workerQueue', Len(workerQueue'), user, notified)
      /\ HasToken(workerQueue) /\ ~ HasToken(workerQueue')
      /\ Head(workerQueue).token \in {None, user}
  BY <1>1, NextTask DEF AfterHead
<1>3. remote'.state # "starting"
  BY ResumeStartStream DEF QueuePart
<1>4. request' = None /\ ~ HasToken(mainQueue')
  BY <1>1, <1>2, QueueParts
<1>5. QED BY <1>1, <1>2, <1>3, <1>4, QueueParts, QueuePartNext

LEMMA HandleCredentialChangeQueue ==
    ASSUME QueuePart, HandleCredentialChange
    PROVE  QueuePart'
<1> DEFINE tasks == Tail(workerQueue)
<1>1. /\ workerQueue # <<>> /\ Head(workerQueue).kind = "user"
      /\ user' = Head(workerQueue).user /\ UNCHANGED <<authUser, notified>>
      /\ mainQueue' = NoTokens(mainQueue) /\ workerQueue' = NoTokens(tasks)
      /\ RequestCredentials("initial")
  BY DEF HandleCredentialChange, Task, RestartNetwork
<1>2. /\ workerQueue \in Seq(Tasks) /\ OneToken(workerQueue)
      /\ TasksAgree(workerQueue, user)
      /\ LastUser(workerQueue, Len(workerQueue), user, notified)
  BY QueueParts
<1>3. /\ tasks \in Seq(Tasks) /\ Len(tasks) = Len(workerQueue) - 1
      /\ Len(workerQueue) \in Nat \ {0} /\ Head(workerQueue) \in Tasks
  BY <1>1, <1>2, HeadTask
<1>4. AfterHead(workerQueue, user) = user' /\ user' \in Users
  BY <1>1, <1>3, TaskKinds DEF AfterHead
<1>5. OneToken(tasks) /\ TasksAgree(tasks, user')
  BY <1>1, <1>2, <1>4, TokenTail, TasksAgreeTail
<1>6. LastUser(tasks, Len(tasks), user', notified)
  <2>1. Len(workerQueue) \in 1..Len(workerQueue)
    BY <1>3
  <2>2. LastUser(tasks, Len(workerQueue) - 1, AfterHead(workerQueue, user), notified)
    BY <2>1, <1>1, <1>2, LastUserTail
  <2>3. QED BY <2>2, <1>3, <1>4
<1> HIDE DEF tasks
<1>7. QED BY <1>1, <1>3, <1>4, <1>5, <1>6, QueueRestart

LEMMA EmptyTasks ==
    ASSUME NEW u
    PROVE  ~ HasToken(<<>>) /\ TasksAgree(<<>>, u) /\ LastUser(<<>>, Len(<<>>), u, u)
<1>1. Len(<<>>) = 0 /\ 1..0 = {}
  OBVIOUS
<1>2. QED BY <1>1 DEF HasToken, TasksAgree, LastUser

LEMMA RelaunchQueue ==
    ASSUME TypeOK, StreamPart, QueuePart, Relaunch
    PROVE  QueuePart'
<1>1. /\ notified' = authUser /\ user' = authUser /\ authUser' = authUser
      /\ mainQueue' = <<>> /\ workerQueue' = <<>> /\ RequestCredentials("initial")
  BY DEF Relaunch
<1>2. /\ request' \in Requests \cup {None}
      /\ request' # None <=> remote'.state = "starting"
      /\ request' # None => request'.asked = authUser'
  <2>1. [asked |-> authUser, fresh |-> TRUE] \in Requests
    BY QueueParts DEF Requests
  <2>2. [asked |-> authUser, fresh |-> TRUE] # None
    BY <2>1, NoneAssumption
  <2>3. request' = IF remote'.state # "starting" THEN None
                   ELSE [asked |-> authUser, fresh |-> TRUE]
    BY <1>1 DEF RequestCredentials
  <2>4. CASE remote'.state = "starting"
    BY <2>1, <2>2, <2>3, <2>4, <1>1
  <2>5. CASE remote'.state # "starting"
    BY <2>3, <2>5
  <2>6. QED BY <2>4, <2>5
<1>3. mainQueue' \in Seq(UserTasks \cup TokenTasks) /\ workerQueue' \in Seq(Tasks)
  BY <1>1
<1>4. /\ ~ HasToken(<<>>) /\ TasksAgree(<<>>, authUser)
      /\ LastUser(<<>>, Len(<<>>), authUser, authUser)
  BY EmptyTasks
<1>5. ~ HasToken(mainQueue)' /\ ~ HasToken(workerQueue)'
  BY <1>1, <1>4 DEF HasToken, IsToken
<1>6. QED BY <1>1, <1>2, <1>3, <1>4, <1>5, QueueParts, QueueWithoutTokens

LEMMA QueueStep ==
    ASSUME TypeOK, StreamPart, QueuePart, FirestoreNext
    PROVE  QueuePart'
<1> USE DEF authVars, localVars, serverVars, counters
<1>1. CASE Write \/ AuthNext
  BY <1>1, WriteQueue, AuthChangesQueue, AuthAnswersQueue, NoticeUserQueue, PassTokenQueue
     DEF AuthNext
<1>2. CASE WriteMutations
  BY <1>2, WriteMutationsQueue
<1>3. CASE HandleCredentialChange
  BY <1>3, HandleCredentialChangeQueue
<1>4. CASE ConnectivityChanged
  <2>1. /\ UNCHANGED <<authUser, notified, user>>
        /\ mainQueue' = NoTokens(mainQueue) /\ workerQueue' = NoTokens(workerQueue)
        /\ RequestCredentials("initial")
    BY <1>4 DEF ConnectivityChanged, RestartNetwork
  <2>2. /\ workerQueue \in Seq(Tasks) /\ OneToken(workerQueue)
        /\ TasksAgree(workerQueue, user') /\ user' \in Users
        /\ LastUser(workerQueue, Len(workerQueue), user', notified)
    BY <2>1, QueueParts
  <2>3. QED BY <2>1, <2>2, QueueRestart
<1>5. CASE Relaunch
  BY <1>5, RelaunchQueue
<1>6. CASE ResumeStart
  BY <1>6, ResumeStartQueue
<1>7. CASE BackoffElapsed
  <2>1. /\ remote.state # "starting" /\ RequestCredentials("backoff")
        /\ UNCHANGED <<authUser, notified, user, mainQueue, workerQueue>>
    BY <1>7 DEF BackoffElapsed
  <2>2. QED BY <2>1, QueueCredentials
<1>8. CASE IdleTimeout
  <2>1. /\ remote.state # "starting" /\ RequestCredentials("open")
        /\ UNCHANGED <<authUser, notified, user, mainQueue, workerQueue>>
    BY <1>8 DEF IdleTimeout, StreamPart, Carries, Ready
  <2>2. QED BY <2>1, QueueCredentials
<1>9. CASE WriteError
  <2>1. /\ remote.state # "starting" /\ RequestCredentials("open")
        /\ UNCHANGED <<authUser, notified, user, mainQueue, workerQueue>>
    BY <1>9, WriteErrorStream DEF WriteError
  <2>2. QED BY <2>1, QueueCredentials
<1>10. CASE HandshakeComplete \/ MutationResult \/ ServerGreets \/ ServerTakes \/ ServerRefuses
  <2>1. remote'.state = "starting" <=> remote.state = "starting"
    BY <1>10, HandshakeStream, MutationResultStream, ServerGreetsStream, ServerTakesStream,
       ServerRefusesStream DEF Ready
  <2>2. UNCHANGED <<authUser, notified, user, mainQueue, workerQueue, request>>
    BY <1>10 DEF HandshakeComplete, MutationResult, ServerGreets, ServerTakes, ServerRefuses
  <2>3. QED BY <2>1, <2>2, QueueSame
<1>11. CASE StreamFails
  <2>1. remote.state # "starting" /\ remote'.state # "starting"
    BY <1>11, EndedStream DEF StreamFails
  <2>2. UNCHANGED <<authUser, notified, user, mainQueue, workerQueue, request>>
    BY <1>11 DEF StreamFails
  <2>3. QED BY <2>1, <2>2, QueueSame
<1>12. CASE ApplyRemoteEvent \/ WatchSends
  BY <1>12, QueueSame DEF ApplyRemoteEvent, WatchSends
<1>13. QED
  BY <1>1, <1>2, <1>3, <1>4, <1>5, <1>6, <1>7, <1>8, <1>9, <1>10, <1>11, <1>12
     DEF FirestoreNext, ClientNext, ServerNext

-----------------------------------------------------------------------------
(* The rows, whom they belong to and who waits for them.                   *)

Rows(q) == {q[i] : i \in 1..Len(q)}
WaitsIn(rows, c) ==
    {b \in rows : b.id = c.id} = {[id |-> c.id, write |-> c.write, author |-> c.user]}
OwnRows(q, u) == \A b \in Rows(q) : b.author = u

LEMMA RowsPartIs ==
    /\ CallbacksWaitForTheirWrite <=> \A c \in callbacks : WaitsIn(Rows(queues[c.user]), c)
    /\ AuthorsAgree <=> /\ \A u \in Users : OwnRows(queues[u], u)
                        /\ remote.state = "open" => remote.token = user
  BY DEF CallbacksWaitForTheirWrite, AuthorsAgree, Rows, WaitsIn, OwnRows

LEMMA RowsAppended ==
    ASSUME NEW q \in Seq(Batches), NEW b \in Batches
    PROVE  Rows(Append(q, b)) = Rows(q) \cup {b}
<1> DEFINE t == Append(q, b)
<1>1. /\ Len(q) \in Nat /\ Len(t) = Len(q) + 1
      /\ \A i \in 1..Len(q) : t[i] = q[i]
      /\ t[Len(q) + 1] = b
  BY AppendProperties
<1> HIDE DEF t
<1>2. \A i \in 1..Len(t) : i \in 1..Len(q) \/ i = Len(q) + 1
  BY <1>1
<1>3. 1..Len(q) \subseteq 1..Len(t) /\ Len(q) + 1 \in 1..Len(t)
  BY <1>1
<1>4. Rows(t) \subseteq Rows(q) \cup {b}
  BY <1>1, <1>2 DEF Rows
<1>5. Rows(q) \cup {b} \subseteq Rows(t)
  <2>1. b \in Rows(t)
    BY <1>1, <1>3 DEF Rows
  <2>2. ASSUME NEW i \in 1..Len(q) PROVE q[i] \in Rows(t)
    BY <1>1, <1>3 DEF Rows
  <2>3. QED BY <2>1, <2>2 DEF Rows
<1>6. QED BY <1>4, <1>5 DEF t

LEMMA RowsOfTail ==
    ASSUME NEW q \in Seq(Batches), q # <<>>, Grows(q)
    PROVE  /\ Rows(q) = Rows(Tail(q)) \cup {Head(q)}
           /\ \A b \in Rows(Tail(q)) : b.id # Head(q).id
<1> DEFINE t == Tail(q)
<1>1. /\ Len(q) \in Nat \ {0} /\ Len(t) = Len(q) - 1 /\ Head(q) = q[1]
      /\ \A i \in 1..(Len(q) - 1) : t[i] = q[i + 1]
  BY HeadTask
<1> HIDE DEF t
<1>2. /\ \A i \in 1..Len(t) : i + 1 \in 1..Len(q) /\ 1 \in 1..(i + 1 - 1)
      /\ \A i \in 1..Len(q) : i = 1 \/ (i - 1 \in 1..Len(t) /\ i - 1 + 1 = i)
      /\ 1 \in 1..Len(q)
  BY <1>1
<1>3. Rows(t) \cup {Head(q)} \subseteq Rows(q)
  BY <1>1, <1>2 DEF Rows
<1>4. ASSUME NEW i \in 1..Len(q) PROVE q[i] \in Rows(t) \cup {Head(q)}
  <2>1. CASE i = 1
    BY <2>1, <1>1
  <2>2. CASE i # 1
    <3>1. i - 1 \in 1..Len(t) /\ t[i - 1] = q[i]
      <4>1. i - 1 \in 1..Len(t) /\ i - 1 + 1 = i
        BY <2>2, <1>2
      <4>2. QED BY <4>1, <1>1
    <3>2. QED BY <3>1 DEF Rows
  <2>3. QED BY <2>1, <2>2
<1>5. ASSUME NEW i \in 1..Len(t) PROVE t[i].id # Head(q).id
  <2>1. q[1].id < q[i + 1].id
    BY <1>2 DEF Grows
  <2>2. q[1].id \in Nat /\ q[i + 1].id \in Nat
    <3>1. q[1] \in Batches /\ q[i + 1] \in Batches
      BY <1>2, ElementOfSeq
    <3>2. QED BY <3>1 DEF Batches
  <2>3. QED BY <2>1, <2>2, <1>1
<1>6. Rows(q) \subseteq Rows(t) \cup {Head(q)}
  BY <1>4 DEF Rows
<1>7. QED BY <1>3, <1>5, <1>6 DEF Rows, t

LEMMA RowsBelow ==
    ASSUME NEW q, NEW n, IdsBelow(q, n), NEW b \in Rows(q)
    PROVE  b.id < n
  BY DEF Rows, IdsBelow

RestPart ==
    /\ callbacks \subseteq Callbacks
    /\ log \in Seq([write : Writes, author : Users, token : Users])
    /\ cache \in Nat /\ snapshot \in Nat /\ acked \in Nat
    /\ reported \subseteq [write : Writes, ok : BOOLEAN]
    /\ made \in 0..MaxWrites
    /\ switches \in 0..MaxSwitches /\ faults \in 0..MaxFaults
    /\ AuthorsAgree /\ CallbacksWaitForTheirWrite
    /\ TakenFromItsAuthor /\ AcknowledgedIsRead

LEMMA WriteMutationsRows ==
    ASSUME TypeOK, StreamPart, QueuePart, RestPart, WriteMutations
    PROVE  /\ callbacks' \subseteq Callbacks
           /\ AuthorsAgree' /\ CallbacksWaitForTheirWrite'
<1> DEFINE task == Head(workerQueue)
           batch == [id |-> nextId, write |-> task.write, author |-> task.author]
           new == [user |-> user, id |-> nextId, write |-> task.write]
           q == queues[user]
<1>1. /\ queues' = [queues EXCEPT ![user] = Append(@, batch)] /\ q \in Seq(Batches)
      /\ batch \in Batches /\ remote'.token = remote.token
      /\ remote'.state = StateAfterFill(remote, queues'[user])
  BY WriteMutationsStream
<1>2. callbacks' = callbacks \cup {new} /\ user' = user /\ task.author = user
  BY WriteMutationsQueue DEF WriteMutations
<1>3. nextId \in Nat /\ task.write \in Writes /\ user \in Users /\ nextId # 0
  BY <1>1 DEF Batches, StreamPart
<1>4. batch = [id |-> nextId, write |-> task.write, author |-> user]
  BY <1>2
<1> HIDE DEF task
<1>5. batch.id = nextId /\ batch.author = user /\ new \in Callbacks
  BY <1>3, <1>4 DEF Callbacks
<1>6. /\ Rows(queues'[user]) = Rows(q) \cup {batch}
      /\ \A u \in Users \ {user} : queues'[u] = queues[u]
  BY <1>1, RowsAppended DEF StreamPart
<1>7. \A u \in Users : \A b \in Rows(queues[u]) : b.id # nextId
  <2>1. SUFFICES ASSUME NEW u \in Users, NEW b \in Rows(queues[u]) PROVE b.id # nextId
    OBVIOUS
  <2>2. IdsBelow(queues[u], nextId) /\ queues[u] \in Seq(Batches)
    BY IdsGrowIs DEF StreamPart
  <2>3. b.id < nextId /\ b.id \in Nat
    <3>1. b \in Batches
      BY <2>2, ElementOfSeq DEF Rows
    <3>2. QED BY <3>1, <2>2, RowsBelow DEF Batches
  <2>4. QED BY <2>3, <1>3
<1>8. /\ \A c \in callbacks : WaitsIn(Rows(queues[c.user]), c) /\ c.user \in Users
      /\ \A u \in Users : OwnRows(queues[u], u)
      /\ remote.state = "open" => remote.token = user
  BY RowsPartIs DEF RestPart, Callbacks
<1> HIDE DEF batch
<1>9. ASSUME NEW c \in callbacks PROVE WaitsIn(Rows(queues'[c.user]), c)
  <2>1. CASE c.user = user
    <3>1. [id |-> c.id, write |-> c.write, author |-> c.user] \in Rows(q)
      BY <2>1, <1>8 DEF WaitsIn
    <3>2. c.id # nextId
      BY <3>1, <1>3, <1>7
    <3>3. {b \in Rows(q) \cup {batch} : b.id = c.id} = {b \in Rows(q) : b.id = c.id}
      BY <3>2, <1>5
    <3>4. QED BY <3>3, <2>1, <1>6, <1>8 DEF WaitsIn
  <2>2. CASE c.user # user
    BY <2>2, <1>6, <1>8
  <2>3. QED BY <2>1, <2>2
<1>10. WaitsIn(Rows(queues'[new.user]), new)
  <2>1. {b \in Rows(q) \cup {batch} : b.id = nextId} = {batch}
    BY <1>3, <1>5, <1>7
  <2>2. new.user = user /\ new.id = nextId
        /\ batch = [id |-> new.id, write |-> new.write, author |-> new.user]
    BY <1>4 DEF batch
  <2>3. QED BY <2>1, <2>2, <1>6 DEF WaitsIn
<1>11. CallbacksWaitForTheirWrite'
  <2>1. \A c \in callbacks' : WaitsIn(Rows(queues'[c.user]), c)
    BY <1>2, <1>9, <1>10
  <2>2. QED BY <2>1 DEF CallbacksWaitForTheirWrite, WaitsIn, Rows
<1>12. AuthorsAgree'
  <2>1. \A u \in Users : OwnRows(queues'[u], u)
    BY <1>5, <1>6, <1>8 DEF OwnRows
  <2>2. remote'.state = "open" => remote'.token = user'
    BY <1>1, <1>2, <1>8 DEF StateAfterFill, IsStarted
  <2>3. QED BY <2>1, <2>2 DEF AuthorsAgree, OwnRows, Rows
<1>13. callbacks' \subseteq Callbacks
  BY <1>2, <1>5 DEF RestPart
<1>14. QED BY <1>11, <1>12, <1>13

(* The oldest row goes, and with it whoever waited for it.                 *)
LEMMA RemovalRows ==
    ASSUME StreamPart, RestPart, queues' = [queues EXCEPT ![user] = Tail(@)],
           queues[user] \in Seq(Batches), queues[user] # <<>>, user' = user,
           NEW ok \in BOOLEAN, NotifyUser(Head(queues[user]), ok),
           remote'.state = "open" => remote'.token = user
    PROVE  /\ callbacks' \subseteq Callbacks /\ reported' \subseteq [write : Writes, ok : BOOLEAN]
           /\ AuthorsAgree' /\ CallbacksWaitForTheirWrite'
<1> DEFINE q == queues[user]
           due == {c \in callbacks : c.user = user /\ c.id = Head(q).id}
<1>1. /\ callbacks' = callbacks \ due
      /\ reported' = reported \cup {[write |-> c.write, ok |-> ok] : c \in due}
  BY DEF NotifyUser
<1>2. /\ callbacks' \subseteq Callbacks
      /\ reported' \subseteq [write : Writes, ok : BOOLEAN]
  BY <1>1 DEF RestPart, Callbacks
<1>3. Grows(q) /\ user \in Users
  BY FullPipeline DEF StreamPart
<1>4. /\ Rows(q) = Rows(Tail(q)) \cup {Head(q)}
      /\ \A b \in Rows(Tail(q)) : b.id # Head(q).id
  BY <1>3, RowsOfTail
<1>5. /\ \A c \in callbacks : WaitsIn(Rows(queues[c.user]), c) /\ c.user \in Users
      /\ \A u \in Users : OwnRows(queues[u], u)
  BY RowsPartIs DEF RestPart, Callbacks
<1>6. /\ queues'[user] = Tail(q)
      /\ \A u \in Users \ {user} : queues'[u] = queues[u]
  BY <1>3 DEF StreamPart
<1>7. ASSUME NEW c \in callbacks' PROVE WaitsIn(Rows(queues'[c.user]), c)
  <2>1. CASE c.user = user
    <3>1. c.id # Head(q).id /\ c \in callbacks
      BY <2>1, <1>1
    <3>2. {b \in Rows(q) : b.id = c.id} = {b \in Rows(Tail(q)) : b.id = c.id}
      BY <3>1, <1>4
    <3>3. QED BY <3>1, <3>2, <2>1, <1>5, <1>6 DEF WaitsIn
  <2>2. CASE c.user # user
    BY <2>2, <1>1, <1>5, <1>6
  <2>3. QED BY <2>1, <2>2
<1>8. CallbacksWaitForTheirWrite'
  BY <1>7 DEF CallbacksWaitForTheirWrite, WaitsIn, Rows
<1>9. AuthorsAgree'
  <2>1. \A u \in Users : OwnRows(queues'[u], u)
    BY <1>4, <1>5, <1>6 DEF OwnRows
  <2>2. QED BY <2>1 DEF AuthorsAgree, OwnRows, Rows
<1>10. QED BY <1>2, <1>8, <1>9

LEMMA ServerTakesRows ==
    ASSUME StreamPart, RestPart, ServerTakes
    PROVE  /\ log' \in Seq([write : Writes, author : Users, token : Users])
           /\ TakenFromItsAuthor'
           /\ log' = Append(log, [write |-> queues[user][Len(remote.in) + 1].write,
                                  author |-> user, token |-> user])
           /\ Len(remote.in) + 1 \in 1..Len(queues[user])
<1> DEFINE batch == Head(remote.out).batch
           entry == [write |-> batch.write, author |-> batch.author, token |-> remote.token]
           k == Len(remote.in) + 1
           q == queues[user]
<1>1. Receives("write") /\ log' = Append(log, entry)
  BY DEF ServerTakes
<1>2. /\ Ready(remote) /\ k \in 1..Len(remote.pipeline) /\ batch = remote.pipeline[k]
  BY <1>1, ReceivesWrite
<1>3. /\ q \in Seq(Batches) /\ remote.pipeline = SubSeq(q, 1, Room(q))
      /\ Room(q) \in 0..Len(q)
  BY FullPipeline
<1>4. Len(remote.pipeline) = Room(q) /\ \A i \in 1..Room(q) : remote.pipeline[i] = q[i]
  BY <1>3, Prefix
<1> HIDE DEF k
<1>5. k \in 1..Len(q) /\ batch = q[k]
  BY <1>2, <1>3, <1>4
<1>6. batch \in Batches /\ batch.author = user /\ remote.token = user
  <2>1. batch \in Batches
    BY <1>3, <1>5, ElementOfSeq
  <2>2. batch.author = user
    BY <1>5 DEF RestPart, AuthorsAgree, StreamPart
  <2>3. remote.token = user
    BY <1>2 DEF RestPart, AuthorsAgree, Ready
  <2>4. QED BY <2>1, <2>2, <2>3
<1> HIDE DEF batch
<1>7. /\ entry \in [write : Writes, author : Users, token : Users]
      /\ entry.token = entry.author
      /\ entry = [write |-> q[k].write, author |-> user, token |-> user]
  BY <1>5, <1>6 DEF Batches, StreamPart
<1> HIDE DEF entry
<1>8. /\ log \in Seq([write : Writes, author : Users, token : Users])
      /\ \A i \in 1..Len(log) : log[i].token = log[i].author
  BY DEF RestPart, TakenFromItsAuthor
<1>9. /\ log' \in Seq([write : Writes, author : Users, token : Users])
      /\ Len(log') = Len(log) + 1 /\ \A i \in 1..Len(log) : log'[i] = log[i]
      /\ log'[Len(log) + 1] = entry /\ Len(log) \in Nat
  BY <1>1, <1>7, <1>8, AppendProperties
<1>10. \A i \in 1..Len(log') : i \in 1..Len(log) \/ i = Len(log) + 1
  BY <1>9
<1>11. TakenFromItsAuthor'
  BY <1>7, <1>8, <1>9, <1>10 DEF TakenFromItsAuthor
<1>12. QED BY <1>1, <1>5, <1>7, <1>9, <1>11 DEF k

(* A step that leaves rows, callbacks and the server alone.                *)
LEMMA RowsSame ==
    ASSUME RestPart,
           UNCHANGED <<queues, callbacks, log, cache, reported, acked>>,
           snapshot' \in Nat, made' \in 0..MaxWrites, switches' \in 0..MaxSwitches,
           faults' \in 0..MaxFaults, remote'.state = "open" => remote'.token = user'
    PROVE  RestPart'
<1>1. AuthorsAgree'
  BY DEF RestPart, AuthorsAgree
<1>2. CallbacksWaitForTheirWrite' /\ TakenFromItsAuthor' /\ AcknowledgedIsRead'
  BY DEF RestPart, CallbacksWaitForTheirWrite, TakenFromItsAuthor, AcknowledgedIsRead
<1>3. QED BY <1>1, <1>2 DEF RestPart

LEMMA FaultCounted ==
    ASSUME RestPart, Fault
    PROVE  faults' \in 0..MaxFaults
  BY BoundAssumption DEF RestPart, Fault

LEMMA RestStep ==
    ASSUME TypeOK, StreamPart, QueuePart, RestPart, FirestoreNext
    PROVE  RestPart'
<1> USE DEF authVars, localVars, serverVars, counters
<1>1. /\ snapshot \in Nat /\ made \in 0..MaxWrites /\ switches \in 0..MaxSwitches
      /\ faults \in 0..MaxFaults /\ (remote.state = "open" => remote.token = user)
      /\ MaxWrites \in Nat /\ MaxSwitches \in Nat /\ Len(log) \in Nat
  BY BoundAssumption DEF RestPart, AuthorsAgree
<1>2. CASE Write \/ AuthNext
  <2> DEFINE Same ==
        /\ UNCHANGED <<queues, callbacks, log, cache, reported, acked, snapshot, remote, user>>
        /\ made' \in 0..MaxWrites /\ switches' \in 0..MaxSwitches
        /\ faults' \in 0..MaxFaults
  <2>1. Same
    <3>1. CASE Write
      <4>1. made < MaxWrites /\ made' = made + 1
        BY <3>1 DEF Write
      <4>2. made' \in 0..MaxWrites
        BY <4>1, <1>1
      <4>3. QED BY <4>2, <3>1, <1>1 DEF Write
    <3>2. ASSUME NEW u \in Users, AuthChanges(u) PROVE Same
      <4>1. switches < MaxSwitches /\ switches' = switches + 1
        BY <3>2 DEF AuthChanges
      <4>2. switches' \in 0..MaxSwitches
        BY <4>1, <1>1
      <4>3. QED BY <4>2, <3>2, <1>1 DEF AuthChanges
    <3>3. ASSUME NEW t \in Users \cup {None}, AuthAnswers(t) PROVE Same
      <4>1. faults' \in 0..MaxFaults
        BY <3>3, <1>1, FaultCounted DEF AuthAnswers
      <4>2. QED BY <4>1, <3>3, <1>1 DEF AuthAnswers
    <3>4. CASE NoticeUser
      BY <3>4, <1>1 DEF NoticeUser
    <3>5. CASE PassToken
      BY <3>5, <1>1 DEF PassToken
    <3>6. QED BY <3>1, <3>2, <3>3, <3>4, <3>5, <1>2 DEF AuthNext
  <2>2. QED BY <2>1, <1>1, RowsSame
<1>3. CASE WriteMutations
  <2>1. callbacks' \subseteq Callbacks /\ AuthorsAgree' /\ CallbacksWaitForTheirWrite'
    BY <1>3, WriteMutationsRows
  <2>2. UNCHANGED <<log, cache, snapshot, acked, reported, made, switches, faults>>
    BY <1>3 DEF WriteMutations
  <2>3. TakenFromItsAuthor' /\ AcknowledgedIsRead'
    BY <2>2 DEF RestPart, TakenFromItsAuthor, AcknowledgedIsRead
  <2>4. QED BY <2>1, <2>2, <2>3 DEF RestPart
<1>4. CASE HandleCredentialChange \/ ConnectivityChanged
  <2>1. Head(workerQueue).user \in Users \/ ConnectivityChanged
    BY <1>4, HeadTask, TaskKinds DEF TypeOK, Tasks, HandleCredentialChange, Task
  <2>2. user' \in Users /\ UNCHANGED queues /\ nextId' \in {nextId, LoadNextBatchId(queues)}
        /\ remote' = Fill(Idle("initial", <<>>), queues[user'])
    BY <2>1, <1>4
       DEF HandleCredentialChange, ConnectivityChanged, RestartNetwork, Restarted, StreamPart
  <2>3. remote'.state # "open"
    BY <2>2, RestartStream
  <2>4. /\ UNCHANGED <<callbacks, log, cache, reported, acked, made, switches>>
        /\ snapshot' = 0 /\ faults' \in 0..MaxFaults
    BY <1>1, <1>4, FaultCounted
       DEF HandleCredentialChange, ConnectivityChanged, RestartNetwork
  <2>5. QED BY <2>2, <2>3, <2>4, <1>1, RowsSame
<1>5. CASE Relaunch
  <2>1. /\ callbacks' = {} /\ snapshot' = 0 /\ faults' \in 0..MaxFaults
        /\ UNCHANGED <<queues, log, cache, reported, acked, made, switches>>
    BY <1>5, FaultCounted DEF Relaunch
  <2>2. user' \in Users /\ nextId' \in {nextId, LoadNextBatchId(queues)}
        /\ remote' = Fill(Idle("initial", <<>>), queues[user'])
    BY <1>5 DEF Relaunch, TypeOK
  <2>3. remote'.state # "open"
    BY <2>1, <2>2, RestartStream
  <2>4. /\ AuthorsAgree' /\ CallbacksWaitForTheirWrite' /\ TakenFromItsAuthor'
        /\ AcknowledgedIsRead'
    BY <2>1, <2>3 DEF RestPart, AuthorsAgree, CallbacksWaitForTheirWrite,
       TakenFromItsAuthor, AcknowledgedIsRead
  <2>5. QED BY <2>1, <2>4 DEF RestPart
<1>6. CASE ResumeStart
  <2>1. remote'.state = "open" => remote'.token = user'
    <3>1. user' = user
      BY <1>6 DEF ResumeStart
    <3>2. QED BY <3>1, <1>6, ResumeStartStream, ResumeStartQueue DEF QueuePart
  <2>2. UNCHANGED <<queues, callbacks, log, cache, reported, acked, snapshot, made, switches,
                    faults>>
    BY <1>6 DEF ResumeStart
  <2>3. QED BY <2>1, <2>2, <1>1, RowsSame
<1>7. CASE BackoffElapsed \/ IdleTimeout \/ StreamFails
  <2>1. remote'.state # "open"
    BY <1>7, BackoffElapsedStream, EndedStream DEF IdleTimeout, StreamFails
  <2>2. /\ UNCHANGED <<queues, callbacks, log, cache, reported, acked, snapshot, made, switches>>
        /\ faults' \in 0..MaxFaults
    BY <1>1, <1>7, FaultCounted DEF BackoffElapsed, IdleTimeout, StreamFails
  <2>3. QED BY <2>1, <2>2, <1>1, RowsSame
<1>8. CASE HandshakeComplete \/ ServerGreets \/ ServerRefuses
  <2>1. remote'.state = remote.state /\ remote'.token = remote.token
    BY <1>8, HandshakeStream, ServerGreetsStream, ServerRefusesStream
  <2>2. UNCHANGED <<queues, callbacks, log, cache, reported, acked, snapshot, made, switches,
                    faults, user>>
    BY <1>8 DEF HandshakeComplete, ServerGreets, ServerRefuses
  <2>3. QED BY <2>1, <2>2, <1>1, RowsSame
<1>9. CASE MutationResult
  <2>1. /\ queues' = [queues EXCEPT ![user] = Tail(@)] /\ queues[user] \in Seq(Batches)
        /\ queues[user] # <<>> /\ Head(remote.pipeline) = Head(queues[user])
        /\ remote.in # <<>> /\ Ready(remote) /\ remote'.token = remote.token
    BY <1>9, MutationResultStream
  <2>2. /\ NotifyUser(Head(queues[user]), TRUE) /\ user' = user
        /\ UNCHANGED <<log, snapshot, made, switches, faults>>
    BY <1>9, <2>1 DEF MutationResult
  <2>3. remote'.state = "open" => remote'.token = user'
    BY <2>1, <2>2, <1>1 DEF Ready
  <2>4. /\ callbacks' \subseteq Callbacks /\ reported' \subseteq [write : Writes, ok : BOOLEAN]
        /\ AuthorsAgree' /\ CallbacksWaitForTheirWrite'
    BY <2>1, <2>2, <2>3, RemovalRows
  <2>5. Head(remote.in) \in Nat
    BY <2>1, StreamFields, HeadTailProperties DEF StreamPart
  <2>6. cache' \in Nat /\ acked' \in Nat /\ acked' <= cache'
    <3>1. /\ cache' = (IF cache < Head(remote.in) THEN Head(remote.in) ELSE cache)
          /\ acked' = (IF acked < Head(remote.in) THEN Head(remote.in) ELSE acked)
      BY <1>9 DEF MutationResult, CacheAfterAck
    <3>2. cache \in Nat /\ acked \in Nat /\ acked <= cache
      BY DEF RestPart, AcknowledgedIsRead
    <3>3. QED BY <3>1, <3>2, <2>5
  <2>7. TakenFromItsAuthor' /\ AcknowledgedIsRead'
    BY <2>2, <2>6 DEF RestPart, TakenFromItsAuthor, AcknowledgedIsRead
  <2>8. QED BY <2>2, <2>4, <2>6, <2>7 DEF RestPart
<1>10. CASE WriteError
  <2>1. /\ queues' = [queues EXCEPT ![user] = Tail(@)] /\ queues[user] \in Seq(Batches)
        /\ queues[user] # <<>> /\ Head(remote.pipeline) = Head(queues[user])
        /\ remote'.state # "open"
    BY <1>10, WriteErrorStream
  <2>2. /\ NotifyUser(Head(queues[user]), FALSE) /\ user' = user
        /\ UNCHANGED <<log, cache, acked, snapshot, made, switches, faults>>
    BY <1>10, <2>1 DEF WriteError
  <2>3. /\ callbacks' \subseteq Callbacks /\ reported' \subseteq [write : Writes, ok : BOOLEAN]
        /\ AuthorsAgree' /\ CallbacksWaitForTheirWrite'
    BY <2>1, <2>2, RemovalRows
  <2>4. TakenFromItsAuthor' /\ AcknowledgedIsRead'
    BY <2>2 DEF RestPart, TakenFromItsAuthor, AcknowledgedIsRead
  <2>5. QED BY <2>2, <2>3, <2>4 DEF RestPart
<1>11. CASE ServerTakes
  <2>1. /\ UNCHANGED <<queues, callbacks, cache, reported, acked, snapshot, made, switches,
                       faults, user>>
    BY <1>11 DEF ServerTakes
  <2>2. /\ log' \in Seq([write : Writes, author : Users, token : Users])
        /\ TakenFromItsAuthor'
    BY <1>11, ServerTakesRows
  <2>3. remote'.state = remote.state /\ remote'.token = remote.token
    BY <1>11, ServerTakesStream
  <2>4. AuthorsAgree' /\ CallbacksWaitForTheirWrite' /\ AcknowledgedIsRead'
    BY <2>1, <2>3 DEF RestPart, AuthorsAgree, CallbacksWaitForTheirWrite, AcknowledgedIsRead
  <2>5. QED BY <2>1, <2>2, <2>4 DEF RestPart
<1>12. CASE WatchSends
  <2>1. snapshot' = Len(log)
        /\ UNCHANGED <<queues, callbacks, log, cache, reported, acked, made, switches, faults,
                       remote, user>>
    BY <1>12 DEF WatchSends
  <2>2. QED BY <2>1, <1>1, RowsSame
<1>13. CASE ApplyRemoteEvent
  <2>1. /\ UNCHANGED <<queues, callbacks, log, reported, acked, made, switches, faults,
                       remote, user>>
        /\ snapshot' = 0
    BY <1>13 DEF ApplyRemoteEvent
  <2>2. cache' \in Nat /\ acked <= cache'
    BY <1>1, <1>13 DEF ApplyRemoteEvent, CacheAfterSnapshot, RestPart, AcknowledgedIsRead
  <2>3. AuthorsAgree' /\ CallbacksWaitForTheirWrite' /\ TakenFromItsAuthor'
        /\ AcknowledgedIsRead'
    BY <2>1, <2>2 DEF RestPart, AuthorsAgree, CallbacksWaitForTheirWrite, TakenFromItsAuthor,
       AcknowledgedIsRead
  <2>4. QED BY <2>1, <2>2, <2>3 DEF RestPart
<1>14. QED
  BY <1>2, <1>3, <1>4, <1>5, <1>6, <1>7, <1>8, <1>9, <1>10, <1>11, <1>12, <1>13
     DEF FirestoreNext, ClientNext, ServerNext

-----------------------------------------------------------------------------
(* The invariant holds.                                                    *)

LEMMA FirestoreInvIs == FirestoreInv <=> TypeOK /\ StreamPart /\ QueuePart /\ RestPart
  BY DEF FirestoreInv, StreamPart, QueuePart, RestPart, TypeOK, Tasks

LEMMA TypeOKNext ==
    ASSUME StreamPart', QueuePart', RestPart'
    PROVE  TypeOK'
  BY DEF StreamPart, QueuePart, RestPart, TypeOK, Tasks

LEMMA FirestoreInitInv == FirestoreInit => FirestoreInv
<1> SUFFICES ASSUME FirestoreInit PROVE FirestoreInv
  OBVIOUS
<1>1. /\ authUser \in Users /\ notified = authUser /\ user = authUser
      /\ mainQueue = <<>> /\ workerQueue = <<>> /\ request = None
      /\ queues = [u \in Users |-> <<>>] /\ nextId = 1 /\ callbacks = {}
      /\ remote = Idle("initial", <<>>) /\ log = <<>> /\ cache = 0 /\ snapshot = 0
      /\ reported = {} /\ acked = 0 /\ made = 0 /\ switches = 0 /\ faults = 0
  BY DEF FirestoreInit
<1>2. /\ remote \in Remotes /\ Carries(remote) /\ remote.pipeline = <<>>
      /\ remote.state = "initial"
  <2>1. <<>> \in Seq(Batches)
    OBVIOUS
  <2>2. QED BY <2>1, <1>1, RestCarries
<1>3. /\ ~ HasToken(<<>>) /\ TasksAgree(<<>>, authUser)
      /\ LastUser(<<>>, Len(<<>>), authUser, authUser)
  BY EmptyTasks
<1>4. Len(<<>>) = 0 /\ 1..0 = {}
  OBVIOUS
<1>5. StreamPart
  <2>1. queues \in [Users -> Seq(Batches)]
    BY <1>1
  <2>2. IdsGrow /\ Runs(remote)
    BY <1>1, <1>2, <1>4 DEF IdsGrow, Runs
  <2>3. PipelineIsFull
    <3>1. Room(<<>>) = 0 /\ SubSeq(<<>>, 1, 0) = <<>>
      BY <1>4, MaxPendingAssumption, SubSeqEmpty DEF Room
    <3>2. QED BY <3>1, <1>1, <1>2 DEF PipelineIsFull, Room
  <2>4. QED BY <2>1, <2>2, <2>3, <1>1, <1>2 DEF StreamPart
<1>6. QueuePart
  <2>1. OneToken(<<>>) /\ FreshAgree(<<>>, authUser)
    BY <1>3, NoTokenFresh
  <2>2. StartsWithToken
    BY <2>1, <1>1, <1>2, <1>3, StartsWithTokenIs
  <2>3. MainQueueAgrees
    BY <2>1, <1>1, <1>3, MainQueueAgreesIs
  <2>4. WorkerQueueAgrees
    BY <1>1, <1>3, TasksAgreeIs
  <2>5. <<>> \in Seq(UserTasks \cup TokenTasks) /\ <<>> \in Seq(Tasks)
    OBVIOUS
  <2>6. QED BY <2>2, <2>3, <2>4, <2>5, <1>1 DEF QueuePart
<1>7. RestPart
  <2>1. AuthorsAgree /\ CallbacksWaitForTheirWrite /\ TakenFromItsAuthor /\ AcknowledgedIsRead
    BY <1>1, <1>2, <1>4
       DEF AuthorsAgree, CallbacksWaitForTheirWrite, TakenFromItsAuthor, AcknowledgedIsRead
  <2>2. QED BY <2>1, <1>1, BoundAssumption DEF RestPart
<1>8. TypeOK
  BY <1>5, <1>6, <1>7 DEF StreamPart, QueuePart, RestPart, TypeOK, Tasks
<1>9. QED BY <1>5, <1>6, <1>7, <1>8, FirestoreInvIs

LEMMA FirestoreInvNext == FirestoreInv /\ [FirestoreNext]_writeVars => FirestoreInv'
<1> SUFFICES ASSUME FirestoreInv, [FirestoreNext]_writeVars PROVE FirestoreInv'
  OBVIOUS
<1>1. TypeOK /\ StreamPart /\ QueuePart /\ RestPart
  BY FirestoreInvIs
<1>2. CASE FirestoreNext
  <2>1. StreamPart' /\ QueuePart' /\ RestPart'
    BY <1>1, <1>2, StreamStep, QueueStep, RestStep DEF QueuePart
  <2>2. TypeOK'
    BY <2>1, TypeOKNext
  <2>3. QED BY <2>1, <2>2
            DEF FirestoreInv, StreamPart, QueuePart, RestPart, TypeOK, Tasks
<1>3. CASE UNCHANGED writeVars
  <2>1. UNCHANGED <<authUser, notified, mainQueue, request, workerQueue, user, queues, nextId,
                    callbacks, remote, log, snapshot, cache, reported, acked, made, switches,
                    faults>>
    BY <1>3 DEF writeVars, authVars, localVars, serverVars, counters
  <2>2. TypeOK' /\ StartsWithToken' /\ IdsGrow' /\ PipelineIsFull'
    BY <2>1 DEF FirestoreInv, TypeOK, StartsWithToken, IdsGrow, PipelineIsFull
  <2>3. Carries(remote') /\ Runs(remote') /\ MainQueueAgrees' /\ WorkerQueueAgrees'
    BY <2>1 DEF FirestoreInv, MainQueueAgrees, WorkerQueueAgrees
  <2>4. /\ AuthorsAgree' /\ CallbacksWaitForTheirWrite' /\ TakenFromItsAuthor'
        /\ AcknowledgedIsRead'
    BY <2>1 DEF FirestoreInv, AuthorsAgree, CallbacksWaitForTheirWrite, TakenFromItsAuthor,
       AcknowledgedIsRead
  <2>5. QED BY <2>2, <2>3, <2>4 DEF FirestoreInv
<1>4. QED BY <1>2, <1>3

LEMMA FirestoreInvHolds == FirestoreSpec => []FirestoreInv
  BY FirestoreInitInv, FirestoreInvNext, PTL DEF FirestoreSpec

LEMMA InvIsStreamInv == FirestoreInv => StreamInv
<1>1. FirestoreInv => StreamCarriesPipeline
  <2>1. SUFFICES ASSUME remote \in Remotes, Carries(remote), Runs(remote)
                 PROVE  StreamCarriesPipeline
    BY DEF FirestoreInv, TypeOK
  <2>2. remote.refused => remote.pipeline # <<>>
    <3>1. SUFFICES ASSUME remote.refused, remote.pipeline = <<>> PROVE FALSE
      OBVIOUS
    <3>2. Len(remote.in) < Len(remote.pipeline) /\ Len(remote.pipeline) = 0
          /\ Len(remote.in) \in Nat
      BY <2>1, <3>1, StreamFields DEF Carries
    <3>3. QED BY <3>2
  <2>3. QED BY <2>1, <2>2 DEF Carries, Runs, StreamCarriesPipeline
<1>2. QED BY <1>1 DEF FirestoreInv, StreamInv

(* The bookkeeping of the write stream holds together, however many users, *)
(* writes, failures and changes of user there are.                         *)
THEOREM StreamHoldsTogether == FirestoreSpec => []StreamInv
  BY FirestoreInvHolds, InvIsStreamInv, PTL

(* The server takes a write only under the token of its author.            *)
THEOREM WritesUnderTheirAuthor == FirestoreSpec => []TakenFromItsAuthor
<1>1. FirestoreInv => TakenFromItsAuthor
  BY DEF FirestoreInv
<1>2. QED BY <1>1, FirestoreInvHolds, PTL

(* What an answer has acknowledged is not read in an older version again.  *)
THEOREM AcknowledgedStays == FirestoreSpec => []AcknowledgedIsRead
<1>1. FirestoreInv => AcknowledgedIsRead
  BY DEF FirestoreInv
<1>2. QED BY <1>1, FirestoreInvHolds, PTL

-----------------------------------------------------------------------------
(* The writes are numbered in the order they are made, and each number is  *)
(* in one place: a task, a row, or what the app has been told.             *)

IsWrite(tasks, i) == tasks[i].kind = "write"
Ahead(tasks, n) == \A i \in 1..Len(tasks) : IsWrite(tasks, i) => n < tasks[i].write
Counted(tasks, n) ==
    \A i, j \in 1..Len(tasks) : IsWrite(tasks, i) =>
        /\ tasks[i].write <= n
        /\ IsWrite(tasks, j) /\ i < j => tasks[i].write < tasks[j].write

AllRows(qs) == UNION {Rows(qs[u]) : u \in Users}
Told == {r.write : r \in reported}

NumbersAgree ==
    /\ Counted(workerQueue, made)
    /\ \A b, c \in AllRows(queues) : b.write = c.write => b = c
    /\ \A b \in AllRows(queues) : b.write \notin Told
    /\ \A n \in {b.write : b \in AllRows(queues)} \cup Told :
          n <= made /\ Ahead(workerQueue, n)
LEMMA NumbersKept ==
    ASSUME NEW s, NEW t, NEW f,
           \A i \in 1..Len(t) : f[i] \in 1..Len(s) /\ t[i] = s[f[i]],
           \A i, j \in 1..Len(t) : i < j => f[i] < f[j]
    PROVE  /\ \A n : Counted(s, n) => Counted(t, n)
           /\ \A n : Ahead(s, n) => Ahead(t, n)
<1>1. ASSUME NEW n, Counted(s, n) PROVE Counted(t, n)
  <2>1. SUFFICES ASSUME NEW i \in 1..Len(t), NEW j \in 1..Len(t), IsWrite(t, i)
                 PROVE  /\ t[i].write <= n
                        /\ IsWrite(t, j) /\ i < j => t[i].write < t[j].write
    BY DEF Counted
  <2>2. /\ f[i] \in 1..Len(s) /\ f[j] \in 1..Len(s) /\ t[i] = s[f[i]] /\ t[j] = s[f[j]]
        /\ i < j => f[i] < f[j]
    OBVIOUS
  <2>3. QED BY <1>1, <2>1, <2>2 DEF Counted, IsWrite
<1>2. ASSUME NEW n, Ahead(s, n) PROVE Ahead(t, n)
  BY <1>2 DEF Ahead, IsWrite
<1>3. QED BY <1>1, <1>2

LEMMA NumbersOfTail ==
    ASSUME NEW tasks \in Seq(Tasks), tasks # <<>>
    PROVE  /\ \A n : Counted(tasks, n) => Counted(Tail(tasks), n)
           /\ \A n : Ahead(tasks, n) => Ahead(Tail(tasks), n)
           /\ \A n : Counted(tasks, n) /\ Head(tasks).kind = "write" =>
                /\ Head(tasks).write <= n
                /\ Ahead(Tail(tasks), Head(tasks).write)
           /\ \A n : Ahead(tasks, n) /\ Head(tasks).kind = "write" => n < Head(tasks).write
<1> DEFINE t == Tail(tasks)
           f == [i \in 1..Len(t) |-> i + 1]
<1>1. /\ Len(tasks) \in Nat \ {0} /\ Len(t) = Len(tasks) - 1 /\ Head(tasks) = tasks[1]
      /\ \A i \in 1..(Len(tasks) - 1) : t[i] = tasks[i + 1]
  BY HeadTask
<1> HIDE DEF t
<1>2. /\ \A i \in 1..Len(t) : f[i] \in 1..Len(tasks) /\ t[i] = tasks[f[i]]
      /\ \A i, j \in 1..Len(t) : i < j => f[i] < f[j]
  BY <1>1
<1>3. /\ \A i \in 1..Len(t) : i + 1 \in 1..Len(tasks) /\ 1 < i + 1 /\ t[i] = tasks[i + 1]
      /\ 1 \in 1..Len(tasks)
  BY <1>1
<1> HIDE DEF f
<1>4. /\ \A n : Counted(tasks, n) => Counted(t, n)
      /\ \A n : Ahead(tasks, n) => Ahead(t, n)
  BY <1>2, NumbersKept
<1>5. ASSUME NEW n, Counted(tasks, n), Head(tasks).kind = "write"
      PROVE  Head(tasks).write <= n /\ Ahead(t, Head(tasks).write)
  BY <1>1, <1>3, <1>5 DEF Counted, Ahead, IsWrite
<1>6. ASSUME NEW n, Ahead(tasks, n), Head(tasks).kind = "write" PROVE n < Head(tasks).write
  BY <1>1, <1>3, <1>6 DEF Ahead, IsWrite
<1>7. QED BY <1>4, <1>5, <1>6 DEF t

LEMMA NumbersWithoutTokens ==
    ASSUME NEW tasks \in Seq(Tasks), OneToken(tasks)
    PROVE  /\ \A n : Counted(tasks, n) => Counted(NoTokens(tasks), n)
           /\ \A n : Ahead(tasks, n) => Ahead(NoTokens(tasks), n)
<1> DEFINE t == NoTokens(tasks)
<1>1. CASE \A i \in 1..Len(tasks) : ~ IsToken(tasks, i)
  BY <1>1, NoTokenThere
<1>2. ASSUME NEW k \in 1..Len(tasks), IsToken(tasks, k)
      PROVE  /\ \A n : Counted(tasks, n) => Counted(t, n)
             /\ \A n : Ahead(tasks, n) => Ahead(t, n)
  <2> DEFINE f == [i \in 1..Len(t) |-> IF i < k THEN i ELSE i + 1]
  <2>1. /\ Len(t) = Len(tasks) - 1
        /\ \A i \in 1..(Len(tasks) - 1) :
             t[i] = IF i < k THEN tasks[i] ELSE tasks[i + 1]
    BY <1>2, TokenRemoved
  <2>2. Len(tasks) \in Nat \ {0} /\ k \in Nat
    BY <1>2
  <2> HIDE DEF t
  <2>3. /\ \A i \in 1..Len(t) : f[i] \in 1..Len(tasks) /\ t[i] = tasks[f[i]]
        /\ \A i, j \in 1..Len(t) : i < j => f[i] < f[j]
    BY <2>1, <2>2
  <2> HIDE DEF f
  <2>4. QED BY <2>3, NumbersKept
<1>3. QED BY <1>1, <1>2

LEMMA NumbersAppended ==
    ASSUME NEW tasks \in Seq(Tasks), NEW e \in Tasks, NEW n \in Nat, NEW m \in Nat,
           n <= m, e.kind = "write" => e.write = m /\ n < m, Counted(tasks, n)
    PROVE  /\ Counted(Append(tasks, e), m)
           /\ \A k \in 0..n : Ahead(tasks, k) => Ahead(Append(tasks, e), k)
<1> DEFINE t == Append(tasks, e)
<1>1. /\ Len(tasks) \in Nat /\ Len(t) = Len(tasks) + 1
      /\ \A i \in 1..Len(tasks) : t[i] = tasks[i]
      /\ t[Len(tasks) + 1] = e
  BY AppendProperties
<1> HIDE DEF t
<1>2. \A i \in 1..Len(tasks) : IsWrite(tasks, i) => tasks[i].write \in Nat
  <2>1. SUFFICES ASSUME NEW i \in 1..Len(tasks), tasks[i].kind = "write"
                 PROVE  tasks[i].write \in Nat
    BY DEF IsWrite
  <2>2. tasks[i] \in Tasks
    BY ElementOfSeq
  <2>3. tasks[i].write \in Writes
    BY <2>1, <2>2, TaskKinds
  <2>4. QED BY <2>3 DEF Writes
<1>3. \A i \in 1..Len(t) : i \in 1..Len(tasks) \/ i = Len(tasks) + 1
  BY <1>1
<1>4. Counted(t, m)
  <2>1. SUFFICES ASSUME NEW i \in 1..Len(t), NEW j \in 1..Len(t), IsWrite(t, i)
                 PROVE  /\ t[i].write <= m
                        /\ IsWrite(t, j) /\ i < j => t[i].write < t[j].write
    BY DEF Counted
  <2>2. CASE i = Len(tasks) + 1
    <3>1. t[i] = e /\ ~ (i < j)
      BY <2>2, <1>1
    <3>2. QED BY <2>1, <3>1 DEF IsWrite
  <2>3. CASE i \in 1..Len(tasks)
    <3>1. /\ t[i] = tasks[i] /\ tasks[i].write <= n /\ tasks[i].write \in Nat
          /\ IsWrite(tasks, i)
      BY <2>1, <2>3, <1>1, <1>2 DEF Counted, IsWrite
    <3>2. t[i].write <= m
      BY <3>1
    <3>3. CASE j = Len(tasks) + 1
      <4>1. t[j] = e
        BY <3>3, <1>1
      <4>2. IsWrite(t, j) => t[i].write < t[j].write
        BY <4>1, <3>1 DEF IsWrite
      <4>3. QED BY <4>2, <3>2
    <3>4. CASE j \in 1..Len(tasks)
      <4>1. t[j] = tasks[j]
        BY <3>4, <1>1
      <4>2. IsWrite(tasks, j) /\ i < j => tasks[i].write < tasks[j].write
        BY <3>1, <3>4, <2>3 DEF Counted
      <4>3. QED BY <4>1, <4>2, <3>1, <3>2 DEF IsWrite
    <3>5. QED BY <3>3, <3>4, <1>3
  <2>4. QED BY <2>2, <2>3, <1>3
<1>5. ASSUME NEW k \in 0..n, Ahead(tasks, k) PROVE Ahead(t, k)
  <2>1. SUFFICES ASSUME NEW i \in 1..Len(t), IsWrite(t, i) PROVE k < t[i].write
    BY DEF Ahead
  <2>2. CASE i = Len(tasks) + 1
    BY <2>1, <2>2, <1>1 DEF IsWrite
  <2>3. CASE i \in 1..Len(tasks)
    BY <2>1, <2>3, <1>1, <1>5 DEF IsWrite, Ahead
  <2>4. QED BY <2>2, <2>3, <1>3
<1>6. QED BY <1>4, <1>5 DEF t

(* A step of the tasks alone.                                              *)
LEMMA NumbersOfTasks ==
    ASSUME NumbersAgree, UNCHANGED <<queues, reported>>,
           made \in Nat, made' \in Nat, made <= made',
           Counted(workerQueue', made'),
           \A b \in AllRows(queues) : b.write \in Nat, Told \subseteq Nat,
           \A k \in 0..made : Ahead(workerQueue, k) => Ahead(workerQueue', k)
    PROVE  NumbersAgree'
<1>1. AllRows(queues') = AllRows(queues) /\ Told' = Told
  BY DEF AllRows, Told
<1>2. ASSUME NEW n \in {b.write : b \in AllRows(queues)} \cup Told
      PROVE  n <= made' /\ Ahead(workerQueue', n)
  <2>1. n \in Nat /\ n <= made /\ Ahead(workerQueue, n)
    BY DEF NumbersAgree
  <2>2. n \in 0..made /\ n <= made'
    BY <2>1
  <2>3. QED BY <2>1, <2>2
<1>3. /\ \A b, c \in AllRows(queues') : b.write = c.write => b = c
      /\ \A b \in AllRows(queues') : b.write \notin Told'
      /\ \A n \in {b.write : b \in AllRows(queues')} \cup Told' :
            n <= made' /\ Ahead(workerQueue', n)
  BY <1>1, <1>2 DEF NumbersAgree
<1>4. QED BY <1>3 DEF NumbersAgree, AllRows, Told
LEMMA RowFacts ==
    ASSUME StreamPart, RestPart
    PROVE  /\ user \in Users
           /\ \A u \in Users : queues[u] \in Seq(Batches) /\ Grows(queues[u])
                               /\ OwnRows(queues[u], u)
           /\ \A b \in AllRows(queues) : b \in Batches /\ b.write \in Writes
           /\ Told \subseteq Writes /\ Writes \subseteq Nat /\ made \in Nat
<1>1. \A u \in Users : queues[u] \in Seq(Batches) /\ Grows(queues[u])
                       /\ OwnRows(queues[u], u)
  BY IdsGrowIs, RowsPartIs DEF StreamPart, RestPart
<1>2. \A b \in AllRows(queues) : b \in Batches
  <2>1. SUFFICES ASSUME NEW u \in Users, NEW i \in 1..Len(queues[u])
                 PROVE  queues[u][i] \in Batches
    BY DEF AllRows, Rows
  <2>2. QED BY <1>1, ElementOfSeq
<1>3. made \in Nat
  BY BoundAssumption DEF RestPart
<1>4. \A b \in AllRows(queues) : b.write \in Writes
  BY <1>2 DEF Batches
<1>5. Told \subseteq Writes
  BY DEF RestPart, Told
<1>6. user \in Users /\ Writes \subseteq Nat
  BY DEF StreamPart, Writes
<1>7. QED BY <1>1, <1>2, <1>3, <1>4, <1>5, <1>6

LEMMA WriteMutationsNumbers ==
    ASSUME FirestoreInv, NumbersAgree, WriteMutations
    PROVE  NumbersAgree'
<1>1. TypeOK /\ StreamPart /\ QueuePart /\ RestPart
  BY FirestoreInvIs
<1> DEFINE task == Head(workerQueue)
           batch == [id |-> nextId, write |-> task.write, author |-> task.author]
<1>2. /\ queues' = [queues EXCEPT ![user] = Append(@, batch)] /\ batch \in Batches
  BY <1>1, WriteMutationsStream
<1>3. /\ workerQueue # <<>> /\ task.kind = "write" /\ workerQueue' = Tail(workerQueue)
      /\ reported' = reported /\ made' = made /\ workerQueue \in Seq(Tasks)
  BY <1>1 DEF WriteMutations, Task, counters, QueuePart
<1>4. AllRows(queues') = AllRows(queues) \cup {batch} /\ Told' = Told
  <2>1. Rows(queues'[user]) = Rows(queues[user]) \cup {batch}
    BY <1>1, <1>2, RowFacts, RowsAppended DEF StreamPart
  <2>2. \A u \in Users : u # user => Rows(queues'[u]) = Rows(queues[u])
    BY <1>1, <1>2 DEF StreamPart
  <2>3. Told' = Told
    BY <1>3 DEF Told
  <2> HIDE DEF batch
  <2>4. QED BY <1>1, <2>1, <2>2, <2>3, RowFacts DEF AllRows
<1>5. /\ Counted(workerQueue', made) /\ task.write <= made
      /\ Ahead(workerQueue', task.write)
      /\ \A n : Ahead(workerQueue, n) => Ahead(workerQueue', n) /\ n < task.write
  BY <1>3, NumbersOfTail DEF NumbersAgree
<1>6. batch.write = task.write /\ task.write \in Nat
  BY <1>1, <1>2, RowFacts DEF Batches
<1> HIDE DEF batch, task
<1>7. \A n \in {b.write : b \in AllRows(queues)} \cup Told :
         n \in Nat /\ n # batch.write /\ n <= made /\ Ahead(workerQueue', n)
  <2>1. SUFFICES ASSUME NEW n \in {b.write : b \in AllRows(queues)} \cup Told
                 PROVE  n \in Nat /\ n # batch.write /\ n <= made /\ Ahead(workerQueue', n)
    OBVIOUS
  <2>2. n \in Nat /\ n <= made /\ Ahead(workerQueue, n)
    BY <1>1, RowFacts DEF NumbersAgree
  <2>3. QED BY <2>2, <1>5, <1>6
<1>8. \A b, c \in AllRows(queues') : b.write = c.write => b = c
  BY <1>4, <1>7 DEF NumbersAgree
<1>9. \A b \in AllRows(queues') : b.write \notin Told'
  BY <1>4, <1>7 DEF NumbersAgree
<1>10. \A n \in {b.write : b \in AllRows(queues')} \cup Told' :
          n <= made' /\ Ahead(workerQueue', n)
  BY <1>3, <1>4, <1>5, <1>6, <1>7
<1>11. QED BY <1>3, <1>5, <1>8, <1>9, <1>10 DEF NumbersAgree, AllRows, Told

(* What the app is told when the oldest row goes.                          *)
LEMMA RemovalReport ==
    ASSUME StreamPart, RestPart, queues[user] # <<>>,
           NEW ok \in BOOLEAN, NotifyUser(Head(queues[user]), ok)
    PROVE  reported' \in {reported,
                          reported \cup {[write |-> Head(queues[user]).write, ok |-> ok]}}
<1> DEFINE h == Head(queues[user])
           due == {c \in callbacks : c.user = user /\ c.id = h.id}
<1>1. reported' = reported \cup {[write |-> c.write, ok |-> ok] : c \in due}
  BY DEF NotifyUser
<1>2. h \in Rows(queues[user])
  <2>1. queues[user] \in Seq(Batches)
    BY RowFacts
  <2>2. h = queues[user][1] /\ 1 \in 1..Len(queues[user])
    BY <2>1, HeadTask
  <2>3. QED BY <2>2 DEF Rows
<1>3. ASSUME NEW c \in due PROVE c.write = h.write
  <2>1. WaitsIn(Rows(queues[c.user]), c)
    BY RowsPartIs DEF RestPart
  <2>2. h \in {b \in Rows(queues[c.user]) : b.id = c.id}
    BY <1>2
  <2> HIDE DEF h
  <2>3. h = [id |-> c.id, write |-> c.write, author |-> c.user]
    BY <2>1, <2>2 DEF WaitsIn
  <2>4. QED BY <2>3
<1>4. CASE due = {}
  BY <1>1, <1>4
<1>5. CASE due # {}
  BY <1>1, <1>3, <1>5
<1>6. QED BY <1>4, <1>5

LEMMA RemovalNumbers ==
    ASSUME FirestoreInv, NumbersAgree, queues' = [queues EXCEPT ![user] = Tail(@)],
           queues[user] # <<>>, UNCHANGED <<workerQueue, made>>,
           NEW ok \in BOOLEAN, NotifyUser(Head(queues[user]), ok)
    PROVE  /\ NumbersAgree'
           /\ Head(queues[user]).write \notin Told
<1>1. TypeOK /\ StreamPart /\ QueuePart /\ RestPart
  BY FirestoreInvIs
<1> DEFINE h == Head(queues[user])
<1>2. /\ Rows(queues[user]) = Rows(Tail(queues[user])) \cup {h}
      /\ \A b \in Rows(Tail(queues[user])) : b.id # h.id
  BY <1>1, RowFacts, RowsOfTail
<1>3. /\ queues'[user] = Tail(queues[user])
      /\ \A u \in Users : u # user => queues'[u] = queues[u]
  BY <1>1 DEF StreamPart
<1>4. Told' \subseteq Told \cup {h.write}
  <2>1. reported' \in {reported, reported \cup {[write |-> h.write, ok |-> ok]}}
    BY <1>1, RemovalReport
  <2> HIDE DEF h
  <2>2. QED BY <2>1 DEF Told
<1>5. /\ h \in AllRows(queues) /\ AllRows(queues') \subseteq AllRows(queues)
      /\ h \notin AllRows(queues')
  <2> HIDE DEF h
  <2>1. h.author = user
    BY <1>1, <1>2, RowFacts DEF OwnRows
  <2>2. h \in AllRows(queues)
    BY <1>1, <1>2, RowFacts DEF AllRows
  <2>3. \A u \in Users : Rows(queues'[u]) \subseteq Rows(queues[u]) /\ h \notin Rows(queues'[u])
    <3>1. SUFFICES ASSUME NEW u \in Users
                   PROVE  Rows(queues'[u]) \subseteq Rows(queues[u]) /\ h \notin Rows(queues'[u])
      OBVIOUS
    <3>2. CASE u = user
      BY <3>2, <1>2, <1>3
    <3>3. CASE u # user
      BY <3>3, <2>1, <1>1, <1>3, RowFacts DEF OwnRows
    <3>4. QED BY <3>2, <3>3
  <2>4. QED BY <2>2, <2>3 DEF AllRows
<1> HIDE DEF h
<1>6. \A b \in AllRows(queues') : b.write # h.write /\ b \in AllRows(queues)
  BY <1>5 DEF NumbersAgree
<1>7. \A b, c \in AllRows(queues') : b.write = c.write => b = c
  BY <1>6 DEF NumbersAgree
<1>8. \A b \in AllRows(queues') : b.write \notin Told'
  BY <1>4, <1>6 DEF NumbersAgree
<1>9. \A n \in {b.write : b \in AllRows(queues')} \cup Told' :
         n <= made' /\ Ahead(workerQueue', n)
  BY <1>4, <1>5, <1>6 DEF NumbersAgree
<1>10. Counted(workerQueue', made')
  BY DEF NumbersAgree
<1>11. NumbersAgree'
  BY <1>7, <1>8, <1>9, <1>10 DEF NumbersAgree, AllRows, Told
<1>12. h.write \notin Told
  BY <1>5 DEF NumbersAgree
<1>13. QED BY <1>11, <1>12 DEF h
LEMMA NumbersStep ==
    ASSUME FirestoreInv, NumbersAgree, FirestoreNext
    PROVE  NumbersAgree'
<1> USE DEF authVars, localVars, serverVars, counters
<1>1. TypeOK /\ StreamPart /\ QueuePart /\ RestPart
  BY FirestoreInvIs
<1>2. /\ workerQueue \in Seq(Tasks) /\ OneToken(workerQueue) /\ made \in Nat
      /\ \A b \in AllRows(queues) : b.write \in Nat
      /\ Told \subseteq Nat /\ Counted(workerQueue, made)
  BY <1>1, QueueParts, RowFacts DEF NumbersAgree
<1> DEFINE Drains ==
        /\ \A n : Counted(workerQueue, n) => Counted(workerQueue', n)
        /\ \A n : Ahead(workerQueue, n) => Ahead(workerQueue', n)
<1>3. ASSUME UNCHANGED <<queues, reported, made>>, Drains PROVE NumbersAgree'
  BY <1>2, <1>3, NumbersOfTasks
<1>4. ASSUME NEW e \in Tasks, e.kind # "write", workerQueue' = Append(workerQueue, e),
             UNCHANGED <<queues, reported, made>>
      PROVE  NumbersAgree'
  <2>1. /\ Counted(workerQueue', made)
        /\ \A k \in 0..made : Ahead(workerQueue, k) => Ahead(workerQueue', k)
    BY <1>2, <1>4, NumbersAppended
  <2>2. QED BY <2>1, <1>2, <1>4, NumbersOfTasks
<1>5. CASE Write
  <2> DEFINE e == [kind |-> "write", write |-> made + 1, author |-> notified]
  <2>1. /\ workerQueue' = Append(workerQueue, e) /\ made' = made + 1
        /\ UNCHANGED <<queues, reported>>
    BY <1>5 DEF Write
  <2>2. e \in Tasks /\ e.kind = "write" /\ e.write = made + 1
    BY <1>1, <1>5, BoundAssumption DEF Tasks, WriteTasks, Writes, TypeOK, Write
  <2> HIDE DEF e
  <2>3. made + 1 \in Nat /\ made <= made + 1 /\ made < made + 1
    BY <1>2
  <2>4. /\ Counted(workerQueue', made + 1)
        /\ \A k \in 0..made : Ahead(workerQueue, k) => Ahead(workerQueue', k)
    BY <2>1, <2>2, <2>3, <1>2, NumbersAppended
  <2>5. QED BY <2>1, <2>3, <2>4, <1>2, NumbersOfTasks
<1>6. CASE AuthNext
  <2>1. CASE (\E u \in Users : AuthChanges(u)) \/ (\E t \in Users \cup {None} : AuthAnswers(t))
    BY <2>1, <1>3 DEF AuthChanges, AuthAnswers
  <2>2. CASE NoticeUser
    <3>1. /\ workerQueue' = Append(workerQueue, Head(mainQueue))
          /\ Head(mainQueue).kind = "user" /\ mainQueue # <<>>
          /\ UNCHANGED <<queues, reported, made>>
      BY <2>2 DEF NoticeUser
    <3>2. Head(mainQueue) \in Tasks
      BY <3>1, <1>1, HeadTask, QueueParts DEF Tasks
    <3>3. QED BY <3>1, <3>2, <1>4
  <2>3. CASE PassToken
    <3>1. /\ \/ workerQueue' = Append(workerQueue, Head(mainQueue))
             \/ workerQueue' = workerQueue
          /\ Head(mainQueue).kind = "token" /\ mainQueue # <<>>
          /\ UNCHANGED <<queues, reported, made>>
      BY <2>3 DEF PassToken
    <3>2. Head(mainQueue) \in Tasks
      BY <3>1, <1>1, HeadTask, QueueParts DEF Tasks
    <3>3. QED BY <3>1, <3>2, <1>3, <1>4
  <2>4. QED BY <2>1, <2>2, <2>3, <1>6 DEF AuthNext
<1>7. CASE HandleCredentialChange
  <2>1. /\ workerQueue # <<>> /\ Head(workerQueue).kind = "user"
        /\ workerQueue' = NoTokens(Tail(workerQueue))
        /\ UNCHANGED <<queues, reported, made>>
    BY <1>7 DEF HandleCredentialChange, RestartNetwork, Task
  <2>2. Tail(workerQueue) \in Seq(Tasks) /\ OneToken(Tail(workerQueue))
    BY <2>1, <1>2, HeadTask, TokenTail
  <2>3. Drains
    BY <2>1, <2>2, <1>2, NumbersOfTail, NumbersWithoutTokens
  <2>4. QED BY <2>1, <2>3, <1>3
<1>8. CASE ConnectivityChanged
  <2>1. workerQueue' = NoTokens(workerQueue) /\ UNCHANGED <<queues, reported, made>>
    BY <1>8 DEF ConnectivityChanged, RestartNetwork
  <2>2. Drains
    BY <2>1, <1>2, NumbersWithoutTokens
  <2>3. QED BY <2>1, <2>2, <1>3
<1>9. CASE Relaunch
  <2>1. workerQueue' = <<>> /\ UNCHANGED <<queues, reported, made>>
    BY <1>9 DEF Relaunch
  <2>2. Drains
    BY <2>1 DEF Counted, Ahead
  <2>3. QED BY <2>1, <2>2, <1>3
<1>10. CASE ResumeStart
  <2>1. /\ workerQueue' = Tail(workerQueue) /\ workerQueue # <<>>
        /\ UNCHANGED <<queues, reported, made>>
    BY <1>10 DEF ResumeStart, Task
  <2>2. Drains
    BY <2>1, <1>2, NumbersOfTail
  <2>3. QED BY <2>1, <2>2, <1>3
<1>11. CASE WriteMutations
  BY <1>11, WriteMutationsNumbers
<1>12. CASE MutationResult
  <2>1. /\ queues' = [queues EXCEPT ![user] = Tail(@)] /\ queues[user] # <<>>
        /\ Head(remote.pipeline) = Head(queues[user])
    BY <1>1, <1>12, MutationResultStream
  <2>2. NotifyUser(Head(queues[user]), TRUE) /\ UNCHANGED <<workerQueue, made>>
    BY <2>1, <1>12 DEF MutationResult
  <2>3. QED BY <2>1, <2>2, RemovalNumbers
<1>13. CASE WriteError
  <2>1. /\ queues' = [queues EXCEPT ![user] = Tail(@)] /\ queues[user] # <<>>
        /\ Head(remote.pipeline) = Head(queues[user])
    BY <1>1, <1>13, WriteErrorStream
  <2>2. NotifyUser(Head(queues[user]), FALSE) /\ UNCHANGED <<workerQueue, made>>
    BY <2>1, <1>13 DEF WriteError
  <2>3. QED BY <2>1, <2>2, RemovalNumbers
<1>14. CASE BackoffElapsed \/ IdleTimeout \/ HandshakeComplete \/ StreamFails
  BY <1>3, <1>14 DEF BackoffElapsed, IdleTimeout, HandshakeComplete, StreamFails
<1>15. CASE ApplyRemoteEvent \/ ServerNext
  BY <1>3, <1>15
     DEF ApplyRemoteEvent, ServerNext, ServerGreets, ServerTakes, ServerRefuses, WatchSends
<1>16. QED
  BY <1>5, <1>6, <1>7, <1>8, <1>9, <1>10, <1>11, <1>12, <1>13, <1>14, <1>15
     DEF FirestoreNext, ClientNext

LEMMA NumbersHold == FirestoreSpec => []NumbersAgree
<1>1. FirestoreInit => NumbersAgree
  <2>1. SUFFICES ASSUME FirestoreInit PROVE NumbersAgree
    OBVIOUS
  <2>2. workerQueue = <<>> /\ reported = {} /\ \A u \in Users : Rows(queues[u]) = {}
    <3>1. /\ workerQueue = <<>> /\ reported = {}
          /\ queues = [u \in Users |-> <<>>]
      BY <2>1 DEF FirestoreInit
    <3>2. \A u \in Users : queues[u] = <<>>
      BY <3>1
    <3>3. Len(<<>>) = 0 /\ 1..0 = {}
      OBVIOUS
    <3>4. QED BY <3>1, <3>2, <3>3 DEF Rows
  <2>3. AllRows(queues) = {} /\ Told = {}
    BY <2>2 DEF AllRows, Told
  <2>4. QED BY <2>2, <2>3 DEF NumbersAgree, Counted
<1>2. FirestoreInv /\ NumbersAgree /\ [FirestoreNext]_writeVars => NumbersAgree'
  <2>1. ASSUME NumbersAgree, UNCHANGED writeVars PROVE NumbersAgree'
    BY <2>1 DEF NumbersAgree, AllRows, Told, writeVars, localVars, counters
  <2>2. QED BY <2>1, NumbersStep
<1>3. QED BY <1>1, <1>2, FirestoreInvHolds, PTL DEF FirestoreSpec
-----------------------------------------------------------------------------
(* The client implements WriteLog.                                         *)

LEMMA NumbersIs ==
    ASSUME NEW S, \A b \in S : b.write \in Writes, NEW q \in Seq(S)
    PROVE  /\ Numbers(q) \in Seq(Writes) /\ Len(Numbers(q)) = Len(q)
           /\ \A i \in 1..Len(q) : Numbers(q)[i] = q[i].write
           /\ q = <<>> <=> Numbers(q) = <<>>
<1>1. Len(q) \in Nat /\ \A i \in 1..Len(q) : q[i].write \in Writes
  BY ElementOfSeq
<1>2. Numbers(q) \in Seq(Writes) /\ Len(Numbers(q)) = Len(q)
  <2> DEFINE s == [i \in 1..Len(q) |-> q[i].write]
  <2>1. s \in [1..Len(q) -> Writes]
    BY <1>1
  <2>2. s \in Seq(Writes) /\ Len(s) = Len(q)
    BY <2>1, <1>1 
  <2>3. QED BY <2>2 DEF Numbers
<1>3. \A i \in 1..Len(q) : Numbers(q)[i] = q[i].write
  BY DEF Numbers
<1>4. q = <<>> <=> Numbers(q) = <<>>
  BY <1>2, EmptySeq
<1>5. QED BY <1>2, <1>3, <1>4

LEMMA NumbersOfAppend ==
    ASSUME NEW S, \A b \in S : b.write \in Writes, NEW q \in Seq(S), NEW b \in S
    PROVE  Numbers(Append(q, b)) = Append(Numbers(q), b.write)
<1> DEFINE t == Append(q, b)
           s == Numbers(q)
           n == Append(s, b.write)
<1>1. /\ t \in Seq(S) /\ Len(q) \in Nat /\ Len(t) = Len(q) + 1
      /\ \A i \in 1..Len(q) : t[i] = q[i]
      /\ t[Len(q) + 1] = b
  BY AppendProperties
<1>2. s \in Seq(Writes) /\ Len(s) = Len(q) /\ \A i \in 1..Len(q) : s[i] = q[i].write
  BY NumbersIs
<1>3. b.write \in Writes
  OBVIOUS
<1> HIDE DEF s, t
<1>4. /\ n \in Seq(Writes) /\ Len(n) = Len(q) + 1
      /\ \A i \in 1..Len(q) : n[i] = s[i]
      /\ n[Len(q) + 1] = b.write
  BY <1>2, <1>3, AppendProperties
<1>5. /\ Numbers(t) \in Seq(Writes) /\ Len(Numbers(t)) = Len(t)
      /\ \A i \in 1..Len(t) : Numbers(t)[i] = t[i].write
  BY <1>1, NumbersIs
<1> HIDE DEF n
<1>6. \A i \in 1..Len(t) : Numbers(t)[i] = n[i]
  BY <1>1, <1>2, <1>4, <1>5
<1>7. Numbers(t) = n
  BY <1>1, <1>4, <1>5, <1>6, SeqEqual
<1>8. QED BY <1>7 DEF n, s, t

LEMMA NumbersOfRest ==
    ASSUME NEW S, \A b \in S : b.write \in Writes, NEW q \in Seq(S), q # <<>>
    PROVE  Numbers(Tail(q)) = Tail(Numbers(q)) /\ Head(Numbers(q)) = Head(q).write
<1> DEFINE t == Tail(q)
           s == Numbers(q)
           n == Tail(s)
<1>1. /\ t \in Seq(S) /\ Len(q) \in Nat \ {0} /\ Len(t) = Len(q) - 1 /\ Head(q) = q[1]
      /\ \A i \in 1..(Len(q) - 1) : t[i] = q[i + 1]
  BY HeadTask
<1>2. /\ s \in Seq(Writes) /\ Len(s) = Len(q) /\ \A i \in 1..Len(q) : s[i] = q[i].write
      /\ s # <<>>
  BY NumbersIs
<1> HIDE DEF s, t
<1>3. /\ n \in Seq(Writes) /\ Len(n) = Len(s) - 1 /\ Head(s) = s[1]
      /\ \A i \in 1..(Len(s) - 1) : n[i] = s[i + 1]
  BY <1>2, HeadTask
<1>4. /\ Numbers(t) \in Seq(Writes) /\ Len(Numbers(t)) = Len(t)
      /\ \A i \in 1..Len(t) : Numbers(t)[i] = t[i].write
  BY <1>1, NumbersIs
<1> HIDE DEF n
<1>5. \A i \in 1..Len(t) : i + 1 \in 1..Len(q) /\ i \in 1..(Len(q) - 1)
  BY <1>1
<1>6. \A i \in 1..Len(t) : Numbers(t)[i] = n[i]
  BY <1>1, <1>2, <1>3, <1>4, <1>5
<1>7. Numbers(t) = n
  BY <1>1, <1>2, <1>3, <1>4, <1>6, SeqEqual
<1>8. Head(s) = Head(q).write
  BY <1>1, <1>2, <1>3
<1>9. QED BY <1>7, <1>8 DEF n, s, t

Pending(qs) == [u \in Users |-> Numbers(qs[u])]

LEMMA PendingIs ==
    ASSUME StreamPart, RestPart
    PROVE  /\ \A b \in Batches : b.write \in Writes
           /\ Pending(queues)[user] = Numbers(queues[user])
           /\ queues[user] \in Seq(Batches)
           /\ \A b \in [write : Writes, author : Users, token : Users] : b.write \in Writes
  BY DEF StreamPart, Batches, Pending

LEMMA LogStutters ==
    ASSUME UNCHANGED <<queues, user, log, reported>>,
           Ready(remote') <=> Ready(remote), Ready(remote) => remote'.in = remote.in
    PROVE  UNCHANGED Log!logVars
<1>1. TakenOfPipeline' = TakenOfPipeline
  BY DEF TakenOfPipeline, Ready
<1>2. Pending(queues)' = Pending(queues) /\ Numbers(log)' = Numbers(log)
  BY DEF Pending, Numbers
<1>3. QED BY <1>1, <1>2 DEF Log!logVars, Pending

LEMMA LogStartsOver ==
    ASSUME UNCHANGED <<queues, log, reported>>, user' \in Users,
           ~ Ready(remote') \/ remote'.in = <<>>
    PROVE  Log!LogNext
<1>1. TakenOfPipeline' = 0
  <2>1. Len(<<>>) = 0
    OBVIOUS
  <2>2. QED BY <2>1 DEF TakenOfPipeline, Ready
<1>2. Pending(queues)' = Pending(queues) /\ Numbers(log)' = Numbers(log)
  BY DEF Pending, Numbers
<1>3. Log!StartOver(user')
  BY <1>1, <1>2 DEF Log!StartOver, Pending
<1>4. QED BY <1>3 DEF Log!LogNext
LEMMA WriteMutationsAccepts ==
    ASSUME FirestoreInv, NumbersAgree, WriteMutations
    PROVE  Log!LogNext
<1> DEFINE task == Head(workerQueue)
           batch == [id |-> nextId, write |-> task.write, author |-> task.author]
           n == task.write
<1>1. TypeOK /\ StreamPart /\ QueuePart /\ RestPart
  BY FirestoreInvIs
<1>2. /\ queues' = [queues EXCEPT ![user] = Append(@, batch)] /\ batch \in Batches
      /\ remote'.state = StateAfterFill(remote, queues'[user])
      /\ remote'.in = remote.in /\ remote'.handshake = remote.handshake
  BY <1>1, WriteMutationsStream
<1>3. /\ workerQueue # <<>> /\ task.kind = "write" /\ workerQueue \in Seq(Tasks)
      /\ UNCHANGED <<reported, user, log>>
  BY <1>1 DEF WriteMutations, Task, counters, QueuePart, serverVars
<1>4. \A m : Ahead(workerQueue, m) => m < n
  BY <1>3, NumbersOfTail
<1>5. batch.write = n /\ n \in Writes
  BY <1>1, <1>2, PendingIs
<1> HIDE DEF batch, n, task
<1>6. \A u \in Users : \A i \in 1..Len(Pending(queues)[u]) : Pending(queues)[u][i] < n
  <2>1. SUFFICES ASSUME NEW u \in Users, NEW i \in 1..Len(Numbers(queues[u]))
                 PROVE  Numbers(queues[u])[i] < n
    BY DEF Pending
  <2>2. queues[u] \in Seq(Batches)
    BY <1>1 DEF StreamPart
  <2>3. i \in 1..Len(queues[u]) /\ Numbers(queues[u])[i] = queues[u][i].write
    BY <1>1, <2>2, PendingIs, NumbersIs
  <2>4. queues[u][i] \in AllRows(queues)
    BY <2>3 DEF AllRows, Rows
  <2>5. QED BY <2>3, <2>4, <1>4 DEF NumbersAgree
<1>7. ~ Log!IsReported(n)
  <2>1. SUFFICES ASSUME NEW ok \in BOOLEAN, [write |-> n, ok |-> ok] \in reported PROVE FALSE
    BY DEF Log!IsReported
  <2>2. n \in Told
    BY <2>1 DEF Told
  <2>3. n < n /\ n \in Nat
    BY <2>2, <1>4, <1>5 DEF NumbersAgree, Writes
  <2>4. QED BY <2>3
<1>8. Pending(queues)' = [Pending(queues) EXCEPT ![user] = Append(@, n)]
  <2>1. Numbers(queues'[user]) = Append(Numbers(queues[user]), n)
    BY <1>1, <1>2, <1>5, PendingIs, NumbersOfAppend DEF StreamPart
  <2>2. \A u \in Users : u # user => queues'[u] = queues[u]
    BY <1>1, <1>2 DEF StreamPart
  <2>3. Pending(queues)' = [u \in Users |-> Numbers(queues'[u])]
    BY DEF Pending, Numbers
  <2>4. QED BY <2>1, <2>2, <2>3, <1>1, PendingIs DEF Pending
<1>9. TakenOfPipeline' = TakenOfPipeline /\ Numbers(log)' = Numbers(log)
  <2>1. Ready(remote') <=> Ready(remote)
    BY <1>2 DEF Ready, StateAfterFill, IsStarted
  <2>2. QED BY <2>1, <1>2, <1>3 DEF TakenOfPipeline, Ready, Numbers
<1>10. Log!Accept(n)
  BY <1>3, <1>6, <1>7, <1>8, <1>9 DEF Log!Accept, Pending
<1>11. QED BY <1>5, <1>10 DEF Log!LogNext

LEMMA ServerTakesTakes ==
    ASSUME FirestoreInv, ServerTakes
    PROVE  Log!LogNext
<1>1. TypeOK /\ StreamPart /\ QueuePart /\ RestPart
  BY FirestoreInvIs
<1> DEFINE q == queues[user]
           k == Len(remote.in) + 1
           entry == [write |-> q[k].write, author |-> user, token |-> user]
<1>2. log' = Append(log, entry) /\ k \in 1..Len(q)
  BY <1>1, ServerTakesRows
<1>3. /\ Ready(remote) /\ Len(remote.in) \in Nat
      /\ Len(remote'.in) = k /\ Ready(remote')
  <2>1. Ready(remote) /\ Len(remote.in) \in Nat
    BY <1>1, ReceivesWrite DEF ServerTakes
  <2>2. QED BY <2>1, <1>1, ServerTakesStream DEF Ready
<1>4. PICK a \in Nat : a = Len(remote.in)
  BY <1>3
<1>5. k = a + 1 /\ TakenOfPipeline = a /\ TakenOfPipeline' = a + 1
  BY <1>3, <1>4 DEF TakenOfPipeline, Ready
<1>6. q \in Seq(Batches) /\ \A b \in Batches : b.write \in Writes
  BY <1>1, PendingIs
<1> HIDE DEF k, q
<1>7. Len(Numbers(q)) = Len(q) /\ Numbers(q)[a + 1] = q[k].write /\ a < Len(q)
      /\ q[k].write \in Writes
  <2>1. Len(q) \in Nat /\ q[k] \in Batches
    BY <1>2, <1>6, ElementOfSeq
  <2>2. QED BY <2>1, <1>2, <1>5, <1>6, NumbersIs
<1>8. Numbers(log)' = Append(Numbers(log), Numbers(q)[a + 1])
  <2>1. entry \in [write : Writes, author : Users, token : Users] /\ entry.write = q[k].write
    BY <1>1, <1>7 DEF StreamPart
  <2> HIDE DEF entry
  <2>2. log \in Seq([write : Writes, author : Users, token : Users])
    BY <1>1 DEF RestPart
  <2>3. Numbers(log') = Append(Numbers(log), entry.write)
    BY <2>1, <2>2, <1>1, <1>2, PendingIs, NumbersOfAppend
  <2>4. Numbers(log)' = Numbers(log')
    BY DEF Numbers
  <2>5. QED BY <2>1, <2>3, <2>4, <1>7
<1>9. UNCHANGED <<queues, user, reported>>
  BY DEF ServerTakes, localVars
<1>10. Pending(queues)' = Pending(queues) /\ Pending(queues)[user] = Numbers(q)
  BY <1>1, <1>9, PendingIs DEF Pending, Numbers, q
<1> HIDE DEF entry
<1>11. Log!Take
  BY <1>5, <1>7, <1>8, <1>9, <1>10 DEF Log!Take, Pending
<1>12. QED BY <1>11 DEF Log!LogNext

LEMMA RemovalDrops ==
    ASSUME FirestoreInv, NumbersAgree, queues' = [queues EXCEPT ![user] = Tail(@)],
           queues[user] # <<>>, UNCHANGED <<workerQueue, made, user, log>>,
           NEW ok \in BOOLEAN, NotifyUser(Head(queues[user]), ok)
    PROVE  Log!Drop(ok)
<1>1. TypeOK /\ StreamPart /\ QueuePart /\ RestPart
  BY FirestoreInvIs
<1> DEFINE q == queues[user]
           n == Head(q).write
<1>2. q \in Seq(Batches) /\ (\A b \in Batches : b.write \in Writes) /\ user \in Users
      /\ Pending(queues)[user] = Numbers(q)
  BY <1>1, PendingIs, RowFacts
<1>3. /\ Numbers(Tail(q)) = Tail(Numbers(q)) /\ Head(Numbers(q)) = n /\ Numbers(q) # <<>>
  BY <1>2, NumbersOfRest, NumbersIs
<1>4. Pending(queues)' = [Pending(queues) EXCEPT ![user] = Tail(@)]
  <2>1. queues'[user] = Tail(q) /\ \A u \in Users : u # user => queues'[u] = queues[u]
    BY <1>1 DEF StreamPart
  <2>2. Pending(queues)' = [u \in Users |-> Numbers(queues'[u])]
    BY DEF Pending, Numbers
  <2> DEFINE rest == Tail(Numbers(queues[user]))
  <2>3. Numbers(queues'[user]) = rest /\ rest = Tail(Pending(queues)[user])
    BY <2>1, <1>2, <1>3
  <2> HIDE DEF q, rest
  <2>4. Pending(queues)' = [Pending(queues) EXCEPT ![user] = rest]
    <3>1. Pending(queues) = [u \in Users |-> Numbers(queues[u])]
      BY DEF Pending
    <3>2. \A u \in Users : Numbers(queues'[u]) = IF u = user THEN rest ELSE Numbers(queues[u])
      BY <2>1, <2>3
    <3>3. QED BY <2>2, <3>1, <3>2
  <2>5. QED BY <2>3, <2>4
<1>5. n \notin Told
  BY RemovalNumbers
<1> HIDE DEF n
<1>6. ~ Log!IsReported(n)
  <2>1. SUFFICES ASSUME NEW o \in BOOLEAN, [write |-> n, ok |-> o] \in reported PROVE FALSE
    BY DEF Log!IsReported
  <2>2. [write |-> n, ok |-> o].write = n
    OBVIOUS
  <2>3. QED BY <2>1, <2>2, <1>5 DEF Told
<1> USE DEF n
<1>7. reported' \in {reported, reported \cup {[write |-> n, ok |-> ok]}}
  BY <1>1, RemovalReport
<1>8. Numbers(log)' = Numbers(log)
  BY DEF Numbers
<1> HIDE DEF n, q
<1>9. QED BY <1>2, <1>3, <1>4, <1>6, <1>7, <1>8 DEF Log!Drop, Pending

LEMMA LogStep ==
    ASSUME FirestoreInv, NumbersAgree, FirestoreNext
    PROVE  Log!LogNext \/ UNCHANGED Log!logVars
<1> USE DEF authVars, localVars, serverVars, counters
<1>1. TypeOK /\ StreamPart /\ QueuePart /\ RestPart /\ StartsWithToken /\ user \in Users
  BY FirestoreInvIs DEF QueuePart
<1>2. CASE Write \/ AuthNext \/ ApplyRemoteEvent \/ WatchSends
  <2>1. UNCHANGED <<queues, user, remote, log, reported>>
    BY <1>2 DEF Write, AuthNext, AuthChanges, AuthAnswers, NoticeUser, PassToken,
                ApplyRemoteEvent, WatchSends
  <2>2. QED BY <2>1, LogStutters DEF Ready
<1>3. CASE WriteMutations
  BY <1>3, WriteMutationsAccepts
<1>4. CASE HandleCredentialChange \/ ConnectivityChanged \/ Relaunch
  <2>1. Head(workerQueue).user \in Users \/ ConnectivityChanged \/ Relaunch
    BY <1>1, <1>4, HeadTask, TaskKinds DEF TypeOK, Tasks, HandleCredentialChange, Task
  <2>2. user' \in Users /\ UNCHANGED queues /\ nextId' \in {nextId, LoadNextBatchId(queues)}
        /\ remote' = Fill(Idle("initial", <<>>), queues[user'])
    BY <2>1, <1>1, <1>4
       DEF HandleCredentialChange, ConnectivityChanged, RestartNetwork, Restarted, Relaunch,
           TypeOK
  <2>3. ~ Ready(remote')
    BY <1>1, <2>2, RestartStream DEF Ready
  <2>4. UNCHANGED <<log, reported>>
    BY <1>4 DEF HandleCredentialChange, ConnectivityChanged, Relaunch
  <2>5. QED BY <2>2, <2>3, <2>4, LogStartsOver
<1>5. CASE ResumeStart
  <2>1. UNCHANGED <<queues, user, log, reported>>
    BY <1>5 DEF ResumeStart
  <2>2. QED BY <2>1, <1>1, <1>5, ResumeStartStream, LogStartsOver DEF Ready
<1>6. CASE BackoffElapsed
  <2>1. UNCHANGED <<queues, user, log, reported>>
    BY <1>6 DEF BackoffElapsed
  <2>2. ~ Ready(remote')
    BY <1>1, <1>6, BackoffElapsedStream DEF Ready
  <2>3. QED BY <2>1, <2>2, <1>1, LogStartsOver
<1>7. CASE IdleTimeout \/ StreamFails
  <2>1. UNCHANGED <<queues, nextId, user, log, reported>>
    BY <1>7 DEF IdleTimeout, StreamFails
  <2>2. ~ Ready(remote')
    BY <2>1, <1>1, <1>7, EndedStream DEF Ready, IdleTimeout, StreamFails
  <2>3. QED BY <2>1, <2>2, <1>1, LogStartsOver
<1>8. CASE HandshakeComplete
  <2>1. UNCHANGED <<queues, user, log, reported>>
    BY <1>8 DEF HandshakeComplete
  <2>2. QED BY <2>1, <1>1, <1>8, HandshakeStream, LogStartsOver
<1>9. CASE MutationResult
  <2>1. /\ queues' = [queues EXCEPT ![user] = Tail(@)] /\ queues[user] # <<>>
        /\ Head(remote.pipeline) = Head(queues[user])
        /\ Ready(remote) /\ Ready(remote') /\ remote.in # <<>> /\ remote'.in = Tail(remote.in)
    BY <1>1, <1>9, MutationResultStream DEF Ready
  <2>2. NotifyUser(Head(queues[user]), TRUE) /\ UNCHANGED <<workerQueue, made, user, log>>
    BY <2>1, <1>9 DEF MutationResult
  <2>3. Log!Drop(TRUE)
    BY <2>1, <2>2, RemovalDrops
  <2>4. Len(remote.in) \in Nat \ {0} /\ Len(remote'.in) = Len(remote.in) - 1
    <3>1. remote.in \in Seq(Nat)
      BY <1>1, StreamFields DEF StreamPart
    <3>2. QED BY <3>1, <2>1, HeadTask
  <2>5. PICK a \in Nat : a = Len(remote.in)
    BY <2>4
  <2>6. TakenOfPipeline = a /\ TakenOfPipeline' = a - 1 /\ a > 0
    BY <2>1, <2>4, <2>5 DEF TakenOfPipeline, Ready
  <2>7. Log!Confirm
    BY <2>3, <2>6 DEF Log!Confirm
  <2>8. QED BY <2>7 DEF Log!LogNext
<1>10. CASE WriteError
  <2>1. /\ queues' = [queues EXCEPT ![user] = Tail(@)] /\ queues[user] # <<>>
        /\ Head(remote.pipeline) = Head(queues[user]) /\ ~ Ready(remote')
    BY <1>1, <1>10, WriteErrorStream DEF Ready
  <2>2. NotifyUser(Head(queues[user]), FALSE) /\ UNCHANGED <<workerQueue, made, user, log>>
    BY <2>1, <1>10 DEF WriteError
  <2>3. Log!Drop(FALSE)
    BY <2>1, <2>2, RemovalDrops
  <2>4. TakenOfPipeline' = 0
    BY <2>1 DEF TakenOfPipeline, Ready
  <2>5. QED BY <2>3, <2>4 DEF Log!Refuse, Log!LogNext
<1>11. CASE ServerGreets
  <2>1. ~ Ready(remote) /\ ~ Ready(remote')
    BY <1>1, <1>11, ServerGreetsStream DEF Ready
  <2>2. UNCHANGED <<queues, user, log, reported>>
    BY <1>11 DEF ServerGreets
  <2>3. QED BY <2>1, <2>2, LogStutters
<1>12. CASE ServerTakes
  BY <1>12, ServerTakesTakes
<1>13. CASE ServerRefuses
  <2>1. remote'.state = remote.state /\ remote'.handshake = remote.handshake
        /\ remote'.in = remote.in
    BY <1>1, <1>13, ServerRefusesStream
  <2>2. UNCHANGED <<queues, user, log, reported>>
    BY <1>13 DEF ServerRefuses
  <2>3. QED BY <2>1, <2>2, LogStutters DEF Ready
<1>14. QED
  BY <1>2, <1>3, <1>4, <1>5, <1>6, <1>7, <1>8, <1>9, <1>10, <1>11, <1>12, <1>13
     DEF FirestoreNext, ClientNext, ServerNext

(* The client keeps every write it accepted until the server has taken or  *)
(* refused it, sends the writes of a user in their order and tells the app *)
(* at most once what became of one: it implements WriteLog.                *)
THEOREM ClientImplementsLog == FirestoreSpec => LogSpec
<1>1. FirestoreInit => Log!LogInit
  <2>1. SUFFICES ASSUME FirestoreInit PROVE Log!LogInit
    OBVIOUS
  <2>2. /\ queues = [u \in Users |-> <<>>] /\ log = <<>> /\ reported = {} /\ user \in Users
        /\ remote = Idle("initial", <<>>)
    BY <2>1 DEF FirestoreInit
  <2>3. Numbers(<<>>) = <<>>
    <3>1. <<>> \in Seq(Batches) /\ \A b \in Batches : b.write \in Writes
      <4>1. <<>> \in Seq(Batches)
        OBVIOUS
      <4>2. QED BY <4>1 DEF Batches
    <3>2. QED BY <3>1, NumbersIs
  <2>4. TakenOfPipeline = 0
    BY <2>2 DEF TakenOfPipeline, Ready, Idle
  <2>5. QED BY <2>2, <2>3, <2>4 DEF Log!LogInit
<1>2. FirestoreInv /\ NumbersAgree /\ [FirestoreNext]_writeVars
      => [Log!LogNext]_(Log!logVars)
  <2>1. ASSUME UNCHANGED writeVars PROVE UNCHANGED Log!logVars
    <3>1. UNCHANGED <<queues, user, remote, log, reported>>
      BY <2>1 DEF writeVars, localVars, serverVars
    <3>2. QED BY <3>1, LogStutters DEF Ready
  <2>2. QED BY <2>1, LogStep
<1>3. QED BY <1>1, <1>2, FirestoreInvHolds, NumbersHold, PTL
          DEF FirestoreSpec, LogSpec, Log!LogSpec

-----------------------------------------------------------------------------
(* Nothing waits for ever: at rest nothing is left to send.                *)

LEMMA StreamMoves ==
    ASSUME FirestoreInv, queues[user] # <<>>
    PROVE  \/ remote.state = "backoff" \/ remote.state = "starting"
           \/ remote.in # <<>> \/ remote.out # <<>> \/ remote.refused
<1>1. /\ remote \in Remotes /\ Carries(remote) /\ Runs(remote)
      /\ remote.pipeline # <<>>
  BY FirestoreInvIs, FullPipeline DEF StreamPart
<1>2. SUFFICES ASSUME remote.state = "open", ~ remote.refused
               PROVE  remote.in # <<>> \/ remote.out # <<>>
  BY <1>1 DEF Runs, IsStarted
<1>3. Len(remote.in) \in Nat /\ Len(remote.out) \in Nat /\ Len(remote.pipeline) \in Nat \ {0}
  BY <1>1, StreamFields
<1>4. PICK a \in Nat, o \in Nat, k \in Nat \ {0} :
         a = Len(remote.in) /\ o = Len(remote.out) /\ k = Len(remote.pipeline)
  BY <1>3
<1>5. a + o = IF Ready(remote) THEN k ELSE 1
  BY <1>1, <1>2, <1>4 DEF Carries
<1>6. a # 0 \/ o # 0
  BY <1>5
<1>7. QED BY <1>1, <1>4, <1>6, StreamFields

LEMMA InvIsNeverStuck == FirestoreInv => NeverStuck
<1>1. SUFFICES ASSUME FirestoreInv, queues[user] # <<>>, remote.state = "starting"
               PROVE  mainQueue # <<>> \/ workerQueue # <<>> \/ request # None
  BY StreamMoves DEF NeverStuck
<1>2. QueuePart
  BY <1>1, FirestoreInvIs
<1>3. request # None \/ HasToken(mainQueue) \/ HasToken(workerQueue)
  BY <1>1, <1>2, QueueParts
<1>4. ~ HasToken(<<>>)
  BY DEF HasToken
<1>5. QED BY <1>3, <1>4

(* No write of the user is left where nothing happens: a task, a timer, an *)
(* answer or a message to send always remains.                             *)
THEOREM NobodyIsStuck == FirestoreSpec => []NeverStuck
  BY FirestoreInvHolds, InvIsNeverStuck, PTL

-----------------------------------------------------------------------------
(* Every step lowers the rank: how each part of it changes.                *)

LEMMA OthersCounted ==
    ASSUME NEW S, NEW tasks \in Seq(S)
    PROVE  OtherTasks(tasks) \in Nat /\ OtherTasks(tasks) <= Len(tasks)
<1>1. Len(tasks) \in Nat
  OBVIOUS
<1>2. HasToken(tasks) => Len(tasks) # 0
  BY <1>1 DEF HasToken
<1>3. QED BY <1>1, <1>2 DEF OtherTasks

LEMMA OthersAppended ==
    ASSUME NEW S, NEW tasks \in Seq(S), NEW e \in S
    PROVE  /\ e.kind # "token" => OtherTasks(Append(tasks, e)) = OtherTasks(tasks) + 1
           /\ e.kind = "token" /\ ~ HasToken(tasks)
              => OtherTasks(Append(tasks, e)) = OtherTasks(tasks)
<1>1. Len(tasks) \in Nat /\ Len(Append(tasks, e)) = Len(tasks) + 1
  BY AppendProperties
<1>2. HasToken(Append(tasks, e)) <=> HasToken(tasks) \/ e.kind = "token"
  BY TokenAppended
<1>3. QED BY <1>1, <1>2 DEF OtherTasks

LEMMA OthersTail ==
    ASSUME NEW S, NEW tasks \in Seq(S), OneToken(tasks), tasks # <<>>
    PROVE  /\ Head(tasks).kind # "token" => OtherTasks(Tail(tasks)) = OtherTasks(tasks) - 1
           /\ Head(tasks).kind = "token" => OtherTasks(Tail(tasks)) = OtherTasks(tasks)
<1>1. Len(tasks) \in Nat \ {0} /\ Len(Tail(tasks)) = Len(tasks) - 1
  BY HeadTask
<1>2. /\ Head(tasks).kind # "token" => (HasToken(Tail(tasks)) <=> HasToken(tasks))
      /\ Head(tasks).kind = "token" => HasToken(tasks) /\ ~ HasToken(Tail(tasks))
  BY TokenTail
<1>3. QED BY <1>1, <1>2 DEF OtherTasks

LEMMA OthersWithoutTokens ==
    ASSUME NEW S, NEW tasks \in Seq(S), OneToken(tasks)
    PROVE  OtherTasks(NoTokens(tasks)) = OtherTasks(tasks)
<1>1. ~ HasToken(NoTokens(tasks))
  BY NoTokensTokens
<1>2. CASE ~ HasToken(tasks)
  BY <1>2, NoTokenThere DEF HasToken
<1>3. CASE HasToken(tasks)
  BY <1>1, <1>3, TokenRemoved DEF HasToken, OtherTasks
<1>4. QED BY <1>2, <1>3

(* The token on the queues, of which there is at most one.                 *)
LEMMA NoTokenIsLost ==
    ASSUME ~ HasToken(mainQueue), ~ HasToken(workerQueue)
    PROVE  LostTokens = 0
  BY DEF LostTokens, HasToken

LEMMA TokenOnMain ==
    ASSUME OneToken(mainQueue), ~ HasToken(workerQueue), request = None,
           NEW i \in 1..Len(mainQueue), IsToken(mainQueue, i)
    PROVE  /\ LostTokens = IF mainQueue[i].token = None THEN 1 ELSE 0
           /\ StepsToToken = IF mainQueue[i].fresh THEN 6 ELSE 8
<1>1. \A j \in 1..Len(mainQueue) : IsToken(mainQueue, j) => j = i
  BY DEF OneToken
<1>2. \A j \in 1..Len(workerQueue) : ~ IsToken(workerQueue, j)
  BY DEF HasToken
<1>3. QED BY <1>1, <1>2 DEF LostTokens, StepsToToken, HasToken

LEMMA TokenOnWorker ==
    ASSUME OneToken(workerQueue), ~ HasToken(mainQueue), request = None,
           NEW i \in 1..Len(workerQueue), IsToken(workerQueue, i)
    PROVE  /\ LostTokens = IF workerQueue[i].token = None THEN 1 ELSE 0
           /\ StepsToToken = 5
<1>1. \A j \in 1..Len(workerQueue) : IsToken(workerQueue, j) => j = i
  BY DEF OneToken
<1>2. \A j \in 1..Len(mainQueue) : ~ IsToken(mainQueue, j)
  BY DEF HasToken
<1>3. QED BY <1>1, <1>2 DEF LostTokens, StepsToToken, HasToken

(* How far each state of the stream is from an answer.                     *)
LEMMA StepsOfStream ==
    /\ remote.state = "backoff" => StepsToAnswer = 10
    /\ remote.state = "starting" => StepsToAnswer = StepsToToken
    /\ remote.state = "open" /\ ~ remote.handshake =>
         StepsToAnswer = IF remote.in = <<>> THEN 4 ELSE 3
    /\ Ready(remote) => StepsToAnswer = IF remote.refused THEN 1 ELSE 2
    /\ remote.state \in {"initial", "error"} => StepsToAnswer = 0
  BY DEF StepsToAnswer, Ready

(* The parts of the rank are numbers.                                      *)
LEMMA RankParts ==
    ASSUME FirestoreInv
    PROVE  /\ Budget \in Nat /\ TasksLeft \in Nat /\ WritesLeft \in Nat
           /\ LostTokens \in Nat /\ StepsToAnswer \in Nat /\ ToSend \in Nat
           /\ ToRead \in Nat
<1>1. TypeOK /\ StreamPart /\ QueuePart
  BY FirestoreInvIs
<1>2. Budget \in Nat
  <2>1. /\ MaxWrites - made \in Nat /\ MaxSwitches - switches \in Nat
        /\ MaxFaults - faults \in Nat
    BY <1>1, BoundAssumption DEF TypeOK
  <2>2. QED BY <2>1 DEF Budget
<1>3. TasksLeft \in Nat
  <2>1. OtherTasks(mainQueue) \in Nat /\ OtherTasks(workerQueue) \in Nat
    BY <1>1, QueueParts, OthersCounted
  <2>2. QED BY <2>1 DEF TasksLeft
<1>4. WritesLeft \in Nat /\ ToSend \in Nat
  BY <1>1, FullPipeline, StreamFields DEF WritesLeft, ToSend, StreamPart
<1>5. StepsToAnswer \in Nat /\ LostTokens \in Nat /\ ToRead \in Nat
  BY DEF StepsToAnswer, StepsToToken, LostTokens, ToRead
<1>6. QED BY <1>2, <1>3, <1>4, <1>5

(* The rank falls where a part falls and those before it stay.             *)
LEMMA RankFalls ==
    ASSUME \/ Budget' < Budget
           \/ /\ Budget' = Budget
              /\ \/ TasksLeft' < TasksLeft
                 \/ /\ TasksLeft' = TasksLeft
                    /\ \/ WritesLeft' < WritesLeft
                       \/ /\ WritesLeft' = WritesLeft
                          /\ \/ LostTokens' < LostTokens
                             \/ /\ LostTokens' = LostTokens
                                /\ \/ StepsToAnswer' < StepsToAnswer
                                   \/ /\ StepsToAnswer' = StepsToAnswer
                                      /\ \/ ToSend' < ToSend
                                         \/ ToSend' = ToSend /\ ToRead' < ToRead
    PROVE  Lower(Rank', Rank)
<1>1. /\ Rank = <<Budget, TasksLeft, WritesLeft, LostTokens, StepsToAnswer, ToSend, ToRead>>
      /\ Rank' = <<Budget', TasksLeft', WritesLeft', LostTokens', StepsToAnswer', ToSend',
                   ToRead'>>
  BY DEF Rank
<1>2. PICK n \in 1..7 : Rank'[n] < Rank[n] /\ \A j \in 1..(n - 1) : Rank'[j] = Rank[j]
  BY <1>1
<1>3. Len(Rank) = 7
  BY <1>1
<1>4. QED BY <1>2, <1>3 DEF Lower

-----------------------------------------------------------------------------
(* Which part falls, action by action.                                     *)

LEMMA Spends ==
    ASSUME FirestoreInv,
           \/ made' = made + 1 /\ made < MaxWrites /\ UNCHANGED <<switches, faults>>
           \/ switches' = switches + 1 /\ switches < MaxSwitches /\ UNCHANGED <<made, faults>>
           \/ Fault /\ UNCHANGED <<made, switches>>
    PROVE  Lower(Rank', Rank)
<1>1. made \in Nat /\ switches \in Nat /\ faults \in Nat
  BY DEF FirestoreInv, TypeOK
<1>2. Budget' < Budget
  BY <1>1, BoundAssumption DEF Budget, Fault
<1>3. QED BY <1>2, RankFalls

LEMMA NoticeUserLowers ==
    ASSUME FirestoreInv, NoticeUser
    PROVE  Lower(Rank', Rank)
<1> DEFINE S == UserTasks \cup TokenTasks
           e == Head(mainQueue)
           t == Tail(mainQueue)
<1>1. /\ QueuePart /\ mainQueue # <<>> /\ e.kind = "user"
      /\ mainQueue' = [i \in 1..(Len(mainQueue) - 1) |-> Stale(mainQueue[i + 1])]
      /\ workerQueue' = Append(workerQueue, e) /\ UNCHANGED counters
  BY FirestoreInvIs DEF NoticeUser
<1>2. /\ mainQueue \in Seq(S) /\ workerQueue \in Seq(Tasks) /\ OneToken(mainQueue)
      /\ e \in S /\ t \in Seq(S) /\ Len(t) = Len(mainQueue) - 1 /\ Len(t) \in Nat
      /\ \A i \in 1..Len(t) : t[i] = mainQueue[i + 1]
  BY <1>1, QueueParts, HeadTask
<1>3. e \in Tasks
  BY <1>2 DEF Tasks
<1>4. OtherTasks(workerQueue') = OtherTasks(workerQueue) + 1
  BY <1>1, <1>2, <1>3, OthersAppended
<1>5. OtherTasks(t) = OtherTasks(mainQueue) - 1
  BY <1>1, <1>2, OthersTail
<1>6. OtherTasks(mainQueue') = OtherTasks(t)
  <2>1. Len(mainQueue') = Len(t)
    BY <1>1, <1>2
  <2>2. \A i \in 1..Len(t) : mainQueue'[i].kind = t[i].kind
    <3>1. SUFFICES ASSUME NEW i \in 1..Len(t) PROVE mainQueue'[i].kind = t[i].kind
      OBVIOUS
    <3>2. mainQueue'[i] = Stale(t[i])
      BY <1>1, <1>2
    <3>3. t[i] \in S
      BY <1>2, ElementOfSeq
    <3>4. QED BY <3>2, <3>3 DEF Stale, UserTasks, TokenTasks
  <2>3. HasToken(mainQueue') <=> HasToken(t)
    BY <2>1, <2>2, SameKinds
  <2>4. QED BY <2>1, <2>3 DEF OtherTasks
<1>7. TasksLeft' < TasksLeft
  <2>1. OtherTasks(mainQueue) \in Nat /\ OtherTasks(workerQueue) \in Nat
    BY <1>2, OthersCounted
  <2>2. /\ TasksLeft' = 2 * OtherTasks(mainQueue') + OtherTasks(workerQueue')
        /\ OtherTasks(mainQueue') = OtherTasks(mainQueue) - 1
    BY <1>5, <1>6 DEF TasksLeft
  <2>3. QED BY <2>1, <2>2, <1>4 DEF TasksLeft
<1>8. Budget' = Budget
  BY <1>1 DEF Budget, counters
<1>9. QED BY <1>7, <1>8, RankFalls

(* A task of the worker queue that is no token.                            *)
LEMMA TaskLowers ==
    ASSUME FirestoreInv, workerQueue # <<>>, Head(workerQueue).kind # "token",
           OtherTasks(mainQueue') = OtherTasks(mainQueue),
           OtherTasks(workerQueue') = OtherTasks(Tail(workerQueue)), UNCHANGED counters
    PROVE  Lower(Rank', Rank)
<1>1. /\ mainQueue \in Seq(UserTasks \cup TokenTasks) /\ workerQueue \in Seq(Tasks)
      /\ OneToken(workerQueue)
  BY FirestoreInvIs, QueueParts
<1>2. OtherTasks(workerQueue') = OtherTasks(workerQueue) - 1
  BY <1>1, OthersTail
<1>3. OtherTasks(mainQueue) \in Nat /\ OtherTasks(workerQueue) \in Nat
  BY <1>1, OthersCounted
<1>4. TasksLeft' = 2 * OtherTasks(mainQueue') + OtherTasks(workerQueue')
  BY DEF TasksLeft
<1>5. TasksLeft' < TasksLeft
  BY <1>2, <1>3, <1>4 DEF TasksLeft
<1>6. Budget' = Budget
  BY DEF Budget, counters
<1>7. QED BY <1>5, <1>6, RankFalls

LEMMA HandleCredentialChangeLowers ==
    ASSUME FirestoreInv, HandleCredentialChange
    PROVE  Lower(Rank', Rank)
<1>1. /\ QueuePart /\ workerQueue # <<>> /\ Head(workerQueue).kind = "user"
      /\ mainQueue' = NoTokens(mainQueue) /\ workerQueue' = NoTokens(Tail(workerQueue))
      /\ UNCHANGED counters
  BY FirestoreInvIs DEF HandleCredentialChange, Task, RestartNetwork
<1>2. /\ mainQueue \in Seq(UserTasks \cup TokenTasks) /\ OneToken(mainQueue)
      /\ Tail(workerQueue) \in Seq(Tasks) /\ OneToken(Tail(workerQueue))
  <2>1. workerQueue \in Seq(Tasks) /\ OneToken(workerQueue)
    BY <1>1, QueueParts
  <2>2. QED BY <2>1, <1>1, QueueParts, HeadTask, TokenTail
<1>3. /\ OtherTasks(mainQueue') = OtherTasks(mainQueue)
      /\ OtherTasks(workerQueue') = OtherTasks(Tail(workerQueue))
  BY <1>1, <1>2, OthersWithoutTokens
<1>4. QED BY <1>1, <1>3, TaskLowers

LEMMA WriteMutationsLowers ==
    ASSUME FirestoreInv, WriteMutations
    PROVE  Lower(Rank', Rank)
<1>1. /\ workerQueue # <<>> /\ Head(workerQueue).kind = "write"
      /\ mainQueue' = mainQueue /\ workerQueue' = Tail(workerQueue) /\ UNCHANGED counters
  BY DEF WriteMutations, Task
<1>2. QED BY <1>1, TaskLowers

LEMMA RemovalLowers ==
    ASSUME FirestoreInv, MutationResult \/ WriteError
    PROVE  Lower(Rank', Rank)
<1>1. /\ queues' = [queues EXCEPT ![user] = Tail(@)] /\ queues[user] # <<>>
      /\ queues[user] \in Seq(Batches)
  BY FirestoreInvIs, MutationResultStream, WriteErrorStream
<1>2. UNCHANGED <<mainQueue, workerQueue, user, counters>>
  BY DEF MutationResult, WriteError, authVars
<1>3. queues'[user'] = Tail(queues[user])
  BY <1>1, <1>2, FirestoreInvIs DEF StreamPart
<1>4. WritesLeft' < WritesLeft
  <2>1. WritesLeft = Len(queues[user]) /\ WritesLeft' = Len(Tail(queues[user]))
    BY <1>3 DEF WritesLeft
  <2>2. /\ Len(queues[user]) \in Nat \ {0}
        /\ Len(Tail(queues[user])) = Len(queues[user]) - 1
    BY <1>1, HeadTask
  <2>3. QED BY <2>1, <2>2
<1>5. Budget' = Budget /\ TasksLeft' = TasksLeft
  BY <1>2 DEF Budget, counters, TasksLeft
<1>6. QED BY <1>4, <1>5, RankFalls

(* The answer of FIRAuth, when it is a token.                              *)
LEMMA AuthAnswersLowers ==
    ASSUME FirestoreInv, NEW t \in Users \cup {None}, AuthAnswers(t)
    PROVE  Lower(Rank', Rank)
<1> DEFINE S == UserTasks \cup TokenTasks
           e == [kind |-> "token", token |-> t, fresh |-> request.fresh]
<1>1. /\ request # None /\ mainQueue' = Append(mainQueue, e) /\ request' = None
      /\ UNCHANGED <<workerQueue, user, queues, remote, made, switches>>
  BY DEF AuthAnswers, localVars
<1>2. /\ QueuePart /\ request \in Requests /\ mainQueue \in Seq(S) /\ authUser \in Users
      /\ ~ HasToken(mainQueue) /\ ~ HasToken(workerQueue) /\ OneToken(mainQueue)
      /\ remote.state = "starting"
  BY <1>1, FirestoreInvIs, QueueParts
<1>3. CASE Fault
  BY <1>1, <1>3, Spends
<1>4. CASE t \in {request.asked, authUser} /\ UNCHANGED faults
  <2>1. t \in Users /\ t # None /\ request.fresh \in BOOLEAN
    BY <1>2, <1>4, NoneAssumption DEF Requests
  <2>2. e \in S /\ e.kind = "token" /\ e.token = t /\ e.fresh = request.fresh
    BY <2>1 DEF TokenTasks
  <2> HIDE DEF e
  <2>3. /\ HasToken(mainQueue') /\ OneToken(mainQueue')
        /\ OtherTasks(mainQueue') = OtherTasks(mainQueue)
    BY <1>1, <1>2, <2>2, TokenAppended, OthersAppended
  <2>4. /\ Len(mainQueue) + 1 \in 1..Len(mainQueue') /\ mainQueue'[Len(mainQueue) + 1] = e
    BY <1>1, <1>2, <2>2, AppendProperties
  <2>5. ~ HasToken(workerQueue)'
    BY <1>1, <1>2 DEF HasToken, IsToken
  <2>6. LostTokens' = 0 /\ StepsToToken' = IF e.fresh THEN 6 ELSE 8
    <3> DEFINE k == Len(mainQueue) + 1
    <3>1. \A j \in 1..Len(mainQueue') : IsToken(mainQueue', j) => j = k
      BY <2>2, <2>3, <2>4 DEF OneToken, IsToken
    <3>2. \A j \in 1..Len(workerQueue') : ~ IsToken(workerQueue', j)
      BY <2>5 DEF HasToken, IsToken
    <3>3. IsToken(mainQueue', k) /\ k \in 1..Len(mainQueue') /\ mainQueue'[k] = e
      BY <2>2, <2>4 DEF IsToken
    <3> HIDE DEF k
    <3>4. LostTokens' = 0
      BY <3>1, <3>2, <3>3, <2>1, <2>2 DEF LostTokens, IsToken
    <3>5. StepsToToken' = IF e.fresh THEN 6 ELSE 8
      BY <3>1, <3>2, <3>3, <1>1 DEF StepsToToken, HasToken, IsToken
    <3>6. QED BY <3>4, <3>5
  <2>7. LostTokens = 0 /\ StepsToToken = IF request.fresh THEN 7 ELSE 9
    BY <1>1, <1>2, NoTokenIsLost DEF StepsToToken
  <2>8. StepsToAnswer' = StepsToToken' /\ StepsToAnswer = StepsToToken
    BY <1>1, <1>2 DEF StepsToAnswer
  <2>9. StepsToAnswer' < StepsToAnswer
    BY <2>1, <2>2, <2>6, <2>7, <2>8
  <2>10. /\ Budget' = Budget /\ TasksLeft' = TasksLeft /\ WritesLeft' = WritesLeft
         /\ LostTokens' = LostTokens
    BY <1>1, <1>4, <2>3, <2>6, <2>7 DEF Budget, TasksLeft, WritesLeft
  <2>11. QED BY <2>9, <2>10, RankFalls
<1>5. QED BY <1>3, <1>4 DEF AuthAnswers

LEMMA PassTokenLowers ==
    ASSUME FirestoreInv, PassToken
    PROVE  Lower(Rank', Rank)
<1> DEFINE S == UserTasks \cup TokenTasks
           e == Head(mainQueue)
<1>1. /\ mainQueue # <<>> /\ e.kind = "token" /\ mainQueue' = Tail(mainQueue)
      /\ UNCHANGED <<user, queues, remote, counters>>
  BY DEF PassToken, localVars
<1>2. /\ QueuePart /\ mainQueue \in Seq(S) /\ OneToken(mainQueue)
      /\ workerQueue \in Seq(Tasks) /\ OneToken(workerQueue)
  BY FirestoreInvIs, QueueParts
<1>3. /\ e \in S /\ e = mainQueue[1] /\ 1 \in 1..Len(mainQueue) /\ IsToken(mainQueue, 1)
      /\ HasToken(mainQueue) /\ ~ HasToken(mainQueue') /\ e \in Tasks
      /\ OtherTasks(mainQueue') = OtherTasks(mainQueue)
  <2>1. e \in S /\ e = mainQueue[1] /\ 1 \in 1..Len(mainQueue)
    BY <1>1, <1>2, HeadTask
  <2>2. HasToken(mainQueue) /\ ~ HasToken(Tail(mainQueue))
        /\ OtherTasks(Tail(mainQueue)) = OtherTasks(mainQueue)
    BY <1>1, <1>2, TokenTail, OthersTail
  <2>3. QED BY <2>1, <2>2, <1>1 DEF IsToken, Tasks
<1>4. ~ HasToken(workerQueue) /\ request = None /\ remote.state = "starting"
  BY <1>2, <1>3, QueueParts
<1>5. /\ LostTokens = IF e.token = None THEN 1 ELSE 0
      /\ StepsToToken = IF e.fresh THEN 6 ELSE 8
  BY <1>2, <1>3, <1>4, TokenOnMain
<1>6. e.fresh \in BOOLEAN
  BY <1>1, <1>3, TaskKinds
<1> HIDE DEF e
<1>7. \A j \in 1..Len(mainQueue') : ~ IsToken(mainQueue', j)
  BY <1>3 DEF HasToken
<1>8. Budget' = Budget /\ WritesLeft' = WritesLeft
  BY <1>1 DEF Budget, counters, WritesLeft
<1>9. StepsToAnswer' = StepsToToken' /\ StepsToAnswer = StepsToToken
  BY <1>1, <1>4 DEF StepsToAnswer
<1>10. CASE e.fresh
  <2>1. workerQueue' = Append(workerQueue, e) /\ request' = request
    BY <1>10 DEF PassToken, e
  <2>2. /\ HasToken(workerQueue') /\ OneToken(workerQueue')
        /\ OtherTasks(workerQueue') = OtherTasks(workerQueue)
        /\ Len(workerQueue) + 1 \in 1..Len(workerQueue')
        /\ workerQueue'[Len(workerQueue) + 1] = e
    BY <2>1, <1>1, <1>2, <1>3, <1>4, TokenAppended, OthersAppended, AppendProperties
  <2> DEFINE k == Len(workerQueue) + 1
  <2>3. /\ \A j \in 1..Len(workerQueue') : IsToken(workerQueue', j) => j = k
        /\ IsToken(workerQueue', k) /\ k \in 1..Len(workerQueue') /\ workerQueue'[k] = e
    BY <2>2, <1>1 DEF OneToken, IsToken
  <2> HIDE DEF k
  <2>4. LostTokens' = IF e.token = None THEN 1 ELSE 0
    BY <2>3, <1>7 DEF LostTokens, IsToken
  <2>5. StepsToToken' = 5
    BY <2>1, <2>3, <1>4 DEF StepsToToken, HasToken, IsToken
  <2>6. TasksLeft' = TasksLeft
    BY <2>2, <1>3 DEF TasksLeft
  <2>7. StepsToAnswer' < StepsToAnswer
    BY <2>5, <1>5, <1>9, <1>10
  <2>8. QED BY <2>4, <2>6, <2>7, <1>5, <1>8, RankFalls
<1>11. CASE ~ e.fresh
  <2>1. workerQueue' = workerQueue /\ request' = [asked |-> authUser, fresh |-> TRUE]
    BY <1>11 DEF PassToken, e
  <2>2. request' # None /\ request'.fresh
    <3>1. [asked |-> authUser, fresh |-> TRUE] \in Requests
      BY <1>2 DEF Requests, QueuePart
    <3>2. QED BY <2>1, <3>1, NoneAssumption
  <2>3. \A j \in 1..Len(workerQueue') : ~ IsToken(workerQueue', j)
    BY <2>1, <1>4 DEF HasToken
  <2>4. LostTokens' = 0 /\ StepsToToken' = 7
    BY <2>2, <2>3, <1>7 DEF LostTokens, StepsToToken, IsToken
  <2>5. TasksLeft' = TasksLeft
    BY <2>1, <1>3 DEF TasksLeft
  <2>6. StepsToAnswer' < StepsToAnswer
    BY <2>4, <1>5, <1>9, <1>11
  <2>7. LostTokens' <= LostTokens /\ LostTokens' \in Nat /\ LostTokens \in Nat
    BY <2>4, <1>5
  <2>8. QED BY <2>4, <2>5, <2>6, <2>7, <1>5, <1>8, RankFalls
<1>12. QED BY <1>6, <1>10, <1>11

LEMMA ResumeStartLowers ==
    ASSUME FirestoreInv, ResumeStart
    PROVE  Lower(Rank', Rank)
<1> DEFINE e == Head(workerQueue)
<1>1. /\ workerQueue # <<>> /\ e.kind = "token" /\ workerQueue' = Tail(workerQueue)
      /\ UNCHANGED <<mainQueue, request, user, queues, counters>>
  BY DEF ResumeStart, Task, localVars, authVars
<1>2. /\ TypeOK /\ StreamPart /\ QueuePart /\ StartsWithToken
      /\ workerQueue \in Seq(Tasks) /\ OneToken(workerQueue)
  BY FirestoreInvIs, QueueParts DEF QueuePart
<1>3. /\ remote'.in = <<>> /\ ~ remote'.handshake /\ remote.state = "starting"
      /\ remote'.state = "open" => e.token # None
      /\ remote' \in Remotes /\ remote'.state # "starting"
  BY <1>2, ResumeStartStream DEF StreamPart
<1>4. e.token # None => remote'.state = "open"
  BY <1>2, <1>3 DEF ResumeStart, StreamPart, Remotes
<1>5. /\ e = workerQueue[1] /\ 1 \in 1..Len(workerQueue) /\ IsToken(workerQueue, 1)
      /\ HasToken(workerQueue) /\ ~ HasToken(workerQueue')
      /\ OtherTasks(workerQueue') = OtherTasks(workerQueue)
  <2>1. e = workerQueue[1] /\ 1 \in 1..Len(workerQueue)
    BY <1>1, <1>2, HeadTask
  <2>2. HasToken(workerQueue) /\ ~ HasToken(Tail(workerQueue))
        /\ OtherTasks(Tail(workerQueue)) = OtherTasks(workerQueue)
    BY <1>1, <1>2, TokenTail, OthersTail
  <2>3. QED BY <2>1, <2>2, <1>1 DEF IsToken
<1>6. ~ HasToken(mainQueue) /\ request = None
  BY <1>2, <1>5, QueueParts
<1>7. LostTokens = (IF e.token = None THEN 1 ELSE 0) /\ StepsToToken = 5
  BY <1>2, <1>5, <1>6, TokenOnWorker
<1> HIDE DEF e
<1>8. LostTokens' = 0
  <2>1. /\ \A j \in 1..Len(mainQueue') : ~ IsToken(mainQueue', j)
        /\ \A j \in 1..Len(workerQueue') : ~ IsToken(workerQueue', j)
    BY <1>1, <1>5, <1>6 DEF HasToken
  <2>2. QED BY <2>1 DEF LostTokens, IsToken
<1>9. Budget' = Budget /\ TasksLeft' = TasksLeft /\ WritesLeft' = WritesLeft
  BY <1>1, <1>5 DEF Budget, counters, TasksLeft, WritesLeft
<1>10. CASE e.token = None
  BY <1>7, <1>8, <1>9, <1>10, RankFalls
<1>11. CASE e.token # None
  <2>1. StepsToAnswer = 5
    BY <1>3, <1>7 DEF StepsToAnswer
  <2>2. StepsToAnswer' = 4
    BY <1>3, <1>4, <1>11 DEF StepsToAnswer
  <2>3. QED BY <2>1, <2>2, <1>7, <1>8, <1>9, <1>11, RankFalls
<1>12. QED BY <1>10, <1>11

(* A step of the stream, which leaves the queues and the rows alone.       *)
LEMMA StreamLowers ==
    ASSUME UNCHANGED <<mainQueue, workerQueue, user, queues, counters>>,
           \/ StepsToAnswer' < StepsToAnswer
           \/ StepsToAnswer' = StepsToAnswer /\ ToSend' < ToSend
           \/ StepsToAnswer' = StepsToAnswer /\ ToSend' = ToSend /\ ToRead' < ToRead
    PROVE  Lower(Rank', Rank)
<1>1. Budget' = Budget /\ TasksLeft' = TasksLeft /\ WritesLeft' = WritesLeft
  BY DEF Budget, counters, TasksLeft, WritesLeft
<1>2. LostTokens' = LostTokens
  BY DEF LostTokens, IsToken
<1>3. QED BY <1>1, <1>2, RankFalls

LEMMA BackoffElapsedLowers ==
    ASSUME FirestoreInv, BackoffElapsed
    PROVE  Lower(Rank', Rank)
<1>1. /\ StreamPart /\ QueuePart /\ remote.state = "backoff"
      /\ UNCHANGED <<authUser, mainQueue, workerQueue, user, queues, counters>>
      /\ RequestCredentials("backoff")
  BY FirestoreInvIs DEF BackoffElapsed, localVars
<1>2. remote'.state = "starting"
  BY <1>1, BackoffElapsedStream
<1>3. request' # None /\ request'.fresh
  <2>1. [asked |-> authUser, fresh |-> TRUE] \in Requests
    BY <1>1 DEF QueuePart, Requests
  <2>2. request' = [asked |-> authUser, fresh |-> TRUE]
    BY <1>1, <1>2 DEF RequestCredentials
  <2>3. QED BY <2>1, <2>2, NoneAssumption
<1>4. StepsToAnswer = 10
  BY <1>1 DEF StepsToAnswer
<1>5. StepsToAnswer' = 7
  BY <1>2, <1>3 DEF StepsToAnswer, StepsToToken
<1>6. QED BY <1>1, <1>4, <1>5, StreamLowers

LEMMA IdleTimeoutLowers ==
    ASSUME FirestoreInv, IdleTimeout
    PROVE  Lower(Rank', Rank)
<1>1. /\ StreamPart /\ remote.idle /\ remote' = StartIfNeeded(Idle("initial", remote.pipeline))
      /\ UNCHANGED <<mainQueue, workerQueue, user, queues, nextId, counters>>
  BY FirestoreInvIs DEF IdleTimeout, localVars
<1>2. Ready(remote) /\ remote.pipeline = <<>>
  BY <1>1 DEF StreamPart, Carries
<1>3. remote'.state = "initial"
  BY <1>1, <1>2, EndedStream
<1>4. StepsToAnswer' = 0
  BY <1>3 DEF StepsToAnswer
<1>5. StepsToAnswer \in {1, 2}
  BY <1>2 DEF StepsToAnswer, Ready
<1>6. StepsToAnswer' < StepsToAnswer
  BY <1>4, <1>5
<1>7. QED BY <1>1, <1>6, StreamLowers

LEMMA HandshakeCompleteLowers ==
    ASSUME FirestoreInv, HandshakeComplete
    PROVE  Lower(Rank', Rank)
<1>1. /\ StreamPart /\ remote.in # <<>> /\ ~ remote.handshake /\ remote'.handshake
      /\ UNCHANGED <<mainQueue, workerQueue, user, queues, counters>>
  <2>1. remote \in Remotes
    BY FirestoreInvIs DEF StreamPart
  <2>2. QED BY <2>1, FirestoreInvIs DEF HandshakeComplete, authVars, localVars, Remotes
<1>2. remote.state = "open"
  BY <1>1, NotReadyStream DEF StreamPart, Ready
<1>3. remote'.state = "open"
  BY <1>1, <1>2, HandshakeStream
<1>4. StepsToAnswer = 3
  BY <1>1, <1>2 DEF StepsToAnswer
<1>5. StepsToAnswer' \in {1, 2}
  BY <1>1, <1>3 DEF StepsToAnswer
<1>6. StepsToAnswer' < StepsToAnswer
  BY <1>4, <1>5
<1>7. QED BY <1>1, <1>6, StreamLowers

LEMMA ServerGreetsLowers ==
    ASSUME FirestoreInv, ServerGreets
    PROVE  Lower(Rank', Rank)
<1>1. /\ StreamPart /\ remote \in Remotes /\ Carries(remote) /\ remote.out # <<>>
      /\ remote' = [remote EXCEPT !.out = Tail(@), !.in = Append(@, 0)]
      /\ UNCHANGED <<mainQueue, workerQueue, user, queues, counters>>
  BY FirestoreInvIs DEF ServerGreets, Receives, authVars, localVars, StreamPart
<1>2. ~ Ready(remote) /\ remote'.state = remote.state /\ remote'.handshake = remote.handshake
  BY <1>1, ServerGreetsStream
<1>3. remote.state = "open" /\ remote.in = <<>> /\ ~ remote.handshake
  BY <1>1, <1>2, NotReadyStream, StreamFields
<1>4. remote'.in # <<>>
  <2>1. remote'.in = Append(remote.in, 0) /\ remote.in \in Seq(Nat)
    BY <1>1, StreamFields DEF Remotes
  <2>2. QED BY <2>1, <1>3
<1>5. StepsToAnswer = 4
  BY <1>3 DEF StepsToAnswer
<1>6. StepsToAnswer' = 3
  BY <1>2, <1>3, <1>4 DEF StepsToAnswer
<1>7. QED BY <1>1, <1>5, <1>6, StreamLowers

LEMMA ServerTakesLowers ==
    ASSUME FirestoreInv, ServerTakes
    PROVE  Lower(Rank', Rank)
<1>1. /\ StreamPart /\ remote \in Remotes /\ Receives("write")
      /\ remote' = [remote EXCEPT !.out = Tail(@), !.in = Append(@, Len(log'))]
      /\ UNCHANGED <<mainQueue, workerQueue, user, queues, counters>>
  BY FirestoreInvIs DEF ServerTakes, authVars, localVars, StreamPart
<1>2. Ready(remote) /\ ~ remote.refused /\ remote.out \in Seq(Messages) /\ remote.out # <<>>
  BY <1>1, ReceivesWrite, StreamFields DEF Receives
<1>3. /\ remote'.state = remote.state /\ remote'.handshake = remote.handshake
      /\ remote'.refused = remote.refused /\ remote'.out = Tail(remote.out)
  BY <1>1 DEF Remotes
<1>4. ToSend' < ToSend
  BY <1>2, <1>3, HeadTask DEF ToSend
<1>5. StepsToAnswer' = StepsToAnswer
  <2>1. StepsToAnswer = 2
    BY <1>2 DEF StepsToAnswer, Ready
  <2>2. StepsToAnswer' = 2
    BY <1>2, <1>3 DEF StepsToAnswer, Ready
  <2>3. QED BY <2>1, <2>2
<1>6. QED BY <1>1, <1>4, <1>5, StreamLowers

LEMMA ServerRefusesLowers ==
    ASSUME FirestoreInv, ServerRefuses
    PROVE  Lower(Rank', Rank)
<1>1. /\ StreamPart /\ remote \in Remotes /\ Receives("write")
      /\ remote' = [remote EXCEPT !.out = <<>>, !.refused = TRUE]
      /\ UNCHANGED <<mainQueue, workerQueue, user, queues, counters>>
  BY FirestoreInvIs DEF ServerRefuses, authVars, localVars, StreamPart
<1>2. Ready(remote) /\ ~ remote.refused
  BY <1>1, ReceivesWrite
<1>3. remote'.state = remote.state /\ remote'.handshake = remote.handshake /\ remote'.refused
  BY <1>1 DEF Remotes
<1>4. StepsToAnswer = 2
  BY <1>2 DEF StepsToAnswer, Ready
<1>5. StepsToAnswer' = 1
  BY <1>2, <1>3 DEF StepsToAnswer, Ready
<1>6. QED BY <1>1, <1>4, <1>5, StreamLowers

LEMMA SnapshotLowers ==
    ASSUME FirestoreInv, WatchSends \/ ApplyRemoteEvent
    PROVE  Lower(Rank', Rank)
<1>1. /\ UNCHANGED <<mainQueue, request, workerQueue, user, queues, remote, log, counters>>
      /\ cache \in Nat /\ snapshot \in Nat /\ Len(log) \in Nat
  BY DEF WatchSends, ApplyRemoteEvent, authVars, localVars, FirestoreInv, TypeOK
<1>2. StepsToAnswer' = StepsToAnswer /\ ToSend' = ToSend
  <2>1. StepsToToken' = StepsToToken
    BY <1>1 DEF StepsToToken, HasToken, IsToken
  <2>2. QED BY <2>1, <1>1 DEF StepsToAnswer, ToSend
<1>3. PICK n \in Nat : n = Len(log)
  BY <1>1
<1>4. ToRead = (IF cache < n /\ snapshot < n THEN 2 ELSE 0)
                 + (IF snapshot > 0 THEN 1 ELSE 0)
  BY <1>3 DEF ToRead
<1>5. ToRead' = (IF cache' < n /\ snapshot' < n THEN 2 ELSE 0)
                  + (IF snapshot' > 0 THEN 1 ELSE 0)
  BY <1>1, <1>3 DEF ToRead
<1>6. ToRead' < ToRead
  <2>1. CASE WatchSends
    <3>1. snapshot = 0 /\ cache < n /\ snapshot' = n /\ cache' = cache
      BY <1>3, <2>1 DEF WatchSends
    <3>2. QED BY <3>1, <1>1, <1>3, <1>4, <1>5
  <2>2. CASE ApplyRemoteEvent
    <3>1. /\ snapshot > 0 /\ snapshot' = 0
          /\ cache' = IF snapshot > cache THEN snapshot ELSE cache
      BY <2>2 DEF ApplyRemoteEvent, CacheAfterSnapshot
    <3>2. QED BY <3>1, <1>1, <1>3, <1>4, <1>5
  <2>3. QED BY <2>1, <2>2
<1>7. QED BY <1>1, <1>2, <1>6, StreamLowers

LEMMA EveryStepLowers ==
    FirestoreInv /\ FirestoreNext => Lower(Rank', Rank)
<1> SUFFICES ASSUME FirestoreInv, FirestoreNext PROVE Lower(Rank', Rank)
  OBVIOUS
<1>1. CASE Write
  BY <1>1, Spends DEF Write
<1>2. CASE \E u \in Users : AuthChanges(u)
  BY <1>2, Spends DEF AuthChanges
<1>3. CASE ConnectivityChanged \/ StreamFails \/ Relaunch
  BY <1>3, Spends DEF ConnectivityChanged, StreamFails, Relaunch
<1>4. CASE AuthNext
  BY <1>2, <1>4, AuthAnswersLowers, NoticeUserLowers, PassTokenLowers DEF AuthNext
<1>5. CASE ServerNext
  BY <1>5, ServerGreetsLowers, ServerTakesLowers, ServerRefusesLowers, SnapshotLowers
     DEF ServerNext
<1>6. CASE ClientNext
  BY <1>3, <1>6, WriteMutationsLowers, HandleCredentialChangeLowers, ResumeStartLowers,
     BackoffElapsedLowers, IdleTimeoutLowers, HandshakeCompleteLowers, RemovalLowers,
     SnapshotLowers
     DEF ClientNext
<1>7. QED BY <1>1, <1>4, <1>5, <1>6 DEF FirestoreNext

(* Nothing is tried for ever: every step of the client, of FIRAuth and of  *)
(* the server lowers the rank, whatever fails in between.                  *)
THEOREM ClientComesToRest == FirestoreSpec => ComesToRest
<1>1. FirestoreInv /\ [FirestoreNext]_writeVars => [Lower(Rank', Rank)]_writeVars
  BY EveryStepLowers
<1>2. QED BY <1>1, FirestoreInvHolds, PTL DEF FirestoreSpec, ComesToRest

(* The rank is made of numbers throughout.                                 *)
THEOREM RankCounts == FirestoreSpec => [](Rank \in [1..7 -> Nat])
<1>1. ASSUME FirestoreInv PROVE Rank \in [1..7 -> Nat]
  <2>1. Rank = <<Budget, TasksLeft, WritesLeft, LostTokens, StepsToAnswer, ToSend, ToRead>>
    BY DEF Rank
  <2>2. QED BY <1>1, <2>1, RankParts
<1>2. FirestoreInv => Rank \in [1..7 -> Nat]
  BY <1>1
<1>3. QED BY <1>2, FirestoreInvHolds, PTL

(* Numbers in order of weight do not fall for ever, whatever is counted:   *)
(* with ClientComesToRest and RankCounts, an execution of the client has   *)
(* finitely many steps.                                                    *)
THEOREM RanksEnd ==
    ASSUME NEW n \in Nat, NEW r \in [Nat -> [1..n -> Nat]],
           \A k \in Nat : Lower(r[k + 1], r[k])
    PROVE  FALSE
<1> DEFINE R == OpToRel(<, Nat)
           S == [1..n -> Nat]
<1>1. IsWellFoundedOn(LexProductOrdering(R, Nat, n), S)
  BY NatLessThanWellFounded, WFLexProductOrdering
<1>2. ASSUME NEW k \in Nat
      PROVE  <<r[k + 1], r[k]>> \in LexProductOrdering(R, Nat, n)
  <2>1. r[k] \in S /\ r[k + 1] \in S
    OBVIOUS
  <2>2. Len(r[k]) = n
    BY <2>1
  <2>3. PICK j \in 1..n : r[k + 1][j] < r[k][j] /\ \A i \in 1..(j - 1) : r[k + 1][i] = r[k][i]
    BY <2>2 DEF Lower
  <2>4. <<r[k + 1][j], r[k][j]>> \in R
    BY <2>1, <2>3 DEF OpToRel
  <2>5. QED BY <2>1, <2>3, <2>4 DEF LexProductOrdering
<1> HIDE DEF R
<1>3. QED BY <1>1, <1>2 DEF IsWellFoundedOn

-----------------------------------------------------------------------------
(* What the app is told is true: the answers that wait to be read name the *)
(* writes at the front of the queue.                                       *)

AnswersAreTrue ==
    Ready(remote) => \A i \in 1..Len(remote.in) :
        /\ remote.in[i] \in 1..Len(log)
        /\ log[remote.in[i]].write = queues[user][i].write

TakenWrites == {log[i].write : i \in 1..Len(log)}

ReportsAgree ==
    /\ \A r \in reported : r.ok => r.write \in TakenWrites
    /\ \A r, s \in reported : r.write = s.write => r = s

LEMMA ToldIs ==
    ASSUME FirestoreInv
    PROVE  ToldTheTruth <=> ReportsAgree
<1>1. /\ log \in Seq([write : Writes, author : Users, token : Users])
      /\ \A b \in [write : Writes, author : Users, token : Users] : b.write \in Writes
  BY FirestoreInvIs, PendingIs DEF RestPart
<1>2. Len(Numbers(log)) = Len(log) /\ \A i \in 1..Len(log) : Numbers(log)[i] = log[i].write
  BY <1>1, NumbersIs
<1>3. \A n : (\E i \in 1..Len(Numbers(log)) : Numbers(log)[i] = n) <=> n \in TakenWrites
  BY <1>2 DEF TakenWrites
<1>4. QED BY <1>3 DEF ToldTheTruth, Log!ReportsAreTrue, ReportsAgree

(* The answers that wait are for writes that are still queued.             *)
LEMMA AnswersWaitForRows ==
    ASSUME StreamPart, Ready(remote)
    PROVE  /\ queues[user] \in Seq(Batches) /\ remote.in \in Seq(Nat)
           /\ Len(remote.in) \in 0..Len(queues[user])
<1>1. /\ queues[user] \in Seq(Batches) /\ Room(queues[user]) \in 0..Len(queues[user])
      /\ remote.pipeline = SubSeq(queues[user], 1, Room(queues[user]))
  BY FullPipeline
<1>2. Len(remote.pipeline) = Room(queues[user])
  BY <1>1, Prefix
<1>3. Len(remote.in) <= Len(remote.pipeline)
  BY DEF StreamPart, Carries
<1>4. remote.in \in Seq(Nat) /\ Len(remote.in) \in Nat
  BY StreamFields DEF StreamPart
<1>5. QED BY <1>1, <1>2, <1>3, <1>4

(* No answer comes, and none is for another write than before.             *)
LEMMA AnswersKept ==
    ASSUME AnswersAreTrue, ReportsAgree, UNCHANGED <<log, reported>>,
           Ready(remote') =>
             \/ remote'.in = <<>>
             \/ /\ Ready(remote) /\ remote'.in = remote.in
                /\ \A i \in 1..Len(remote.in) : queues'[user'][i] = queues[user][i]
    PROVE  AnswersAreTrue' /\ ReportsAgree'
<1>1. Len(<<>>) = 0 /\ 1..0 = {}
  OBVIOUS
<1>2. AnswersAreTrue'
  BY <1>1 DEF AnswersAreTrue
<1>3. ReportsAgree'
  BY DEF ReportsAgree, TakenWrites
<1>4. QED BY <1>2, <1>3

LEMMA ServerTakesAnswers ==
    ASSUME FirestoreInv, AnswersAreTrue, ReportsAgree, ServerTakes
    PROVE  AnswersAreTrue' /\ ReportsAgree'
<1> DEFINE k == Len(remote.in) + 1
           e == [write |-> queues[user][k].write, author |-> user, token |-> user]
           S == [write : Writes, author : Users, token : Users]
<1>1. TypeOK /\ StreamPart /\ RestPart /\ Receives("write")
      /\ UNCHANGED <<queues, user, reported>>
      /\ remote' = [remote EXCEPT !.out = Tail(@), !.in = Append(@, Len(log'))]
  BY FirestoreInvIs DEF ServerTakes, localVars
<1>2. log' = Append(log, e) /\ log \in Seq(S) /\ log' \in Seq(S)
  BY <1>1, ServerTakesRows DEF RestPart
<1>3. /\ Len(log') = Len(log) + 1 /\ Len(log) \in Nat
      /\ \A i \in 1..Len(log) : log'[i] = log[i]
      /\ log'[Len(log) + 1].write = queues[user][k].write
  <2>1. Len(log') = Len(log) + 1 /\ Len(log) \in Nat
        /\ (\A i \in 1..Len(log) : log'[i] = log[i]) /\ log'[Len(log) + 1] = e
    BY <1>2, AppendProperties
  <2>2. QED BY <2>1
<1>4. Ready(remote) /\ remote.in \in Seq(Nat) /\ Len(remote.in) \in Nat
  BY <1>1, ReceivesWrite, AnswersWaitForRows
<1>5. remote'.in = Append(remote.in, Len(log) + 1)
  BY <1>1, <1>3 DEF StreamPart, Remotes
<1>6. /\ Len(remote'.in) = k /\ remote'.in[k] = Len(log) + 1
      /\ \A i \in 1..Len(remote.in) : remote'.in[i] = remote.in[i]
  BY <1>3, <1>4, <1>5, AppendProperties
<1> HIDE DEF e
<1>7. AnswersAreTrue'
  <2>1. SUFFICES ASSUME NEW i \in 1..Len(remote'.in)
                 PROVE  /\ remote'.in[i] \in 1..Len(log')
                        /\ log'[remote'.in[i]].write = queues[user][i].write
    BY <1>1 DEF AnswersAreTrue
  <2>2. CASE i = k
    BY <2>2, <1>3, <1>6
  <2>3. CASE i # k
    <3>1. i \in 1..Len(remote.in) /\ remote'.in[i] = remote.in[i]
      BY <2>3, <1>4, <1>6
    <3>2. remote.in[i] \in 1..Len(log) /\ log[remote.in[i]].write = queues[user][i].write
      BY <3>1, <1>4 DEF AnswersAreTrue
    <3>3. remote.in[i] \in 1..Len(log') /\ log'[remote.in[i]] = log[remote.in[i]]
      BY <3>2, <1>3
    <3>4. QED BY <3>1, <3>2, <3>3
  <2>4. QED BY <2>2, <2>3
<1>8. TakenWrites \subseteq TakenWrites'
  <2>1. ASSUME NEW i \in 1..Len(log) PROVE i \in 1..Len(log') /\ log'[i] = log[i]
    BY <1>3
  <2>2. QED BY <2>1 DEF TakenWrites
<1>9. ReportsAgree'
  BY <1>1, <1>8 DEF ReportsAgree
<1>10. QED BY <1>7, <1>9

(* The oldest write goes, and the app is told.                             *)
LEMMA RemovalTellsTruth ==
    ASSUME FirestoreInv, NumbersAgree, ReportsAgree, log' = log,
           queues' = [queues EXCEPT ![user] = Tail(@)], queues[user] # <<>>,
           UNCHANGED <<workerQueue, made>>,
           NEW ok \in BOOLEAN, NotifyUser(Head(queues[user]), ok),
           ok => Head(queues[user]).write \in TakenWrites
    PROVE  ReportsAgree'
<1> DEFINE n == Head(queues[user]).write
           r == [write |-> n, ok |-> ok]
<1>1. StreamPart /\ RestPart
  BY FirestoreInvIs
<1>2. n \notin Told
  BY RemovalNumbers
<1>3. reported' \in {reported, reported \cup {r}}
  BY <1>1, RemovalReport
<1>4. TakenWrites' = TakenWrites /\ r.write = n /\ r.ok = ok
  BY DEF TakenWrites
<1>5. \A s \in reported : s.write # n
  BY <1>2 DEF Told
<1>6. ok => n \in TakenWrites
  OBVIOUS
<1> HIDE DEF n, r
<1>7. QED BY <1>3, <1>4, <1>5, <1>6 DEF ReportsAgree

LEMMA AnswersStep ==
    ASSUME FirestoreInv, NumbersAgree, AnswersAreTrue, ReportsAgree, FirestoreNext
    PROVE  AnswersAreTrue' /\ ReportsAgree'
<1> USE DEF authVars, localVars, serverVars, counters
<1>1. /\ TypeOK /\ StreamPart /\ QueuePart /\ RestPart /\ StartsWithToken
      /\ user \in Users
  BY FirestoreInvIs DEF QueuePart
<1>2. CASE Write \/ AuthNext \/ WatchSends \/ ApplyRemoteEvent
  BY <1>2, AnswersKept
     DEF Write, AuthNext, AuthChanges, AuthAnswers, NoticeUser, PassToken, WatchSends,
         ApplyRemoteEvent
<1>3. CASE WriteMutations
  <2>1. PICK b \in Batches : queues' = [queues EXCEPT ![user] = Append(@, b)]
    BY <1>1, <1>3, WriteMutationsStream
  <2>2. /\ remote'.in = remote.in /\ remote'.handshake = remote.handshake
        /\ remote'.state = StateAfterFill(remote, queues'[user]) /\ queues'[user] # <<>>
    BY <1>1, <1>3, WriteMutationsStream
  <2>3. UNCHANGED <<log, reported, user>>
    BY <1>3 DEF WriteMutations
  <2>4. Ready(remote') => Ready(remote)
    BY <2>2 DEF Ready, StateAfterFill, IsStarted
  <2>5. ASSUME Ready(remote), NEW i \in 1..Len(remote.in)
        PROVE  queues'[user][i] = queues[user][i]
    <3>1. queues[user] \in Seq(Batches) /\ i \in 1..Len(queues[user])
      BY <2>5, <1>1, AnswersWaitForRows
    <3>2. queues'[user] = Append(queues[user], b)
      BY <2>1, <1>1 DEF StreamPart
    <3>3. QED BY <3>1, <3>2, AppendProperties
  <2>6. QED BY <2>2, <2>3, <2>4, <2>5, AnswersKept
<1>4. CASE HandleCredentialChange \/ ConnectivityChanged \/ Relaunch
  <2>1. user' \in Users /\ UNCHANGED queues /\ nextId' \in {nextId, LoadNextBatchId(queues)}
        /\ remote' = Fill(Idle("initial", <<>>), queues[user'])
    <3>1. Head(workerQueue).user \in Users \/ ConnectivityChanged \/ Relaunch
      BY <1>1, <1>4, HeadTask, TaskKinds DEF TypeOK, Tasks, HandleCredentialChange, Task
    <3>2. QED
      BY <1>1, <1>4, <3>1 DEF HandleCredentialChange, ConnectivityChanged, Relaunch,
         RestartNetwork, Restarted, TypeOK
  <2>2. remote'.state # "open"
    BY <2>1, <1>1, RestartStream
  <2>3. UNCHANGED <<log, reported>>
    BY <1>4 DEF HandleCredentialChange, ConnectivityChanged, Relaunch
  <2>4. QED BY <2>2, <2>3, AnswersKept DEF Ready
<1>5. CASE ResumeStart
  <2>1. ~ remote'.handshake
    BY <1>1, <1>5, ResumeStartStream
  <2>2. QED BY <2>1, <1>5, AnswersKept DEF Ready, ResumeStart
<1>6. CASE BackoffElapsed \/ IdleTimeout \/ StreamFails
  <2>1. remote'.state # "open"
    BY <1>1, <1>6, BackoffElapsedStream, EndedStream DEF IdleTimeout, StreamFails
  <2>2. QED BY <2>1, <1>6, AnswersKept DEF Ready, BackoffElapsed, IdleTimeout, StreamFails
<1>7. CASE HandshakeComplete
  <2>1. remote'.in = <<>>
    BY <1>1, <1>7, HandshakeStream
  <2>2. QED BY <2>1, <1>7, AnswersKept DEF HandshakeComplete
<1>8. CASE ServerGreets
  <2>1. ~ Ready(remote')
    BY <1>1, <1>8, ServerGreetsStream DEF Ready
  <2>2. QED BY <2>1, <1>8, AnswersKept DEF ServerGreets
<1>9. CASE ServerRefuses
  <2>1. remote'.state = remote.state /\ remote'.handshake = remote.handshake
        /\ remote'.in = remote.in
    BY <1>1, <1>9, ServerRefusesStream
  <2>2. QED BY <2>1, <1>9, AnswersKept DEF Ready, ServerRefuses
<1>10. CASE ServerTakes
  BY <1>10, ServerTakesAnswers
<1>11. CASE MutationResult
  <2>1. /\ remote'.in = Tail(remote.in) /\ remote.in # <<>> /\ Ready(remote)
        /\ queues' = [queues EXCEPT ![user] = Tail(@)] /\ queues[user] # <<>>
        /\ queues[user] \in Seq(Batches) /\ Head(remote.pipeline) = Head(queues[user])
    BY <1>1, <1>11, MutationResultStream
  <2>2. /\ NotifyUser(Head(queues[user]), TRUE)
        /\ UNCHANGED <<workerQueue, made, log, user>>
    BY <1>11, <2>1 DEF MutationResult
  <2>3. remote.in \in Seq(Nat)
    BY <2>1, <1>1, AnswersWaitForRows
  <2>4. /\ Head(queues[user]) = queues[user][1] /\ Head(remote.in) = remote.in[1]
        /\ 1 \in 1..Len(remote.in) /\ queues'[user] = Tail(queues[user])
        /\ Len(Tail(remote.in)) = Len(remote.in) - 1 /\ Len(remote.in) \in Nat
        /\ \A i \in 1..(Len(remote.in) - 1) : Tail(remote.in)[i] = remote.in[i + 1]
        /\ \A i \in 1..(Len(queues[user]) - 1) : Tail(queues[user])[i] = queues[user][i + 1]
    BY <2>1, <2>3, <1>1, HeadTask DEF StreamPart
  <2>5. Head(queues[user]).write \in TakenWrites
    BY <2>1, <2>4 DEF AnswersAreTrue, TakenWrites
  <2>6. ReportsAgree'
    BY <2>1, <2>2, <2>5, RemovalTellsTruth
  <2>7. AnswersAreTrue'
    <3> DEFINE P(i) == /\ Tail(remote.in)[i] \in 1..Len(log)
                       /\ log[Tail(remote.in)[i]].write = Tail(queues[user])[i].write
    <3>1. ASSUME NEW i \in 1..(Len(remote.in) - 1)
          PROVE  P(i)
      <4>1. Len(remote.in) \in 0..Len(queues[user]) /\ Len(queues[user]) \in Nat
        BY <2>1, <1>1, AnswersWaitForRows
      <4>2. i + 1 \in 1..Len(remote.in) /\ i \in 1..(Len(queues[user]) - 1)
        BY <4>1, <2>4
      <4>3. /\ remote.in[i + 1] \in 1..Len(log)
            /\ log[remote.in[i + 1]].write = queues[user][i + 1].write
        BY <4>2, <2>1 DEF AnswersAreTrue
      <4>4. QED BY <4>2, <4>3, <2>4
    <3>2. \A i \in 1..Len(Tail(remote.in)) : P(i)
      BY <3>1, <2>4
    <3>3. /\ user' = user /\ log' = log /\ remote'.in = Tail(remote.in)
          /\ queues'[user] = Tail(queues[user])
      BY <2>1, <2>2, <2>4
    <3>4. \A i \in 1..Len(remote'.in) :
            /\ remote'.in[i] \in 1..Len(log')
            /\ log'[remote'.in[i]].write = queues'[user'][i].write
      <4>1. ASSUME NEW i \in 1..Len(remote'.in)
            PROVE  /\ remote'.in[i] \in 1..Len(log')
                   /\ log'[remote'.in[i]].write = queues'[user'][i].write
        BY <3>2, <3>3
      <4>2. QED BY <4>1
    <3>5. QED BY <3>4 DEF AnswersAreTrue
  <2>8. QED BY <2>6, <2>7
<1>12. CASE WriteError
  <2>1. /\ queues' = [queues EXCEPT ![user] = Tail(@)] /\ queues[user] # <<>>
        /\ Head(remote.pipeline) = Head(queues[user]) /\ ~ remote'.handshake
    BY <1>1, <1>12, WriteErrorStream
  <2>2. NotifyUser(Head(queues[user]), FALSE) /\ UNCHANGED <<workerQueue, made, log>>
    BY <1>12, <2>1 DEF WriteError
  <2>3. ReportsAgree'
    BY <2>1, <2>2, RemovalTellsTruth
  <2>4. AnswersAreTrue'
    BY <2>1 DEF AnswersAreTrue, Ready
  <2>5. QED BY <2>3, <2>4
<1>13. QED
  BY <1>2, <1>3, <1>4, <1>5, <1>6, <1>7, <1>8, <1>9, <1>10, <1>11, <1>12
     DEF FirestoreNext, ClientNext, ServerNext

(* A write said to be saved was taken by the server, and none is said to be*)
(* both saved and refused, over lost streams, restarts and changes of user.*)
THEOREM AppIsToldTheTruth == FirestoreSpec => []ToldTheTruth
<1>1. FirestoreInit => AnswersAreTrue /\ ReportsAgree
  BY DEF FirestoreInit, AnswersAreTrue, ReportsAgree, Ready, Idle
<1>2. FirestoreInv /\ NumbersAgree /\ AnswersAreTrue /\ ReportsAgree
      /\ [FirestoreNext]_writeVars
      => (AnswersAreTrue /\ ReportsAgree)'
  <2>1. ASSUME AnswersAreTrue, ReportsAgree, UNCHANGED writeVars
        PROVE  (AnswersAreTrue /\ ReportsAgree)'
    BY <2>1, AnswersKept DEF writeVars, localVars, serverVars
  <2>2. QED BY <2>1, AnswersStep
<1>3. FirestoreInv /\ AnswersAreTrue /\ ReportsAgree => ToldTheTruth
  BY ToldIs
<1>4. QED BY <1>1, <1>2, <1>3, FirestoreInvHolds, NumbersHold, PTL DEF FirestoreSpec
==============================================================================
