--------------------------- MODULE FirestoreWrites ---------------------------
(***************************************************************************)
(* How a write of the app reaches Firestore: the part of the vendored      *)
(* client (Pods/FirebaseFirestore/Firestore/core/src) that queues writes   *)
(* on disk for each user, sends them over the write stream, and matches    *)
(* the answers: firestore_client.cc, sync_engine.cc, local_store.cc,       *)
(* leveldb_mutation_queue.cc, remote_store.cc, stream.cc, write_stream.cc, *)
(* and firebase_credentials_provider_apple.mm with what FIRAuth posts.     *)
(*                                                                         *)
(* Every action is one task: of the worker queue, which serialises the     *)
(* client, of the main queue, of FIRAuth or of the server.  A write        *)
(* replaces the one document of the model; its contents are its number.    *)
(***************************************************************************)
EXTENDS Naturals, Sequences, SequencesExt, Ranks

CONSTANTS
    Users,          \* the users of the phone, the signed-out one among them
    None,           \* nobody, nothing
    MaxPending,     \* kMaxPendingWrites
    MaxWrites,      \* bound: the writes the app makes
    MaxSwitches,    \* bound: the changes of user or of token
    MaxFaults,      \* bound: lost streams, lost networks, restarts
    MaxTroubles     \* bound: both of these together

Writes == 1..MaxWrites
Batches == [id : Nat \ {0}, write : Writes, author : Users]
Callbacks == [user : Users, id : Nat \ {0}, write : Writes]
States == {"initial", "starting", "open", "error", "backoff"}

Requests == [asked : Users, fresh : BOOLEAN]
WriteTasks == [kind : {"write"}, write : Writes, author : Users]
UserTasks == [kind : {"user"}, user : Users]
TokenTasks == [kind : {"token"}, token : Users \cup {None}, fresh : BOOLEAN]

ASSUME NoneAssumption == None \notin Users \cup Requests
ASSUME MaxPendingAssumption == MaxPending \in Nat \ {0}
ASSUME BoundAssumption ==
    /\ MaxWrites \in Nat /\ MaxSwitches \in Nat /\ MaxFaults \in Nat
    /\ MaxTroubles \in Nat

VARIABLES
    authUser,       \* FIRAuth's _currentUser, kept in the keychain
    notified,       \* the provider's current_user
    mainQueue,      \* what FIRAuth has dispatched to the main queue
    request,        \* the token request FIRAuth has not answered, or None
    workerQueue,    \* the tasks of the worker queue, first in first out
    user,           \* SyncEngine's current_user_
    queues,         \* the mutation queue of each user, on disk
    nextId,         \* next_batch_id_
    callbacks,      \* mutation_callbacks_
    remote,         \* RemoteStore's pipeline and its write stream
    log,            \* the server: the writes it has taken, in order
    cache,          \* the version of the document in the cache, on disk
    snapshot,       \* the version a watch snapshot brings, 0: none on its way
    reported,       \* history: what the app has been told
    acked,          \* history: the newest version an answer has acknowledged
    made, switches, faults      \* counters for the bounds

authVars == <<authUser, notified, mainQueue, request>>
localVars == <<queues, nextId, callbacks>>
serverVars == <<log, snapshot>>
counters == <<made, switches, faults>>
writeVars == <<authVars, workerQueue, user, localVars, remote, serverVars, cache,
               reported, acked, counters>>

-----------------------------------------------------------------------------
(* RemoteStore and its stream.                                             *)

IsStarted(r) == r.state \in {"starting", "open", "backoff"}
Ready(r) == r.state = "open" /\ r.handshake

Hello == [kind |-> "hello", batch |-> None]
WriteOf(b) == [kind |-> "write", batch |-> b]
WritesOf(bs) == [i \in 1..Len(bs) |-> WriteOf(bs[i])]

(* The stream without its gRPC call, its timer and its handshake.          *)
Idle(state, pipeline) ==
    [state |-> state, pipeline |-> pipeline, handshake |-> FALSE, idle |-> FALSE,
     token |-> None, out |-> <<>>, in |-> <<>>, refused |-> FALSE]

(* Mutant: a stream that failed is not started again.                      *)
StartFromRest(r) ==
    IF r.state # "initial" \/ r.pipeline = <<>> THEN r
    ELSE [r EXCEPT !.state = "starting"]

(* ShouldStartWriteStream and Start: after an error the stream backs off.  *)
StartIfNeeded(r) ==
    IF IsStarted(r) \/ r.pipeline = <<>> THEN r
    ELSE [r EXCEPT !.state = IF @ = "error" THEN "backoff" ELSE "starting"]

(* Mutant: the search begins at the batch that is already there.           *)
AfterOrAt(q, id) ==
    LET row == SelectInSeq(q, LAMBDA b : b.id >= id)
    IN  IF row = 0 THEN <<>> ELSE SubSeq(q, row, Len(q))

(* GetNextMutationBatch, repeated: the rows from the first one beyond id,  *)
(* which the iterator of LevelDB seeks.                                    *)
After(q, id) ==
    LET row == SelectInSeq(q, LAMBDA b : b.id > id)
    IN  IF row = 0 THEN <<>> ELSE SubSeq(q, row, Len(q))

(* FillWritePipeline with AddToWritePipeline, MarkIdle and CancelIdleCheck.*)
Fill(r, q) ==
    LET last == IF r.pipeline = <<>> THEN 0 ELSE Last(r.pipeline).id
        next == After(q, last)
        room == MaxPending - Len(r.pipeline)
        added == SubSeq(next, 1, IF room < Len(next) THEN room ELSE Len(next))
        sent == IF Ready(r) THEN WritesOf(added) ELSE <<>>
        filled == r.pipeline \o added
    IN  StartIfNeeded([r EXCEPT
            !.pipeline = filled,
            !.out = @ \o sent,
            !.idle = IF filled = <<>> THEN r.state = "open"
                     ELSE @ /\ sent = <<>>])

(* Mutant: the pipeline is only filled for a new write.                    *)
RestartedEmpty(r, q) == Idle("initial", <<>>)

(* RestartNetwork: Stop, clear the pipeline, InhibitBackoff, EnableNetwork.*)
Restarted(r, q) == Fill(Idle("initial", <<>>), q)

(* Close cancels a token request by close_count_; Start makes one.         *)
RequestCredentials(before) ==
    request' = IF remote'.state # "starting" THEN None
               ELSE IF before = "starting" THEN request
               ELSE [asked |-> authUser, fresh |-> TRUE]

(* The token that was asked for last: all before it are dropped already.   *)
NoTokens(tasks) == RemoveFirstMatch(tasks, LAMBDA t : t.kind = "token")

-----------------------------------------------------------------------------
(* SyncEngine and LocalStore.                                              *)

(* Mutant: the ids start anew for every user.                              *)
CountFromOne(qs) == 1

(* LoadNextBatchIdFromDb: over the rows of all users.                      *)
LoadNextBatchId(qs) ==
    1 + CHOOSE m \in {0} \cup {Last(qs[u]).id : u \in {v \in Users : qs[v] # <<>>}} :
          \A u \in Users : qs[u] # <<>> => Last(qs[u]).id <= m

(* NotifyUser: the callback of the batch id, if this process has one.      *)
NotifyUser(batch, ok) ==
    LET due == {c \in callbacks : c.user = user /\ c.id = batch.id}
    IN  /\ callbacks' = callbacks \ due
        /\ reported' = reported \cup {[write |-> c.write, ok |-> ok] : c \in due}

RemoveMutationBatch(batch) ==
    queues' = [queues EXCEPT ![user] = RemoveFirst(@, batch)]

-----------------------------------------------------------------------------
FirestoreInit ==
    /\ authUser \in Users /\ notified = authUser /\ user = authUser
    /\ mainQueue = <<>> /\ workerQueue = <<>> /\ request = None
    /\ queues = [u \in Users |-> <<>>] /\ nextId = 1 /\ callbacks = {}
    /\ remote = Idle("initial", <<>>)
    /\ log = <<>> /\ cache = 0 /\ snapshot = 0
    /\ reported = {} /\ acked = 0
    /\ made = 0 /\ switches = 0 /\ faults = 0

FewTroubles == switches + faults < MaxTroubles
Fault == FewTroubles /\ faults < MaxFaults /\ faults' = faults + 1

(* setData and updateData of the app, on the main queue.                   *)
Write ==
    /\ made < MaxWrites
    /\ made' = made + 1
    /\ workerQueue' = Append(workerQueue,
            [kind |-> "write", write |-> made', author |-> notified])
    /\ UNCHANGED <<authVars, user, localVars, remote, serverVars, cache, reported,
                   acked, switches, faults>>

(* FIRAuth changes its user or that user's token, and dispatches the       *)
(* notification to the main queue.                                         *)
AuthChanges(u) ==
    /\ FewTroubles /\ switches < MaxSwitches
    /\ switches' = switches + 1
    /\ authUser' = u
    /\ mainQueue' = Append(mainQueue, [kind |-> "user", user |-> u])
    /\ UNCHANGED <<notified, request, workerQueue, user, localVars, remote,
                   serverVars, cache, reported, acked, made, faults>>

(* getTokenForcingRefresh: a token of the user at the time of the request  *)
(* or at that of the answer, or no token at all.                           *)
AuthAnswers(t) ==
    /\ request # None
    /\ \/ t \in {request.asked, authUser} /\ UNCHANGED faults
       \/ t = None /\ Fault
    /\ mainQueue' = Append(mainQueue,
            [kind |-> "token", token |-> t, fresh |-> request.fresh])
    /\ request' = None
    /\ UNCHANGED <<authUser, notified, workerQueue, user, localVars, remote,
                   serverVars, cache, reported, acked, made, switches>>

Stale(t) == IF t.kind = "token" THEN [t EXCEPT !.fresh = FALSE] ELSE t

(* The observer of FIRAuthStateDidChangeInternalNotification: the token    *)
(* counter outdates every token asked for until now.                       *)
NoticeUser ==
    /\ mainQueue # <<>> /\ Head(mainQueue).kind = "user"
    /\ notified' = Head(mainQueue).user
    /\ mainQueue' = [i \in 1..(Len(mainQueue) - 1) |-> Stale(mainQueue[i + 1])]
    /\ request' = IF request = None THEN None ELSE [request EXCEPT !.fresh = FALSE]
    /\ workerQueue' = Append(workerQueue, Head(mainQueue))
    /\ UNCHANGED <<authUser, user, localVars, remote, serverVars, cache, reported,
                   acked, counters>>

(* Mutant: the answer keeps the token counter of the first request.        *)
PassTokenAsksStale ==
    /\ mainQueue # <<>> /\ Head(mainQueue).kind = "token"
    /\ mainQueue' = Tail(mainQueue)
    /\ IF Head(mainQueue).fresh
       THEN /\ workerQueue' = Append(workerQueue, Head(mainQueue))
            /\ UNCHANGED request
       ELSE /\ request' = [asked |-> authUser, fresh |-> FALSE]
            /\ UNCHANGED workerQueue
    /\ UNCHANGED <<authUser, notified, user, localVars, remote, serverVars, cache,
                   reported, acked, counters>>

(* The callback of GetToken: asks again if the user has changed.           *)
PassToken ==
    /\ mainQueue # <<>> /\ Head(mainQueue).kind = "token"
    /\ mainQueue' = Tail(mainQueue)
    /\ IF Head(mainQueue).fresh
       THEN /\ workerQueue' = Append(workerQueue, Head(mainQueue))
            /\ UNCHANGED request
       ELSE /\ request' = [asked |-> authUser, fresh |-> TRUE]
            /\ UNCHANGED workerQueue
    /\ UNCHANGED <<authUser, notified, user, localVars, remote, serverVars, cache,
                   reported, acked, counters>>

-----------------------------------------------------------------------------
(* The worker queue.                                                       *)

Task(kind) == workerQueue # <<>> /\ Head(workerQueue).kind = kind

(* SyncEngine::WriteMutations: WriteLocally, the callback, FillWritePipeline.*)
WriteMutations ==
    LET task == Head(workerQueue)
        batch == [id |-> nextId, write |-> task.write, author |-> task.author]
    IN  /\ Task("write")
        /\ queues' = [queues EXCEPT ![user] = Append(@, batch)]
        /\ nextId' = nextId + 1
        /\ callbacks' = callbacks
                         \cup {[user |-> user, id |-> nextId, write |-> task.write]}
        /\ remote' = Fill(remote, queues'[user])
        /\ RequestCredentials(remote.state)
        /\ workerQueue' = Tail(workerQueue)
        /\ UNCHANGED <<authUser, notified, mainQueue, user, serverVars, cache,
                       reported, acked, counters>>

(* The streams are closed and opened again; tokens asked for are dropped,  *)
(* and so is a snapshot on its way.                                        *)
RestartNetwork(tasks) ==
    /\ remote' = Restarted(remote, queues[user'])
    /\ mainQueue' = NoTokens(mainQueue)
    /\ workerQueue' = NoTokens(tasks)
    /\ RequestCredentials("initial")
    /\ snapshot' = 0

(* Mutant: the streams are left alone.                                     *)
HandleCredentialChangeQuietly ==
    /\ Task("user")
    /\ user' = Head(workerQueue).user
    /\ nextId' = IF user' = user THEN nextId ELSE LoadNextBatchId(queues)
    /\ workerQueue' = Tail(workerQueue)
    /\ UNCHANGED <<authVars, queues, callbacks, remote, serverVars, cache, reported,
                   acked, counters>>

(* SyncEngine::HandleCredentialChange, for a new user or a new token.       *)
HandleCredentialChange ==
    /\ Task("user")
    /\ user' = Head(workerQueue).user
    /\ nextId' = IF user' = user THEN nextId ELSE LoadNextBatchId(queues)
    /\ RestartNetwork(Tail(workerQueue))
    /\ UNCHANGED <<authUser, notified, queues, callbacks, log, cache, reported,
                   acked, counters>>

(* The connectivity callback of RemoteStore::Start.                        *)
ConnectivityChanged ==
    /\ Fault
    /\ user' = user
    /\ RestartNetwork(workerQueue)
    /\ UNCHANGED <<authUser, notified, localVars, log, cache, reported, acked, made,
                   switches>>

(* ResumeStartWithCredentials and OnStreamStart, which sends the handshake.*)
ResumeStart ==
    LET token == Head(workerQueue).token
        closed == Idle("error", remote.pipeline)
    IN  /\ Task("token")
        /\ remote' = IF token = None THEN StartIfNeeded(closed)
                     ELSE [remote EXCEPT !.state = "open", !.token = token,
                                         !.out = <<Hello>>]
        /\ workerQueue' = Tail(workerQueue)
        /\ UNCHANGED <<authVars, user, localVars, serverVars, cache, reported, acked,
                       counters>>

(* BackoffAndTryRestarting, when the delay is over.                        *)
BackoffElapsed ==
    /\ remote.state = "backoff"
    /\ remote' = [remote EXCEPT !.state = "starting"]
    /\ RequestCredentials("backoff")
    /\ UNCHANGED <<authUser, notified, mainQueue, workerQueue, user, localVars,
                   serverVars, cache, reported, acked, counters>>

(* The timer of MarkIdle: a graceful Stop.                                 *)
IdleTimeout ==
    /\ remote.idle
    /\ remote' = StartIfNeeded(Idle("initial", remote.pipeline))
    /\ RequestCredentials("open")
    /\ UNCHANGED <<authUser, notified, mainQueue, workerQueue, user, localVars,
                   serverVars, cache, reported, acked, counters>>

(* OnWriteStreamHandshakeComplete: the whole pipeline is sent.             *)
HandshakeComplete ==
    /\ remote.in # <<>> /\ ~ remote.handshake
    /\ remote' = [remote EXCEPT
            !.handshake = TRUE, !.in = Tail(@),
            !.out = @ \o WritesOf(remote.pipeline),
            !.idle = @ /\ remote.pipeline = <<>>]
    /\ UNCHANGED <<authVars, workerQueue, user, localVars, serverVars, cache,
                   reported, acked, counters>>

(* ApplyBatchResult: the batch goes into the cache unless that is newer.   *)
CacheAfterAck(version) == IF cache < version THEN version ELSE cache

(* OnWriteStreamMutationResult, HandleSuccessfulWrite, AcknowledgeBatch.   *)
MutationResult ==
    LET batch == Head(remote.pipeline)
        version == Head(remote.in)
    IN  /\ remote.in # <<>> /\ remote.handshake
        /\ NotifyUser(batch, TRUE)
        /\ RemoveMutationBatch(batch)
        /\ cache' = CacheAfterAck(version)
        /\ acked' = IF acked < version THEN version ELSE acked
        /\ remote' = Fill([remote EXCEPT !.pipeline = Tail(@), !.in = Tail(@)],
                          queues'[user])
        /\ UNCHANGED <<authVars, workerQueue, user, nextId, serverVars, counters>>

(* OnStreamFinish with an error that may pass: OnWriteStreamClose keeps the*)
(* pipeline and backs off.                                                 *)
StreamFails ==
    /\ remote.state = "open"
    /\ Fault
    /\ remote' = StartIfNeeded(Idle("error", remote.pipeline))
    /\ UNCHANGED <<authVars, workerQueue, user, localVars, serverVars, cache,
                   reported, acked, made, switches>>

(* OnStreamFinish with a permanent error: HandleWriteError rejects the     *)
(* oldest write.  Answers that are not read yet are lost.                  *)
WriteError ==
    LET batch == Head(remote.pipeline)
    IN  /\ remote.refused /\ remote.handshake /\ remote.pipeline # <<>>
        /\ NotifyUser(batch, FALSE)
        /\ RemoveMutationBatch(batch)
        /\ remote' = Fill(Idle("initial", Tail(remote.pipeline)), queues'[user])
        /\ RequestCredentials("open")
        /\ UNCHANGED <<authUser, notified, mainQueue, workerQueue, user, nextId,
                       serverVars, cache, acked, counters>>

(* The process is killed and started again: Initialize.                    *)
Relaunch ==
    /\ Fault
    /\ notified' = authUser /\ user' = authUser
    /\ mainQueue' = <<>> /\ workerQueue' = <<>>
    /\ nextId' = LoadNextBatchId(queues) /\ callbacks' = {}
    /\ remote' = Fill(Idle("initial", <<>>), queues[user'])
    /\ RequestCredentials("initial")
    /\ snapshot' = 0
    /\ UNCHANGED <<authUser, queues, log, cache, reported, acked, made, switches>>

-----------------------------------------------------------------------------
(* The server: external.                                                   *)

Receives(kind) ==
    remote.out # <<>> /\ ~ remote.refused /\ Head(remote.out).kind = kind

ServerGreets ==
    /\ Receives("hello")
    /\ remote' = [remote EXCEPT !.out = Tail(@), !.in = Append(@, 0)]
    /\ UNCHANGED <<authVars, workerQueue, user, localVars, serverVars, cache,
                   reported, acked, counters>>

ServerTakes ==
    LET batch == Head(remote.out).batch
    IN  /\ Receives("write")
        /\ log' = Append(log, [write |-> batch.write, author |-> batch.author,
                               token |-> remote.token])
        /\ remote' = [remote EXCEPT !.out = Tail(@), !.in = Append(@, Len(log'))]
        /\ UNCHANGED <<authVars, workerQueue, user, localVars, snapshot, cache,
                       reported, acked, counters>>

(* The rules refuse a write: the server ends the stream.                   *)
ServerRefuses ==
    /\ Receives("write")
    /\ remote' = [remote EXCEPT !.out = <<>>, !.refused = TRUE]
    /\ UNCHANGED <<authVars, workerQueue, user, localVars, serverVars, cache,
                   reported, acked, counters>>

WatchSends ==
    /\ snapshot = 0 /\ cache < Len(log)
    /\ snapshot' = Len(log)
    /\ UNCHANGED <<authVars, workerQueue, user, localVars, remote, log, cache,
                   reported, acked, counters>>

(* Mutant: a snapshot goes into the cache whatever is there.               *)
CacheWhatWasWatched(version) == version

(* LocalStore::ApplyRemoteEvent: an outdated snapshot is ignored.          *)
CacheAfterSnapshot(version) == IF version > cache THEN version ELSE cache

ApplyRemoteEvent ==
    /\ snapshot > 0
    /\ cache' = CacheAfterSnapshot(snapshot)
    /\ snapshot' = 0
    /\ UNCHANGED <<authVars, workerQueue, user, localVars, remote, log, reported,
                   acked, counters>>

-----------------------------------------------------------------------------
AuthNext ==
    \/ \E u \in Users : AuthChanges(u)
    \/ \E t \in Users \cup {None} : AuthAnswers(t)
    \/ NoticeUser
    \/ PassToken

ClientNext ==
    \/ WriteMutations
    \/ HandleCredentialChange
    \/ ConnectivityChanged
    \/ ResumeStart
    \/ BackoffElapsed
    \/ IdleTimeout
    \/ HandshakeComplete
    \/ MutationResult
    \/ StreamFails
    \/ WriteError
    \/ Relaunch
    \/ ApplyRemoteEvent

ServerNext == ServerGreets \/ ServerTakes \/ ServerRefuses \/ WatchSends

FirestoreNext == Write \/ AuthNext \/ ClientNext \/ ServerNext

FirestoreSpec == FirestoreInit /\ [][FirestoreNext]_writeVars

(* The queues run their tasks, the backoff ends, FIRAuth and the server    *)
(* answer; nothing else is promised.                                       *)
PhoneRuns == NoticeUser \/ PassToken \/ WriteMutations \/ HandleCredentialChange
             \/ ResumeStart \/ BackoffElapsed \/ HandshakeComplete
             \/ MutationResult \/ WriteError
AuthRuns == \E t \in Users \cup {None} : AuthAnswers(t)
ServerRuns == ServerGreets \/ ServerTakes \/ ServerRefuses

FirestoreFairness ==
    WF_writeVars(PhoneRuns) /\ WF_writeVars(AuthRuns) /\ WF_writeVars(ServerRuns)

FirestoreFairSpec == FirestoreSpec /\ FirestoreFairness

-----------------------------------------------------------------------------
Messages == {Hello} \cup [kind : {"write"}, batch : Batches]
Remotes == [state : States, pipeline : Seq(Batches), handshake : BOOLEAN,
            idle : BOOLEAN, token : Users \cup {None}, out : Seq(Messages),
            in : Seq(Nat), refused : BOOLEAN]

TypeOK ==
    /\ authUser \in Users /\ notified \in Users /\ user \in Users
    /\ mainQueue \in Seq(UserTasks \cup TokenTasks)
    /\ workerQueue \in Seq(WriteTasks \cup UserTasks \cup TokenTasks)
    /\ request \in Requests \cup {None}
    /\ queues \in [Users -> Seq(Batches)] /\ nextId \in Nat \ {0}
    /\ callbacks \subseteq Callbacks
    /\ remote \in Remotes
    /\ log \in Seq([write : Writes, author : Users, token : Users])
    /\ cache \in Nat /\ snapshot \in Nat /\ acked \in Nat
    /\ reported \subseteq [write : Writes, ok : BOOLEAN]
    /\ made \in 0..MaxWrites
    /\ switches \in 0..MaxSwitches /\ faults \in 0..MaxFaults

(* A stream that starts waits for exactly one token, whose request has     *)
(* been answered or not.                                                   *)
IsToken(tasks, i) == tasks[i].kind = "token"
StartsWithToken ==
    /\ (remote.state = "starting")
         = (request # None \/ \E tasks \in {mainQueue, workerQueue} :
                \E i \in 1..Len(tasks) : IsToken(tasks, i))
    /\ \A tasks \in {mainQueue, workerQueue} : \A i, j \in 1..Len(tasks) :
          IsToken(tasks, i) /\ IsToken(tasks, j) => i = j /\ request = None
    /\ \A i \in 1..Len(mainQueue), j \in 1..Len(workerQueue) :
          ~ (IsToken(mainQueue, i) /\ IsToken(workerQueue, j))

(* The rows of each user have growing ids, all of them below the next one. *)
IdsGrow ==
    \A u \in Users : \A i \in 1..Len(queues[u]) :
        /\ queues[u][i].id < nextId
        /\ \A j \in 1..(i - 1) : queues[u][j].id < queues[u][i].id

(* The pipeline is the beginning of the user's queue, as far as it goes.   *)
PipelineIsFull ==
    remote.pipeline = SubSeq(queues[user], 1,
        IF Len(queues[user]) < MaxPending THEN Len(queues[user]) ELSE MaxPending)

(* Every write of the pipeline is on its way to the server or answered, in *)
(* order; nothing is sent before the handshake; and the stream runs while  *)
(* there is something to send ("Write stream was stopped gracefully while  *)
(* still needed", "Got result for empty write pipeline").                  *)
StreamCarriesPipeline ==
    /\ remote.pipeline # <<>> => IsStarted(remote)
    /\ remote.idle => Ready(remote) /\ remote.pipeline = <<>>
    /\ remote.refused => Ready(remote) /\ remote.pipeline # <<>>
    /\ Ready(remote) /\ ~ remote.refused =>
         /\ Len(remote.in) + Len(remote.out) = Len(remote.pipeline)
         /\ \A i \in 1..Len(remote.out) :
              remote.out[i] = WriteOf(remote.pipeline[Len(remote.in) + i])
    /\ ~ Ready(remote) => Len(remote.in) + Len(remote.out)
                          = IF remote.state = "open" THEN 1 ELSE 0

(* A callback waits for a write that is still queued, under the id it was  *)
(* registered with: a batch id is not given out again while somebody waits *)
(* for it, though the ids are counted anew from the rows of the disk at    *)
(* every change of user (leveldb_mutation_queue.cc:112, sync_engine.cc:419).*)
CallbacksWaitForTheirWrite ==
    \A c \in callbacks :
        {q \in {queues[c.user][i] : i \in 1..Len(queues[c.user])} : q.id = c.id}
        = {[id |-> c.id, write |-> c.write, author |-> c.user]}

(* The bookkeeping of the write stream holds together: ids, callbacks,      *)
(* pipeline and stream agree whatever is lost, refused or restarted in     *)
(* between (remote_store.cc:397-560, stream.cc,                            *)
(* leveldb_mutation_queue.cc:55-132).                                      *)
StreamInv ==
    /\ TypeOK /\ StartsWithToken /\ IdsGrow /\ PipelineIsFull
    /\ StreamCarriesPipeline /\ CallbacksWaitForTheirWrite

(* The server takes a write only under the token of the user it was made   *)
(* for: tokens and changes of user cross each other on three queues, and   *)
(* neither an old token nor an old pipeline outlives the change            *)
(* (firebase_credentials_provider_apple.mm:80-96, remote_store.cc:559).    *)
TakenFromItsAuthor ==
    \A i \in 1..Len(log) : log[i].token = log[i].author

(* Once the app has been told that a write is saved, it does not read an   *)
(* older document again: neither an answer nor a watch snapshot that is    *)
(* overtaken puts the cache back (local_store.cc:196-222, 310-345).        *)
AcknowledgedIsRead == acked <= cache

(* What the server has taken of the pipeline over this stream.             *)
TakenOfPipeline == IF Ready(remote) THEN Len(remote.in) ELSE 0

Numbers(bs) == [i \in 1..Len(bs) |-> bs[i].write]

Log == INSTANCE WriteLog WITH
    pending <- [u \in Users |-> Numbers(queues[u])],
    active <- user,
    taken <- TakenOfPipeline,
    log <- Numbers(log)

(* Every write the worker queue has accepted reaches the server in the     *)
(* order it was made, is kept over restarts until the server has taken or  *)
(* refused it, and is reported at most once, as taken only if it was.      *)
LogSpec == Log!LogSpec

(* The app can rely on what it is told, over lost streams, restarts and    *)
(* changes of user: a write said to be saved was taken by the server, and  *)
(* none is said to be saved and refused (sync_engine.cc:419-434).          *)
ToldTheTruth == Log!ReportsAreTrue

(* With losses and changes of user bounded, the user's writes are all taken*)
(* or refused again and again: no stream is left stopped, backed off or    *)
(* idle while there is something to send (remote_store.cc:407-416, 478-482,*)
(* stream.cc:135-160).                                                     *)
Settles == []<>(queues[user] = <<>>)

-----------------------------------------------------------------------------
(* How far the client is from rest: what may still happen to it, the tasks *)
(* that wait, the writes of its user, the answer that there is no token,   *)
(* how far the stream is from the next answer, what it has sent, and what  *)
(* is left to be read.                                                     *)
Budget == (MaxWrites - made) + (MaxSwitches - switches) + (MaxFaults - faults)

HasToken(tasks) == \E i \in 1..Len(tasks) : IsToken(tasks, i)
OtherTasks(tasks) == IF HasToken(tasks) THEN Len(tasks) - 1 ELSE Len(tasks)
TasksLeft == 2 * OtherTasks(mainQueue) + OtherTasks(workerQueue)

WritesLeft == Len(queues[user])

LostTokens ==
    IF \E tasks \in {mainQueue, workerQueue} : \E i \in 1..Len(tasks) :
          IsToken(tasks, i) /\ tasks[i].token = None
    THEN 1 ELSE 0

StepsToToken ==
    IF request # None THEN IF request.fresh THEN 7 ELSE 9
    ELSE IF HasToken(workerQueue) THEN 5
    ELSE IF \E i \in 1..Len(mainQueue) : IsToken(mainQueue, i) /\ mainQueue[i].fresh
    THEN 6 ELSE 8

StepsToAnswer ==
    CASE remote.state = "backoff" -> 10
      [] remote.state = "starting" -> StepsToToken
      [] remote.state = "open" /\ ~ remote.handshake -> IF remote.in = <<>> THEN 4 ELSE 3
      [] remote.state = "open" /\ remote.handshake -> IF remote.refused THEN 1 ELSE 2
      [] OTHER -> 0

ToSend == Len(remote.out)

ToRead ==
    (IF cache < Len(log) /\ snapshot < Len(log) THEN 2 ELSE 0)
    + (IF snapshot > 0 THEN 1 ELSE 0)

Rank == <<Budget, TasksLeft, WritesLeft, LostTokens, StepsToAnswer, ToSend, ToRead>>

(* The client comes to rest: whatever it does, and whatever FIRAuth and the*)
(* server answer, brings it nearer, so that nothing is tried for ever.     *)
(* Stale tokens are asked for anew, streams started and pipelines sent     *)
(* again, snapshots fetched again: each for a reason that does not come    *)
(* back (firebase_credentials_provider_apple.mm:94, remote_store.cc:427,   *)
(* stream.cc:135, 280).                                                    *)
ComesToRest == [][ Lower(Rank', Rank) ]_writeVars

(* And at rest nothing waits: while the user has writes there is a task to *)
(* run, a timer to go off or an answer to come, and no stream is left      *)
(* stopped (remote_store.cc:478-560).                                      *)
NeverStuck ==
    queues[user] # <<>> =>
        \/ mainQueue # <<>> \/ workerQueue # <<>> \/ request # None
        \/ remote.state = "backoff"
        \/ remote.in # <<>> \/ remote.refused \/ remote.out # <<>>
===============================================================================
